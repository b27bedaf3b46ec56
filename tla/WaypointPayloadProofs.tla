------------------------- MODULE WaypointPayloadProofs -------------------------
(***************************************************************************)
(* That a point survives its conversions, for every draft, name, document  *)
(* and minor: what is kept is what was drawn, it is read back from the     *)
(* file as it was saved, and every frame it is sent in can be written and  *)
(* is read for what it was.                                                *)
(***************************************************************************)
EXTENDS WaypointPayload, TLAPS

(***************************************************************************)
(* Texts and bodies.                                                       *)
(***************************************************************************)
\* str::trim, done twice, is done once; what it leaves has no blanks.
LEMMA TrimTwice ==
  ASSUME NEW t \in Text
  PROVE /\ Trim(t) \in Text /\ Trim(Trim(t)) = Trim(t)
        /\ Trim(t).blanks = 0
        /\ Empty \in Text /\ Bytes(Empty) = 0
  BY DEF Trim, Text, Empty, Bytes

LEMMA TrimIsNoLonger ==
  ASSUME NEW t \in Text PROVE Bytes(Trim(t)) <= Bytes(t) /\ Bytes(t) \in Nat
<1>1. CASE t.points = 0
  BY <1>1 DEF Trim, Text, Empty, Bytes
<1>2. CASE t.points # 0
  <2>1. Trim(t).points = t.points /\ Trim(t).width = t.width /\ Trim(t).blanks = 0
    BY <1>2 DEF Trim, Text
  <2>2. t.points * t.width \in Nat /\ t.blanks \in Nat
    BY DEF Text
  <2> QED
    BY <2>1, <2>2 DEF Bytes
<1> QED
  BY <1>1, <1>2

\* A text of few enough code points is short enough for a frame.
LEMMA PointsBoundBytes ==
  ASSUME NEW t \in Text, t.blanks = 0, NEW max \in Nat, t.points <= max, 4 * max <= MaxBytes
  PROVE Bytes(t) <= MaxBytes
<1>1. t.points \in Nat /\ t.width \in 1..4 /\ MaxBytes \in Nat
  BY PayloadConstants DEF Text
<1>2. t.points * t.width <= 4 * t.points
  BY <1>1
<1>3. t.points * t.width \in Nat
  BY <1>1
<1> QED
  BY <1>1, <1>2, <1>3 DEF Bytes

LEMMA BodyTyped ==
  ASSUME NEW d, Body(d)
  PROVE /\ d \in Bodies
        /\ \A f \in Texts : d[f] \in Text
  BY DEF Body, Bodies, Values, BodyFields, Texts, Style, Coordinates

\* Normalising a body twice is normalising it once, and what is valid stays so.
LEMMA NormalTwice ==
  ASSUME NEW d, Body(d)
  PROVE /\ Body(Normal(d)) /\ Normal(Normal(d)) = Normal(d)
        /\ Valid(d) => Valid(Normal(d))
<1>1. \A f \in Texts : d[f] \in Text /\ Trim(d[f]) \in Text /\ Trim(Trim(d[f])) = Trim(d[f])
  BY BodyTyped, TrimTwice
<1>2. \A f \in BodyFields : Normal(d)[f] = IF f \in Texts THEN Trim(d[f]) ELSE d[f]
  BY DEF Normal
<1>3. Texts \subseteq BodyFields /\ Coordinates \subseteq BodyFields
      /\ Texts \intersect Coordinates = {} /\ {"opaque", "death"} \intersect Texts = {}
  BY DEF BodyFields, Texts, Style, Coordinates
<1>4. Body(Normal(d))
  BY <1>1, <1>2, <1>3 DEF Body, BodyFields, Normal
<1>5. Normal(Normal(d)) = Normal(d)
  BY <1>1, <1>2 DEF Normal
<1>6. ASSUME Valid(d) PROVE Valid(Normal(d))
  <2>1. /\ Trim(Normal(d).name) = Trim(d.name)
        /\ Trim(Normal(d).dimension) = Trim(d.dimension)
        /\ Trim(Normal(d).icon) = Trim(d.icon) /\ Trim(Normal(d).label) = Trim(d.label)
        /\ Normal(d).icon = Trim(d.icon)
    BY <1>1, <1>2, <1>3 DEF Texts, Style
  <2>2. /\ Normal(d).x = d.x /\ Normal(d).y = d.y /\ Normal(d).z = d.z
        /\ Normal(d).opaque = d.opaque
    BY <1>2, <1>3 DEF Coordinates, BodyFields
  <2>3. NormalizeLabel(Normal(d).label) = NormalizeLabel(d.label)
    BY <2>1 DEF NormalizeLabel
  <2>4. NormalizeIcon(Normal(d).icon) # Invalid
    <3>1. d.icon \in Text /\ Trim(d.icon) \in Text
      BY <1>1 DEF Texts, Style
    <3>2. Trim(d.icon) = Empty \/ "item" \in d.icon.is
      BY <1>6 DEF Valid, NormalizeIcon
    <3>3. Trim(d.icon) = Empty \/ "item" \in Trim(d.icon).is
      BY <3>1, <3>2 DEF Trim, Text
    <3> QED
      BY <2>1, <3>1, <3>3, NoneIsNothing DEF NormalizeIcon
  <2> QED
    BY <1>6, <2>1, <2>2, <2>3, <2>4 DEF Valid
<1> QED
  BY <1>4, <1>5, <1>6

(***************************************************************************)
(* Frames.                                                                 *)
(***************************************************************************)
\* Each layout names its fields once: with a style from minor 3 on.
LEMMA LayoutIs ==
  ASSUME NEW minor \in Int
  PROVE /\ Layout(minor) \in Seq(BodyFields)
        /\ Len(Layout(minor)) = IF minor >= 3 THEN 9 ELSE 7
        /\ \A f \in BodyFields : f \notin Style \/ minor >= 3 =>
             \E i \in DOMAIN Layout(minor) : Layout(minor)[i] = f
<1>1. /\ Plain \in Seq(BodyFields) /\ Len(Plain) = 7 /\ DOMAIN Plain = 1..7
      /\ Styled \in Seq(BodyFields) /\ Len(Styled) = 9 /\ DOMAIN Styled = 1..9
  BY DEF Styled, Plain, BodyFields, Texts, Style, Coordinates
<1>2. /\ Plain[1] = "name" /\ Plain[2] = "dimension" /\ Plain[3] = "x" /\ Plain[4] = "y"
      /\ Plain[5] = "z" /\ Plain[6] = "opaque" /\ Plain[7] = "death"
  BY DEF Plain
<1>3. /\ Styled[1] = "name" /\ Styled[2] = "dimension" /\ Styled[3] = "x" /\ Styled[4] = "y"
      /\ Styled[5] = "z" /\ Styled[6] = "opaque" /\ Styled[7] = "death"
      /\ Styled[8] = "icon" /\ Styled[9] = "label"
  BY DEF Styled
<1>4. ASSUME NEW f \in BodyFields PROVE \E i \in 1..9 : Styled[i] = f
  <2>1. f \in {"name", "dimension", "icon", "label", "x", "y", "z", "opaque", "death"}
    BY DEF BodyFields, Texts, Style, Coordinates
  <2>2. 1 \in 1..9 /\ 2 \in 1..9 /\ 3 \in 1..9 /\ 4 \in 1..9 /\ 5 \in 1..9 /\ 6 \in 1..9
        /\ 7 \in 1..9 /\ 8 \in 1..9 /\ 9 \in 1..9
    OBVIOUS
  <2> QED
    BY <1>3, <2>1, <2>2, Zenon
<1>5. ASSUME NEW f \in BodyFields, f \notin Style PROVE \E i \in 1..7 : Plain[i] = f
  <2>1. f \in {"name", "dimension", "x", "y", "z", "opaque", "death"}
    BY <1>5 DEF BodyFields, Texts, Style, Coordinates
  <2>2. 1 \in 1..7 /\ 2 \in 1..7 /\ 3 \in 1..7 /\ 4 \in 1..7 /\ 5 \in 1..7 /\ 6 \in 1..7
        /\ 7 \in 1..7
    OBVIOUS
  <2> QED
    BY <1>2, <2>1, <2>2, Zenon
<1>6. CASE minor >= 3
  <2>1. Layout(minor) = Styled
    BY <1>6 DEF Layout
  <2> QED
    BY <1>1, <1>4, <1>6, <2>1
<1>7. CASE ~(minor >= 3)
  <2>1. Layout(minor) = Plain
    BY <1>7 DEF Layout
  <2> QED
    BY <1>1, <1>5, <1>7, <2>1
<1> QED
  BY <1>6, <1>7

LEMMA PlaceIs ==
  ASSUME NEW minor \in Int, NEW f \in BodyFields, f \notin Style \/ minor >= 3
  PROVE Place(f, minor) \in DOMAIN Layout(minor) /\ Layout(minor)[Place(f, minor)] = f
  BY LayoutIs DEF Place

LEMMA FieldsTyped ==
  ASSUME NEW d, Body(d), NEW minor \in Int
  PROVE /\ Fields(d, minor) \in Seq(Values)
        /\ Len(Fields(d, minor)) = Len(Layout(minor))
        /\ \A i \in DOMAIN Layout(minor) : Fields(d, minor)[i] = d[Layout(minor)[i]]
<1>1. d \in Bodies
  BY BodyTyped
<1>2. Layout(minor) \in Seq(BodyFields)
  BY LayoutIs
<1>3. \A i \in DOMAIN Layout(minor) : d[Layout(minor)[i]] \in Values
  BY <1>1, <1>2 DEF Bodies
<1>4. DOMAIN Layout(minor) = 1..Len(Layout(minor)) /\ Len(Layout(minor)) \in Nat
  BY <1>2
<1> QED
  BY <1>3, <1>4 DEF Fields

LEMMA InTyped ==
  ASSUME NEW d, Body(d), NEW minor \in Int
  PROVE Body(In(d, minor)) /\ In(d, minor) \in Bodies /\ In(d, minor) # Malformed
<1>1. /\ \A f \in Texts : d[f] \in Text
      /\ Empty \in Text
  BY BodyTyped DEF Empty, Text
<1>2. \A f \in BodyFields : In(d, minor)[f] = IF f \in Style /\ minor < 3 THEN Empty ELSE d[f]
  BY DEF In
<1>3. Body(In(d, minor))
  BY <1>1, <1>2 DEF Body, In, BodyFields, Texts, Style, Coordinates
<1> QED
  BY <1>3, BodyTyped, NoneIsNothing

\* A frame read by any minor is malformed or says what was written; read by one of
\* the same layout, and with fields a frame carries, it is not malformed.
LEMMA ReadBack ==
  ASSUME NEW d, Body(d), NEW m \in Int, NEW n \in Int
  PROVE /\ Decode(Fields(d, m), n) \in {Malformed, In(d, m)}
        /\ /\ m >= 3 <=> n >= 3
           /\ \A i \in DOMAIN Layout(m) : Carried(Layout(m)[i], d[Layout(m)[i]])
           => Decode(Fields(d, m), n) = In(d, m) /\ In(d, m) = In(d, n)
<1>1. CASE ~(m >= 3 <=> n >= 3)
  <2>1. Len(Fields(d, m)) # Len(Layout(n))
    <3>1. Len(Fields(d, m)) = Len(Layout(m))
      BY FieldsTyped
    <3>2. /\ Len(Layout(m)) = IF m >= 3 THEN 9 ELSE 7
          /\ Len(Layout(n)) = IF n >= 3 THEN 9 ELSE 7
      BY LayoutIs
    <3> QED
      BY <1>1, <3>1, <3>2
  <2> QED
    BY <1>1, <2>1 DEF Decode
<1>2. CASE m >= 3 <=> n >= 3
  <2>1. Layout(m) = Layout(n) /\ In(d, m) = In(d, n)
    BY <1>2 DEF Layout, In
  <2>2. ASSUME NEW f \in BodyFields
        PROVE (IF f \in Style /\ n < 3 THEN Empty ELSE Fields(d, m)[Place(f, n)]) = In(d, n)[f]
    <3>1. CASE f \in Style /\ n < 3
      BY <3>1 DEF In
    <3>2. CASE ~(f \in Style /\ n < 3)
      <4>1. Place(f, n) \in DOMAIN Layout(m) /\ Layout(m)[Place(f, n)] = f
        BY <2>1, <3>2, PlaceIs
      <4>2. Fields(d, m)[Place(f, n)] = d[Layout(m)[Place(f, n)]]
        BY <4>1, FieldsTyped
      <4> QED
        BY <3>2, <4>1, <4>2 DEF In
    <3> QED
      BY <3>1, <3>2
  <2>3. [f \in BodyFields |->
           IF f \in Style /\ n < 3 THEN Empty ELSE Fields(d, m)[Place(f, n)]] = In(d, n)
    BY <2>2 DEF In
  <2>4. Len(Fields(d, m)) = Len(Layout(n))
    BY <2>1, FieldsTyped
  <2>5. \A i \in DOMAIN Layout(m) : Fields(d, m)[i] = d[Layout(m)[i]]
    BY FieldsTyped
  <2>6. ASSUME \A i \in DOMAIN Layout(m) : Carried(Layout(m)[i], d[Layout(m)[i]])
        PROVE Decode(Fields(d, m), n) = In(d, n)
    <3>1. \A i \in DOMAIN Layout(n) : Carried(Layout(n)[i], Fields(d, m)[i])
      BY <2>1, <2>5, <2>6
    <3> QED
      BY <2>3, <2>4, <3>1 DEF Decode
  <2>7. Decode(Fields(d, m), n) \in {Malformed, In(d, n)}
    BY <2>3 DEF Decode
  <2> QED
    BY <2>1, <2>6, <2>7
<1> QED
  BY <1>1, <1>2


\* The server reads no icon that it could not send again.
LEMMA ReadIconFits ==
  ASSUME NEW d, Body(d), NEW m \in Int, NEW n \in Int, Decode(Fields(d, m), n) # Malformed
  PROVE Bytes(Decode(Fields(d, m), n).icon) <= MaxBytes
<1>1. \A i \in DOMAIN Layout(n) : Carried(Layout(n)[i], Fields(d, m)[i])
  BY DEF Decode
<1>2. "icon" \in BodyFields /\ "icon" \in Style /\ "icon" \in Texts
  BY DEF BodyFields, Texts, Style
<1>3. Decode(Fields(d, m), n).icon = IF n < 3 THEN Empty ELSE Fields(d, m)[Place("icon", n)]
  BY <1>2 DEF Decode
<1>4. CASE n < 3
  BY <1>3, <1>4, PayloadConstants DEF Empty, Bytes
<1>5. CASE ~(n < 3)
  <2>1. Place("icon", n) \in DOMAIN Layout(n) /\ Layout(n)[Place("icon", n)] = "icon"
    BY <1>2, <1>5, PlaceIs
  <2>2. Carried("icon", Fields(d, m)[Place("icon", n)])
    BY <1>1, <2>1
  <2> QED
    BY <1>2, <1>3, <1>5, <2>2 DEF Carried
<1> QED
  BY <1>4, <1>5

(***************************************************************************)
(* Points the server keeps.                                                *)
(***************************************************************************)
Good(p) ==
  /\ p = Point(p.body, p.publisher)
  /\ Body(p.body) /\ Valid(p.body) /\ Normal(p.body) = p.body
  /\ p.publisher \in Text /\ ValidPublisherName(p.publisher)
  /\ Trim(p.publisher) = p.publisher
  /\ Bytes(p.body.icon) <= MaxBytes

LEMMA GoodIsSomething ==
  ASSUME NEW p, Good(p) PROVE p \in Points /\ p # None /\ p # Invalid
<1>1. p.body \in Bodies /\ p.publisher \in Text
  BY BodyTyped DEF Good
<1>2. p = [body |-> p.body, publisher |-> p.publisher]
  BY DEF Good, Point
<1>3. p \in Points
  BY <1>1, <1>2 DEF Points
<1> QED
  BY <1>3, NoneIsNothing

\* Normalising makes a good point of a body and a name that are in order.
LEMMA NormalIsGood ==
  ASSUME NEW d, Body(d), Valid(d), Bytes(Trim(d.icon)) <= MaxBytes,
         NEW name \in Text, ValidPublisherName(name)
  PROVE Good(Point(Normal(d), Trim(name)))
<1>1. Body(Normal(d)) /\ Normal(Normal(d)) = Normal(d) /\ Valid(Normal(d))
  BY NormalTwice
<1>2. Trim(name) \in Text /\ Trim(Trim(name)) = Trim(name)
  BY TrimTwice
<1>3. ValidPublisherName(Trim(name))
  BY <1>2 DEF ValidPublisherName
<1>4. Normal(d).icon = Trim(d.icon)
  BY DEF Normal, BodyFields, Texts, Style
<1> QED
  BY <1>1, <1>2, <1>3, <1>4 DEF Good, Point

\* Every frame can carry a good point.
LEMMA GoodIsCarried ==
  ASSUME NEW p, Good(p), NEW minor \in Int
  PROVE /\ Bytes(p.publisher) <= MaxBytes
        /\ \A i \in DOMAIN Layout(minor) :
             Carried(Layout(minor)[i], p.body[Layout(minor)[i]])
<1> DEFINE b == p.body
<1>1. /\ Body(b) /\ Valid(b) /\ Normal(b) = b
      /\ \A f \in Texts : b[f] \in Text
  BY BodyTyped DEF Good
<1>2. \A f \in Texts : b[f] = Trim(b[f])
  BY <1>1 DEF Normal, BodyFields
<1>3. \A t \in Text : Trim(t).blanks = 0
  BY TrimTwice
<1>4. Bytes(p.publisher) <= MaxBytes
  <2>1. p.publisher \in Text /\ p.publisher.blanks = 0 /\ p.publisher.points <= MaxName
    BY <1>3 DEF Good, ValidPublisherName, ValidDisplayText, Text
  <2> QED
    BY <2>1, PointsBoundBytes, PayloadConstants
<1>5. Bytes(b.name) <= MaxBytes
  <2>1. b.name \in Text /\ b.name = Trim(b.name)
    BY <1>1, <1>2 DEF Texts
  <2>2. b.name.blanks = 0
    BY <1>3, <2>1
  <2>3. b.name.points <= MaxName
    BY <1>1, <2>1, <2>2 DEF Valid, ValidDisplayText, Text
  <2> QED
    BY <2>1, <2>2, <2>3, PointsBoundBytes, PayloadConstants
<1>6. Bytes(b.label) <= MaxBytes
  <2>1. b.label \in Text /\ b.label = Trim(b.label)
    BY <1>1, <1>2 DEF Texts, Style
  <2>2. b.label.blanks = 0
    BY <1>3, <2>1
  <2>3. b.label = Empty \/ ValidDisplayText(b.label, MaxLabel)
    BY <1>1, <2>1 DEF Valid, NormalizeLabel
  <2>4. b.label.points <= MaxLabel
    BY <2>1, <2>2, <2>3, PayloadConstants DEF ValidDisplayText, Text, Empty
  <2> QED
    BY <2>1, <2>2, <2>4, PointsBoundBytes, PayloadConstants
<1>7. Bytes(b.dimension) <= MaxBytes
  <2>1. b.dimension \in Text /\ b.dimension = Trim(b.dimension)
    BY <1>1, <1>2 DEF Texts
  <2>2. Bytes(b.dimension) <= 256 /\ Bytes(b.dimension) \in Nat
    BY <1>1, <2>1, TrimIsNoLonger DEF Valid, ValidDimension
  <2> QED
    BY <2>2, PayloadConstants
<1>8. b.x # NotFinite /\ b.y # NotFinite /\ b.z # NotFinite
  BY <1>1 DEF Valid, Within
<1>9. ASSUME NEW f \in BodyFields PROVE Carried(f, b[f])
  <2>1. f \in Texts => Bytes(b[f]) <= MaxBytes
    BY <1>5, <1>6, <1>7 DEF Good, Texts, Style
  <2>2. f \in Coordinates => b[f] # NotFinite
    BY <1>8 DEF Coordinates
  <2> QED
    BY <2>1, <2>2 DEF Carried
<1>10. Layout(minor) \in Seq(BodyFields)
  BY LayoutIs
<1> QED
  BY <1>4, <1>9, <1>10

\* A good point is read from its frame as far as the minor has it.
LEMMA GoodIsRead ==
  ASSUME NEW p, Good(p), NEW minor \in Int, NEW c, NEW before
  PROVE Reads(c, Encode(p, minor), minor, before) = [p EXCEPT !.body = In(p.body, minor)]
<1>1. Body(p.body) /\ p.publisher \in Text /\ p = [body |-> p.body, publisher |-> p.publisher]
  BY DEF Good, Point
<1>2. Encode(p, minor) = [publisher |-> p.publisher, fields |-> Fields(p.body, minor)]
  BY GoodIsCarried DEF Encode
<1>3. Encode(p, minor) # Malformed
  BY <1>1, <1>2, FieldsTyped, NoneIsNothing
<1>4. Decode(Fields(p.body, minor), minor) = In(p.body, minor)
  BY <1>1, GoodIsCarried, ReadBack
<1>5. In(p.body, minor) # Malformed
  BY <1>1, InTyped
<1>6. Reads(c, Encode(p, minor), minor, before) = Point(In(p.body, minor), p.publisher)
  BY <1>2, <1>3, <1>4, <1>5 DEF Reads
<1>7. [p EXCEPT !.body = In(p.body, minor)] =
        [body |-> In(p.body, minor), publisher |-> p.publisher]
  BY <1>1
<1> QED
  BY <1>6, <1>7 DEF Point

(***************************************************************************)
(* Documents.                                                              *)
(***************************************************************************)
Sound(e) ==
  /\ e.publisher \in Text /\ Body([f \in BodyFields |-> Value(e, f)])
  /\ Bytes(Trim(Value(e, "icon"))) <= MaxBytes

\* What is read from a document is good.
LEMMA LoadedIsGood ==
  ASSUME NEW e, Sound(e), FromEntry(e) # Invalid PROVE Good(FromEntry(e))
<1> DEFINE d == [f \in BodyFields |-> Value(e, f)]
<1>1. /\ ValidPublisherName(e.publisher) /\ Valid(d)
      /\ FromEntry(e) = Point(Normal(d), Trim(e.publisher))
  BY DEF FromEntry, Validate
<1>2. d.icon = Value(e, "icon")
  BY DEF BodyFields, Texts, Style
<1> HIDE DEF d
<1>3. Body(d) /\ e.publisher \in Text /\ Bytes(Trim(d.icon)) <= MaxBytes
  BY <1>2 DEF Sound, d
<1> QED
  BY <1>1, <1>3, NormalIsGood

\* A good point can be saved, and is read back as it was.
LEMMA GoodIsSaved ==
  ASSUME NEW p, Good(p)
  PROVE Persistable(p) /\ Sound(ToDocument(p)) /\ FromEntry(ToDocument(p)) = p
<1> DEFINE e == ToDocument(p)
           d == [f \in BodyFields |-> Value(e, f)]
<1>1. /\ Body(p.body) /\ Valid(p.body) /\ Normal(p.body) = p.body /\ p.publisher \in Text
      /\ ValidPublisherName(p.publisher) /\ Trim(p.publisher) = p.publisher
      /\ p = Point(p.body, p.publisher) /\ Bytes(p.body.icon) <= MaxBytes
  BY DEF Good
<1>2. e.publisher = p.publisher /\ e.body = p.body /\ DOMAIN e.body = BodyFields
  BY <1>1 DEF ToDocument, Body
<1>3. d = p.body
  <2>1. \A f \in BodyFields : Value(e, f) = p.body[f]
    BY <1>2 DEF Value
  <2>2. p.body = [f \in BodyFields |-> p.body[f]]
    BY <1>1 DEF Body
  <2> QED
    BY <2>1, <2>2
<1>4. Value(e, "icon") = p.body.icon /\ Trim(p.body.icon) = p.body.icon
  <2>1. "icon" \in BodyFields /\ "icon" \in Texts
    BY DEF BodyFields, Texts, Style
  <2> QED
    BY <1>1, <1>2, <2>1 DEF Value, Normal
<1> HIDE DEF e
<1>5. Sound(e)
  BY <1>1, <1>2, <1>3, <1>4 DEF Sound
<1>6. FromEntry(e) = p
  <2>1. FromEntry(e) = Point(Validate(p.body), Trim(p.publisher))
    BY <1>1, <1>2, <1>3 DEF FromEntry
  <2> QED
    BY <1>1, <2>1 DEF Validate
<1> QED
  BY <1>1, <1>5, <1>6 DEF Persistable, e


(***************************************************************************)
(* The invariant: clients that the server has a session with will read by  *)
(* its minor what they are sent next, and the point is good and saved.     *)
(***************************************************************************)
Agreed ==
  /\ session \in [Clients -> Int \union {None}] /\ told \in [Clients -> Int \union {None}]
  /\ speaks \in [Clients -> Int]
  /\ shown = [c \in Clients |-> shown[c]]
  /\ following \subseteq Clients
  /\ \A c \in Clients : session[c] # None => Heard(c) = session[c]
  /\ \A c \in following : session[c] # None

Kept ==
  /\ point = None => file = None /\ drawn = None
  /\ point # None => Good(point) /\ file # None /\ Sound(file) /\ FromEntry(file) = point

PayloadInv == Agreed /\ Kept /\ DrawnIsKept /\ FollowersShowThePoint

\* A point is drawn, or drawn anew.
Draw(c, draft) == Create(c, draft) \/ Update(c, draft)

LEMMA PayloadInit == ASSUME Init PROVE PayloadInv
  BY DEF Init, PayloadInv, Agreed, Kept, DrawnIsKept, FollowersShowThePoint

LEMMA AgreedHolds == ASSUME Agreed, [Next]_vars PROVE Agreed'
<1>1. None \notin Int
  BY NoneIsNothing
<1>2. \A c \in Clients : Heard(c) \in Int
  BY <1>1 DEF Agreed, Heard
<1>3. ASSUME NEW c \in Clients, Hello(c) PROVE Agreed'
  <2>1. Negotiated(Build[c]) \in Int
    BY PayloadConstants DEF Negotiated
  <2> QED
    BY <1>1, <1>3, <2>1 DEF Agreed, Hello, Heard
<1>4. ASSUME NEW c \in Clients, Hear(c) PROVE Agreed'
  BY <1>1, <1>4 DEF Agreed, Hear, Heard
<1>5. ASSUME NEW c \in Clients, Subscribe(c) PROVE Agreed'
  BY <1>1, <1>2, <1>5 DEF Agreed, Subscribe, Heard
<1>6. ASSUME NEW c \in Clients, Erase(c) PROVE Agreed'
  BY <1>1, <1>2, <1>6 DEF Agreed, Erase, Heard
<1>7. ASSUME NEW c \in Clients, Leave(c) PROVE Agreed'
  BY <1>1, <1>7 DEF Agreed, Leave, Heard
<1>8. ASSUME NEW c \in Clients, NEW d \in Drafts, Draw(c, d) PROVE Agreed'
  <2>1. /\ speaks' = [e \in Clients |-> IF e \in following THEN Heard(e) ELSE speaks[e]]
        /\ told' = [e \in Clients |-> IF e \in following THEN None ELSE told[e]]
        /\ shown' = [e \in Clients |-> shown'[e]]
        /\ UNCHANGED <<session, following>>
    BY <1>8 DEF Draw, Create, Update, Accept
  <2> QED
    BY <1>1, <1>2, <2>1 DEF Agreed, Heard
<1>9. ASSUME NEW e, Load(e) PROVE Agreed'
  BY <1>9 DEF Agreed, Load, Heard
<1>10. CASE UNCHANGED vars
  BY <1>10 DEF Agreed, vars, Heard
<1> QED
  BY <1>3, <1>4, <1>5, <1>6, <1>7, <1>8, <1>9, <1>10 DEF Next, Draw, Reload, Found

\* What a session lets through is a good point, and what its author drew.
LEMMA DrawIsGood ==
  ASSUME Agreed, Kept, NEW c \in Clients, NEW d \in Drafts, Draw(c, d)
  PROVE /\ Good(point') /\ file' = ToDocument(point')
        /\ drawn' = [draft |-> d, minor |-> speaks[c]]
        /\ point'.body = Normal(In(d, speaks[c]))
<1> DEFINE m == speaks[c]
           n == Minor(c)
           read == Decode(Fields(d, m), n)
           name == IF point = None THEN Called[c] ELSE point.publisher
<1>1. Body(d) /\ m \in Int /\ n \in Int
  BY PayloadInputs DEF Agreed, Minor
<1>2. /\ read # Malformed /\ Valid(read)
      /\ point' = Point(Normal(read), IF point = None THEN Trim(Called[c]) ELSE point.publisher)
      /\ file' = ToDocument(point') /\ drawn' = [draft |-> d, minor |-> m]
      /\ point = None => ValidPublisherName(Called[c])
  BY DEF Draw, Create, Update, Accept, Validate
<1> HIDE DEF m, n
<1>3. read = In(d, m) /\ Bytes(read.icon) <= MaxBytes
  BY <1>1, <1>2, ReadBack, ReadIconFits
<1> HIDE DEF read
<1>4. Body(read)
  BY <1>1, <1>3, InTyped
<1>5. read.icon \in Text
  BY <1>4, BodyTyped DEF Texts, Style
<1>6. Bytes(Trim(read.icon)) <= MaxBytes
  BY <1>3, <1>5, TrimIsNoLonger, TrimTwice, PayloadConstants DEF Bytes, Text
<1>7. /\ name \in Text /\ ValidPublisherName(name)
      /\ point' = Point(Normal(read), Trim(name))
  BY <1>2, PayloadInputs DEF Kept, Good
<1> HIDE DEF name
<1>8. Good(point')
  BY <1>2, <1>4, <1>6, <1>7, NormalIsGood
<1>9. point'.body = Normal(read)
  BY <1>7 DEF Point
<1> QED
  BY <1>2, <1>3, <1>8, <1>9 DEF m

\* What is loaded is good or nothing; and what was saved is loaded as it was.
LEMMA LoadIsGood ==
  ASSUME Kept, DrawnIsKept, NEW e, e = None \/ Sound(e), Load(e)
  PROVE Kept' /\ DrawnIsKept'
<1> DEFINE loaded == IF e = None THEN None ELSE FromEntry(e)
<1>1. CASE loaded \in {None, Invalid}
  <2>1. point' = None /\ file' = None /\ drawn' = None
    BY <1>1 DEF Load
  <2> QED
    BY <2>1 DEF Kept, DrawnIsKept
<1>2. CASE loaded \notin {None, Invalid}
  <2>1. e # None /\ Sound(e) /\ loaded = FromEntry(e) /\ FromEntry(e) # Invalid
    BY <1>2
  <2>2. Good(FromEntry(e))
    BY <2>1, LoadedIsGood
  <2>3. Persistable(FromEntry(e)) /\ FromEntry(e) # None
    BY <2>2, GoodIsSaved, GoodIsSomething
  <2>4. /\ point' = Sanitized(loaded) /\ file' \in {e, ToDocument(loaded)}
        /\ drawn' = IF e = file /\ point' # None THEN drawn ELSE None
    BY <1>2 DEF Load, Rewritten
  <2>5. point' = FromEntry(e)
    BY <2>1, <2>3, <2>4 DEF Sanitized
  <2>6. Kept'
    <3>1. ToDocument(loaded) # None
      <4>1. ToDocument(loaded) \in Points
        BY <2>1, <2>2, BodyTyped DEF Good, ToDocument, Points
      <4> QED
        BY <4>1, NoneIsNothing
    <3>2. Sound(ToDocument(loaded)) /\ FromEntry(ToDocument(loaded)) = loaded
      BY <2>1, <2>2, GoodIsSaved
    <3> QED
      BY <2>1, <2>2, <2>3, <2>4, <2>5, <3>1, <3>2 DEF Kept
  <2>7. DrawnIsKept'
    <3>1. CASE drawn' = None
      BY <3>1 DEF DrawnIsKept
    <3>2. CASE drawn' # None
      <4>1. e = file /\ drawn' = drawn
        BY <2>4, <3>2
      <4>2. point' = point
        BY <2>1, <2>5, <3>2, <4>1 DEF Kept
      <4> QED
        BY <4>1, <4>2 DEF DrawnIsKept
    <3> QED
      BY <3>1, <3>2
  <2> QED
    BY <2>6, <2>7
<1> QED
  BY <1>1, <1>2

LEMMA KeptHolds ==
  ASSUME Agreed, Kept, DrawnIsKept, [Next]_vars PROVE Kept' /\ DrawnIsKept'
<1>1. ASSUME UNCHANGED <<point, file, drawn>> PROVE Kept' /\ DrawnIsKept'
  BY <1>1 DEF Kept, DrawnIsKept
<1>2. ASSUME NEW c \in Clients, Hello(c) \/ Hear(c) \/ Subscribe(c) \/ Leave(c)
      PROVE Kept' /\ DrawnIsKept'
  BY <1>1, <1>2 DEF Hello, Hear, Subscribe, Leave
<1>3. ASSUME NEW c \in Clients, Erase(c) PROVE Kept' /\ DrawnIsKept'
  BY <1>3 DEF Erase, Kept, DrawnIsKept
<1>4. ASSUME NEW c \in Clients, NEW d \in Drafts, Draw(c, d) PROVE Kept' /\ DrawnIsKept'
  <2>1. /\ Good(point') /\ file' = ToDocument(point')
        /\ drawn' = [draft |-> d, minor |-> speaks[c]]
        /\ point'.body = Normal(In(d, speaks[c]))
    BY <1>4, DrawIsGood
  <2>2. point' # None /\ Sound(file') /\ FromEntry(file') = point'
    BY <2>1, GoodIsSomething, GoodIsSaved
  <2>3. file' # None
    <3>1. ToDocument(point') \in Points
      BY <2>1, BodyTyped DEF Good, ToDocument, Points
    <3> QED
      BY <2>1, <3>1, NoneIsNothing
  <2>4. drawn'.draft = d /\ drawn'.minor = speaks[c]
    BY <2>1
  <2> QED
    BY <2>1, <2>2, <2>3, <2>4 DEF Kept, DrawnIsKept
<1>5. CASE Reload
  BY <1>5, LoadIsGood DEF Reload, Kept
<1>6. CASE Found
  <2>1. PICK e \in Documents : Load(e)
    BY <1>6 DEF Found
  <2>2. e = None \/ Sound(e)
    BY PayloadInputs, DocumentsFit DEF Sound
  <2> QED
    BY <2>1, <2>2, LoadIsGood
<1>7. CASE UNCHANGED vars
  BY <1>1, <1>7 DEF vars
<1> QED
  BY <1>2, <1>3, <1>4, <1>5, <1>6, <1>7 DEF Next, Draw

\* A follower is shown what there is to show, at the step that changes it.
Showing(c) ==
  shown[c] = IF point = None THEN None
             ELSE [point EXCEPT !.body = In(point.body, session[c])]

LEMMA FollowersHold ==
  ASSUME PayloadInv, [Next]_vars, Agreed', Kept' PROVE FollowersShowThePoint'
<1> SUFFICES ASSUME NEW c \in Clients, c \in following' PROVE Showing(c)'
  BY DEF FollowersShowThePoint, Showing, Agreed
<1>1. /\ c \in following => Showing(c) /\ session[c] # None
      /\ session[c] # None => session[c] \in Int /\ Heard(c) = session[c] /\ Minor(c) = session[c]
  BY DEF PayloadInv, FollowersShowThePoint, Showing, Agreed, Minor
<1>2. ASSUME c \in following,
             UNCHANGED <<point>>, shown'[c] = shown[c], session'[c] = session[c]
      PROVE Showing(c)'
  BY <1>1, <1>2 DEF Showing
<1>3. ASSUME NEW b \in Clients, Hello(b) PROVE Showing(c)'
  <2>1. c # b /\ c \in following
    BY <1>3 DEF Hello
  <2>2. session'[c] = session[c] /\ shown'[c] = shown[c] /\ point' = point
    BY <1>3, <2>1 DEF Hello, PayloadInv, Agreed
  <2> QED
    BY <1>2, <2>1, <2>2
<1>4. ASSUME NEW b \in Clients, Hear(b) PROVE Showing(c)'
  BY <1>2, <1>4 DEF Hear
<1>5. ASSUME NEW b \in Clients, Subscribe(b) PROVE Showing(c)'
  <2>1. CASE c = b
    <3>1. /\ session' = session /\ point' = point /\ session[c] # None
          /\ shown'[c] = IF point = None THEN None
                         ELSE Reads(c, Encode(point, Minor(c)), Heard(c), shown[c])
      BY <1>5, <2>1 DEF Subscribe, PayloadInv, Agreed
    <3>2. CASE point = None
      BY <3>1, <3>2 DEF Showing
    <3>3. CASE point # None
      BY <1>1, <3>1, <3>3, GoodIsRead DEF Showing, PayloadInv, Kept
    <3> QED
      BY <3>2, <3>3
  <2>2. CASE c # b
    <3>1. /\ session' = session /\ point' = point /\ shown'[c] = shown[c] /\ c \in following
      BY <1>5, <2>2 DEF Subscribe, PayloadInv, Agreed
    <3> QED
      BY <1>2, <3>1
  <2> QED
    BY <2>1, <2>2
<1>6. ASSUME NEW b \in Clients, Erase(b) PROVE Showing(c)'
  BY <1>6 DEF Erase, Showing
<1>7. ASSUME NEW b \in Clients, Leave(b) PROVE Showing(c)'
  <2>1. c # b /\ c \in following
    BY <1>7 DEF Leave
  <2>2. session'[c] = session[c] /\ shown'[c] = shown[c] /\ point' = point
    BY <1>7, <2>1 DEF Leave, PayloadInv, Agreed
  <2> QED
    BY <1>2, <2>1, <2>2
<1>8. ASSUME NEW b \in Clients, NEW d \in Drafts, Draw(b, d) PROVE Showing(c)'
  <2>1. c \in following /\ session' = session
    BY <1>8 DEF Draw, Create, Update, Accept
  <2>2. Good(point')
    BY <1>8, DrawIsGood DEF PayloadInv
  <2>3. shown'[c] = Reads(c, Encode(point', Minor(c)), Heard(c), shown[c])
    BY <1>8, <2>1 DEF Draw, Create, Update, Accept
  <2>4. shown'[c] = [point' EXCEPT !.body = In(point'.body, session[c])]
    BY <1>1, <2>1, <2>2, <2>3, GoodIsRead
  <2>5. point' # None
    BY <2>2, GoodIsSomething
  <2> QED
    BY <2>1, <2>4, <2>5 DEF Showing
<1>9. ASSUME NEW e, Load(e) PROVE Showing(c)'
  BY <1>9 DEF Load
<1>10. CASE UNCHANGED vars
  BY <1>2, <1>10 DEF vars
<1> QED
  BY <1>3, <1>4, <1>5, <1>6, <1>7, <1>8, <1>9, <1>10 DEF Next, Draw, Reload, Found

LEMMA PayloadStep == ASSUME PayloadInv, [Next]_vars PROVE PayloadInv'
  BY AgreedHolds, KeptHolds, FollowersHold DEF PayloadInv

(***************************************************************************)
(* Theorems.                                                               *)
(***************************************************************************)
\* What the server keeps of a draft is what its author could write of it, trimmed
\* (decode, validate), for every draft and every two minors.
THEOREM DrawingsAreKept == Spec => []DrawnIsKept
<1>1. PayloadInv /\ [Next]_vars => PayloadInv'
  BY PayloadStep
<1>2. Init => PayloadInv
  BY PayloadInit
<1>3. PayloadInv => DrawnIsKept
  BY DEF PayloadInv
<1> QED
  BY <1>1, <1>2, <1>3, PTL DEF Spec

\* What the server holds it can save, and a restart finds it unchanged
\* (persistable, to_document, from_entry).
THEOREM RestartsFindThePoint == Spec => []SavedIsReloaded
<1>1. PayloadInv /\ [Next]_vars => PayloadInv'
  BY PayloadStep
<1>2. Init => PayloadInv
  BY PayloadInit
<1>3. PayloadInv => SavedIsReloaded
  BY GoodIsSaved DEF PayloadInv, Kept, SavedIsReloaded
<1> QED
  BY <1>1, <1>2, <1>3, PTL DEF Spec

\* Every point the server holds can be written for every subscriber, and each reads
\* it for what it is (encode, put_waypoint, finite, put_utf).
THEOREM FollowersAreShown == Spec => []FollowersShowThePoint
<1>1. PayloadInv /\ [Next]_vars => PayloadInv'
  BY PayloadStep
<1>2. Init => PayloadInv
  BY PayloadInit
<1>3. PayloadInv => FollowersShowThePoint
  BY DEF PayloadInv
<1> QED
  BY <1>1, <1>2, <1>3, PTL DEF Spec
================================================================================
