-------------------------- MODULE PluginConfigProofs --------------------------
(***************************************************************************)
(* What the configuration keeps, whatever the operator writes into the     *)
(* file, whatever save is found and however often both are read again:     *)
(* each setting is as the last good line says, the limits agree, and no    *)
(* policy carries a seed that its file withholds.                          *)
(***************************************************************************)
EXTENDS PluginConfig, FiniteSetTheorems, SequenceTheorems, WellFoundedInduction, TLAPS

(***************************************************************************)
(* Numbers.                                                                *)
(***************************************************************************)
\* A set of naturals has a least element.
LEMMA Least ==
  ASSUME NEW D \in SUBSET Nat, D # {}
  PROVE  \E m \in D : \A k \in D : m <= k
<1> DEFINE R == StrictSubsetOrdering(Nat)
           F == FiniteSubsetsOf(Nat)
           T == {1..n : n \in D}
<1>1. IsWellFoundedOn(R, F)
  BY FS_StrictSubsetOrderingWellFounded
<1>2. T \subseteq F /\ T # {}
  <2>1. \A n \in Nat : IsFiniteSet(1..n) /\ 1..n \in SUBSET Nat
    BY FS_Interval
  <2> QED BY <2>1 DEF FiniteSubsetsOf
<1>3. PICK x \in T : \A y \in T : ~ (<<y, x>> \in R)
  <2> HIDE DEF R, F, T
  <2> QED BY <1>1, <1>2, WFMin
<1>4. PICK m \in D : x = 1..m
  OBVIOUS
<1>5. ASSUME NEW k \in D, k < m PROVE FALSE
  <2>1. 1..k \in T /\ <<1..k, x>> \notin R
    BY <1>3
  <2>2. 1..k \in SUBSET Nat /\ 1..m \in SUBSET Nat
    BY <1>5
  <2>3. 1..k \subseteq 1..m /\ m \in 1..m /\ m \notin 1..k
    BY <1>5
  <2>4. 1..k # 1..m
    BY <2>3
  <2> QED BY <2>1, <2>2, <2>3, <2>4, <1>4 DEF StrictSubsetOrdering
<1> QED BY <1>4, <1>5

LEMMA MinFacts ==
  ASSUME NEW S \in SUBSET Nat, S # {}
  PROVE  Min(S) \in S /\ \A n \in S : Min(S) <= n
BY Least DEF Min

\* The first of a set, when it is in a part of the set, is the first of that part.
LEMMA MinOfPart ==
  ASSUME NEW S \in SUBSET Nat, NEW T \in SUBSET S, Min(S) \in T
  PROVE  Min(T) = Min(S)
<1>1. \A n \in S : Min(S) <= n
  BY MinFacts
<1>2. Min(T) \in T /\ \A n \in T : Min(T) <= n
  BY MinFacts
<1>3. Min(T) \in Nat /\ Min(S) \in Nat /\ Min(T) <= Min(S) /\ Min(S) <= Min(T)
  BY <1>1, <1>2
<1> QED BY <1>3

LEMMA MaxIsLast ==
  ASSUME NEW n \in Nat, NEW S \in SUBSET (1..n), n \in S
  PROVE  Max(S) = n
<1>1. \A k \in S : n >= k
  OBVIOUS
<1>2. PICK m : m = Max(S)
  OBVIOUS
<1>3. m \in S /\ \A k \in S : m >= k
  BY <1>1, <1>2 DEF Max
<1>4. m \in Nat /\ n >= m /\ m >= n
  BY <1>1, <1>3
<1> QED BY <1>2, <1>4

LEMMA MaxFacts ==
  ASSUME NEW n \in Nat, NEW S \in SUBSET (1..n), S # {}
  PROVE  Max(S) \in S
<1> DEFINE D == {n - k : k \in S}
<1>1. D \in SUBSET Nat /\ D # {}
  <2>1. \A k \in S : n - k \in Nat
    OBVIOUS
  <2>2. PICK k : k \in S
    OBVIOUS
  <2>3. n - k \in D
    BY <2>2
  <2> QED BY <2>1, <2>3
<1>2. PICK d \in D : \A e \in D : d <= e
  <2> HIDE DEF D
  <2> QED BY <1>1, Least
<1>3. PICK m \in S : d = n - m
  BY <1>2
<1>4. ASSUME NEW k \in S PROVE m >= k
  <2>1. n - m <= n - k
    BY <1>2, <1>3
  <2> QED BY <2>1
<1> QED BY <1>3, <1>4 DEF Max

(***************************************************************************)
(* The lines.                                                              *)
(***************************************************************************)
\* However many lines there are, After is what its equation says.
LEMMA AfterExists ==
  ASSUME NEW lines, NEW last \in Nat
  PROVE  \E f : f = [n \in 0..last |->
                       IF n = 0 THEN DefaultConfig ELSE Line(f[n - 1], lines[n])]
<1> DEFINE Step(f, n) == IF n = 0 THEN DefaultConfig ELSE Line(f[n - 1], lines[n])
           Exists(m) == \E f : f = [n \in 0..m |-> Step(f, n)]
           D == {m \in Nat : ~Exists(m)}
<1>1. CASE D = {}
  <2>1. Exists(last)
    BY <1>1
  <2> QED BY <2>1
<1>2. CASE D # {}
  <2>1. PICK m \in D : \A k \in D : m <= k
    <3> HIDE DEF D
    <3>1. D \in SUBSET Nat
      BY DEF D
    <3> QED BY <1>2, <3>1, Least
  <2>2. m \in Nat /\ ~Exists(m)
    BY <2>1
  <2>3. Exists(m)
    <3>1. CASE m = 0
      <4> DEFINE f == [n \in 0..0 |-> DefaultConfig]
      <4>1. f = [n \in 0..0 |-> Step(f, n)]
        OBVIOUS
      <4> HIDE DEF f
      <4> QED BY <3>1, <4>1
    <3>2. CASE m # 0
      <4>1. m - 1 \in Nat /\ ~(m <= m - 1)
        BY <2>2, <3>2
      <4>. m - 1 \notin D
        <5> HIDE DEF D
        <5> QED BY <2>1, <4>1
      <4>2. PICK g : g = [n \in 0..(m - 1) |-> Step(g, n)]
        BY <4>1
      <4> DEFINE f == [n \in 0..m |-> IF n = m THEN Line(g[m - 1], lines[m]) ELSE g[n]]
      <4>3. \A n \in 0..(m - 1) : f[n] = g[n]
        BY <2>2
      <4>4. ASSUME NEW n \in 0..m PROVE f[n] = Step(f, n)
        <5>1. CASE n = m
          <6>1. f[m - 1] = g[m - 1]
            BY <4>1, <4>3
          <6> QED BY <5>1, <6>1, <3>2, <2>2
        <5>2. CASE n # m
          <6>1. n \in 0..(m - 1)
            BY <5>2, <2>2
          <6>2. f[n] = Step(g, n)
            <7>1. f[n] = g[n]
              BY <6>1, <4>3
            <7> HIDE DEF f
            <7> QED BY <7>1, <6>1, <4>2
          <6>3. n # 0 => n - 1 \in 0..(m - 1)
            BY <6>1, <4>1
          <6>4. n # 0 => f[n - 1] = g[n - 1]
            BY <6>3, <4>3
          <6> HIDE DEF f
          <6> QED BY <6>2, <6>4
        <5> QED BY <5>1, <5>2
      <4>5. f = [n \in 0..m |-> f[n]]
        OBVIOUS
      <4>6. f = [n \in 0..m |-> Step(f, n)]
        <5> HIDE DEF f
        <5> QED BY <4>4, <4>5
      <4> HIDE DEF f
      <4> QED BY <4>6
    <3> QED BY <3>1, <3>2
  <2> QED BY <2>2, <2>3
<1> QED BY <1>1, <1>2

LEMMA AfterFacts ==
  ASSUME NEW lines, Len(lines) \in Nat
  PROVE  /\ After(lines)[0] = DefaultConfig
         /\ \A n \in 1..Len(lines) :
              After(lines)[n] = Line(After(lines)[n - 1], lines[n])
<1> DEFINE f == After(lines)
<1>1. f = [n \in 0..Len(lines) |->
             IF n = 0 THEN DefaultConfig ELSE Line(f[n - 1], lines[n])]
  BY AfterExists DEF After
<1> HIDE DEF f
<1>2. f[0] = DefaultConfig
  BY <1>1
<1>3. ASSUME NEW n \in 1..Len(lines) PROVE f[n] = Line(f[n - 1], lines[n])
  <2>1. n \in 0..Len(lines) /\ n # 0
    OBVIOUS
  <2> QED BY <2>1, <1>1
<1> QED BY <1>2, <1>3 DEF f

\* The lines up to the n-th that give key a value it can have, and what the last
\* of them says.
Good(key, lines, n) ==
  {i \in 1..n : lines[i].key = key /\ Parsed(key, lines[i].value) # Bad}
SaidBy(key, lines, n) ==
  LET good == Good(key, lines, n) IN
  IF good = {} THEN DefaultConfig[key] ELSE Parsed(key, lines[Max(good)].value)

\* One more line is one more word on its key, if it is a good one.
LEMMA OneMoreLine ==
  ASSUME NEW lines, NEW n \in Nat \ {0},
         NEW c, c = [k \in Keys |-> SaidBy(k, lines, n - 1)]
  PROVE  Line(c, lines[n]) = [k \in Keys |-> SaidBy(k, lines, n)]
<1> DEFINE line == lines[n]
           key == line.key
           value == Parsed(key, line.value)
<1>1. ASSUME NEW k \in Keys, k # key \/ value = Bad
      PROVE  SaidBy(k, lines, n) = c[k]
  <2>1. Good(k, lines, n) = Good(k, lines, n - 1)
    BY <1>1 DEF Good
  <2> QED BY <2>1 DEF SaidBy
<1>2. ASSUME key \in Keys, value # Bad
      PROVE  SaidBy(key, lines, n) = value
  <2>1. n \in Good(key, lines, n)
    BY <1>2 DEF Good
  <2>2. Good(key, lines, n) \in SUBSET (1..n)
    BY DEF Good
  <2>3. Max(Good(key, lines, n)) = n
    <3> HIDE DEF key
    <3> QED BY <2>1, <2>2, MaxIsLast
  <2> QED BY <2>1, <2>3 DEF SaidBy
<1>3. Line(c, line) =
        IF key \notin Keys \/ value = Bad THEN c ELSE [c EXCEPT ![key] = value]
  BY DEF Line
<1> HIDE DEF line, key, value
<1>4. CASE key \notin Keys \/ value = Bad
  <2>1. Line(c, line) = c
    BY <1>3, <1>4
  <2>2. \A k \in Keys : SaidBy(k, lines, n) = c[k]
    BY <1>1, <1>4
  <2> QED BY <2>1, <2>2 DEF line
<1>5. CASE key \in Keys /\ value # Bad
  <2>1. Line(c, line) = [c EXCEPT ![key] = value]
    BY <1>3, <1>5
  <2>2. \A k \in Keys : SaidBy(k, lines, n) = IF k = key THEN value ELSE c[k]
    BY <1>1, <1>2, <1>5
  <2> QED BY <2>1, <2>2 DEF line
<1> QED BY <1>4, <1>5

\* After any number of lines, every setting is as the last good line says.
LEMMA AfterIsSaid ==
  ASSUME NEW lines, Len(lines) \in Nat, NEW last \in 0..Len(lines)
  PROVE  After(lines)[last] = [k \in Keys |-> SaidBy(k, lines, last)]
<1> DEFINE SaidAt(n) == After(lines)[n] = [k \in Keys |-> SaidBy(k, lines, n)]
           D == {n \in 0..Len(lines) : ~SaidAt(n)}
<1>1. CASE D = {}
  BY <1>1
<1>2. ASSUME D # {} PROVE FALSE
  <2>1. PICK m \in D : \A k \in D : m <= k
    <3>1. D \in SUBSET Nat
      OBVIOUS
    <3> HIDE DEF D
    <3> QED BY <1>2, <3>1, Least
  <2>2. m \in 0..Len(lines) /\ ~SaidAt(m)
    BY <2>1
  <2>3. CASE m = 0
    <3>1. \A k \in Keys : SaidBy(k, lines, 0) = DefaultConfig[k]
      BY DEF SaidBy, Good
    <3>2. DefaultConfig = [k \in Keys |-> DefaultConfig[k]]
      BY DEF DefaultConfig
    <3>3. DefaultConfig = [k \in Keys |-> SaidBy(k, lines, 0)]
      BY <3>1, <3>2
    <3> QED BY <2>2, <2>3, <3>3, AfterFacts
  <2>4. CASE m # 0
    <3>1. m - 1 \in 0..Len(lines) /\ ~(m <= m - 1) /\ m \in 1..Len(lines) /\ m \in Nat \ {0}
      BY <2>2, <2>4
    <3>2. SaidAt(m - 1)
      <4>1. m - 1 \notin D
        <5> HIDE DEF D
        <5> QED BY <2>1, <3>1
      <4> QED BY <4>1, <3>1
    <3>3. After(lines)[m] = Line(After(lines)[m - 1], lines[m])
      BY <3>1, AfterFacts
    <3>4. PICK c : c = After(lines)[m - 1]
      OBVIOUS
    <3>5. Line(c, lines[m]) = [k \in Keys |-> SaidBy(k, lines, m)]
      BY <3>1, <3>2, <3>4, OneMoreLine
    <3> QED BY <2>2, <3>3, <3>4, <3>5
  <2> QED BY <2>3, <2>4
<1> QED BY <1>1, <1>2

Readable == Texts \union {NoFile, Unreadable}

\* A text is a sequence of lines, and names between commas are a sequence.
LEMMA LinesFacts ==
  ASSUME NEW text \in Readable
  PROVE  /\ Len(Lines(text)) \in Nat /\ DOMAIN Lines(text) = 1..Len(Lines(text))
         /\ \A i \in DOMAIN Lines(text) :
              Lines(text)[i].value.is = "names" => IsSequence(Lines(text)[i].value.names)
<1>1. CASE text \in {NoFile, Unreadable}
  <2>1. Lines(text) = <<>>
    BY <1>1 DEF Lines
  <2> QED BY <2>1
<1>2. CASE text \notin {NoFile, Unreadable}
  <2>1. Lines(text) = text /\ text \in Texts
    BY <1>2 DEF Lines, Readable
  <2>2. IsSequence(text)
    BY <2>1, TextsAreLines
  <2>3. Len(text) \in Nat /\ DOMAIN text = 1..Len(text)
    BY <2>2, LenProperties DEF IsSequence
  <2> QED BY <2>1, <2>3, TextsAreLines
<1> QED BY <1>1, <1>2

\* What is said of a key is the default, or what a good line says.
LEMMA SaidFacts ==
  ASSUME NEW text \in Readable, NEW k
  PROVE  \/ Said(k, text) = DefaultConfig[k]
         \/ \E i \in DOMAIN Lines(text) :
              /\ Said(k, text) = Parsed(k, Lines(text)[i].value)
              /\ Said(k, text) # Bad
<1> DEFINE lines == Lines(text)
           good == {i \in DOMAIN lines : lines[i].key = k /\ Parsed(k, lines[i].value) # Bad}
<1>1. Said(k, text) = IF good = {} THEN DefaultConfig[k] ELSE Parsed(k, lines[Max(good)].value)
  BY DEF Said
<1>2. Len(lines) \in Nat /\ good \in SUBSET (1..Len(lines))
  BY LinesFacts
<1>3. good # {} => Max(good) \in good
  <2> HIDE DEF lines, good
  <2> QED BY <1>2, MaxFacts
<1> QED BY <1>1, <1>3

LEMMA FileIsSaid ==
  ASSUME NEW text \in Readable
  PROVE  After(Lines(text))[Len(Lines(text))] = [k \in Keys |-> Said(k, text)]
<1>1. PICK lines : lines = Lines(text)
  OBVIOUS
<1>2. Len(lines) \in Nat /\ DOMAIN lines = 1..Len(lines)
  BY <1>1, LinesFacts
<1>3. After(lines)[Len(lines)] = [k \in Keys |-> SaidBy(k, lines, Len(lines))]
  <2>1. Len(lines) \in 0..Len(lines)
    BY <1>2
  <2> QED BY <1>2, <2>1, AfterIsSaid
<1>4. ASSUME NEW k \in Keys PROVE SaidBy(k, lines, Len(lines)) = Said(k, text)
  BY <1>1, <1>2 DEF SaidBy, Good, Said
<1> QED BY <1>1, <1>3, <1>4

(***************************************************************************)
(* What is said of the limits, of the dimensions and of the seed.          *)
(***************************************************************************)
LEMMA SaidCounts ==
  ASSUME NEW text \in Readable, NEW k \in Counts
  PROVE  Said(k, text) \in Nat \ {0}
<1>1. DefaultConfig[k] \in Nat \ {0}
  <2>1. k \in Keys /\ k \notin Flags
    BY DEF Keys, Counts, Flags
  <2>2. /\ k = "max_waypoints_per_world" => DefaultConfig[k] = WorldCap
        /\ k = "max_waypoints_per_player" => DefaultConfig[k] = PlayerDefault
        /\ k = "waypoint_mutations_per_minute" => DefaultConfig[k] = RateDefault
    BY <2>1 DEF DefaultConfig
  <2> QED BY <2>2, ConfigNumbers DEF Counts
<1>2. ASSUME NEW value, Parsed(k, value) # Bad PROVE Parsed(k, value) \in Nat \ {0}
  <2>1. Parsed(k, value) = ParseCount(value)
    <3>1. k \notin Flags
      BY DEF Counts, Flags
    <3>2. k \in Names \/ k = "seed" \/ k = "dims" \/ k = "view_distance" => FALSE
      BY DEF Counts, Names
    <3> QED BY <3>1, <3>2 DEF Parsed
  <2> QED BY <1>2, <2>1, ConfigNumbers DEF ParseCount
<1> QED BY <1>1, <1>2, SaidFacts

\* The policy is never without a dimension (parse_dims).
LEMMA SaidDims ==
  ASSUME NEW text \in Readable
  PROVE  IsSequence(Said("dims", text)) /\ Len(Said("dims", text)) \in Nat \ {0}
<1>1. ASSUME NEW x PROVE IsSequence(<<x>>) /\ Len(<<x>>) = 1
  BY DEF IsSequence
<1>2. DefaultConfig["dims"] = <<Overworld>>
  BY DEF DefaultConfig, Counts, Flags, Names, Keys
<1>3. ASSUME NEW value, value.is = "names" => IsSequence(value.names)
      PROVE  IsSequence(Parsed("dims", value)) /\ Len(Parsed("dims", value)) \in Nat \ {0}
  <2>1. Parsed("dims", value) = ParseDims(value)
    BY DEF Parsed, Counts, Flags, Names
  <2>2. CASE value.is # "names" \/ value.names = <<>>
    BY <2>1, <2>2, <1>1 DEF ParseDims
  <2>3. CASE value.is = "names" /\ value.names # <<>>
    <3>1. Parsed("dims", value) = value.names /\ IsSequence(value.names)
      BY <2>1, <2>3, <1>3 DEF ParseDims
    <3>2. Len(value.names) \in Nat \ {0}
      BY <3>1, <2>3, EmptySeq, LenProperties DEF IsSequence
    <3> QED BY <3>1, <3>2
  <2> QED BY <2>2, <2>3
<1>4. CASE Said("dims", text) = DefaultConfig["dims"]
  BY <1>1, <1>2, <1>4
<1>5. CASE Said("dims", text) # DefaultConfig["dims"]
  <2>1. PICK i \in DOMAIN Lines(text) :
          Said("dims", text) = Parsed("dims", Lines(text)[i].value)
    BY <1>5, SaidFacts
  <2>2. PICK value : value = Lines(text)[i].value
    OBVIOUS
  <2>3. value.is = "names" => IsSequence(value.names)
    BY <2>2, LinesFacts
  <2> QED BY <2>1, <2>2, <2>3, <1>3
<1> QED BY <1>4, <1>5

LEMMA FoundSeed ==
  ASSUME NEW save
  PROVE  InspectWorld(save).seed = SeedIn(save)
<1> DEFINE deciding == {f \in Files : Decides(f, save)}
           seeded == {f \in Files : Sound(f, save) /\ save[f].seed # None}
<1>1. deciding \in SUBSET Nat /\ seeded \in SUBSET deciding /\ Files \in SUBSET Nat
  BY DEF Files, SettingsFiles, LevelFiles, Sound, Decides
<1>2. CASE deciding = {}
  BY <1>1, <1>2 DEF InspectWorld, NothingFound, SeedIn
<1>3. CASE deciding # {}
  <2>1. PICK file : file = Min(deciding)
    OBVIOUS
  <2>2. file \in deciding /\ \A f \in deciding : file <= f
    <3> HIDE DEF deciding
    <3> QED BY <2>1, <1>1, <1>3, MinFacts
  <2>3. CASE save[file] = Damaged
    <3>1. InspectWorld(save).seed = None
      BY <2>1, <2>3 DEF InspectWorld, NothingFound
    <3>2. file \notin seeded
      BY <2>3 DEF Sound
    <3>3. seeded # {} => \E f \in Files : f < Min(seeded) /\ save[f] = Damaged
      <4> SUFFICES ASSUME seeded # {} PROVE file < Min(seeded) /\ file \in Files
        BY <2>3
      <4>1. PICK first : first = Min(seeded)
        OBVIOUS
      <4>2. first \in seeded
        <5> HIDE DEF seeded, deciding
        <5>1. seeded \in SUBSET Nat
          BY <1>1
        <5> QED BY <4>1, <5>1, MinFacts
      <4>3. first \in Nat /\ file \in Nat /\ file <= first /\ file # first
        <5> HIDE DEF seeded, deciding
        <5> QED BY <4>2, <3>2, <2>2, <1>1
      <4> QED BY <4>1, <4>3, <2>2
    <3> QED BY <3>1, <3>3 DEF SeedIn
  <2>4. CASE save[file] # Damaged
    <3>1. file \in seeded
      BY <2>2, <2>4 DEF Decides, Sound
    <3>2. Min(seeded) = file
      <4> HIDE DEF seeded, deciding
      <4> QED BY <1>1, <2>1, <3>1, MinOfPart
    <3>3. InspectWorld(save).seed = save[file].seed
      BY <2>1, <2>4, <1>3 DEF InspectWorld
    <3>4. ~ \E f \in Files : f < file /\ save[f] = Damaged
      <4> SUFFICES ASSUME NEW f \in Files, f < file, save[f] = Damaged PROVE FALSE
        OBVIOUS
      <4>1. f \in deciding
        BY DEF Decides
      <4>2. f \in Nat /\ file \in Nat /\ file <= f
        <5> HIDE DEF deciding
        <5> QED BY <4>1, <2>2, <1>1
      <4> QED BY <4>2
    <3> QED BY <3>1, <3>2, <3>3, <3>4 DEF SeedIn
  <2> QED BY <2>3, <2>4
<1> QED BY <1>2, <1>3

(***************************************************************************)
(* The configuration that comes of a text and a save.                      *)
(***************************************************************************)
\* Whatever numbers are clamped, the bounds hold, and clamping a number that is not
\* below the range only lowers it.
LEMMA ClampFacts ==
  ASSUME NEW n \in Nat \ {0}, NEW high \in Nat \ {0}
  PROVE  /\ Clamp(n, 1, high) \in 1..high
         /\ Clamp(n, 1, high) <= n
         /\ Clamp(n, 1, high) \in {n, high}
BY DEF Clamp

\* normalize: the limits agree, none is raised, and nothing else is touched.
LEMMA NormalizeFacts ==
  ASSUME NEW c, c = [k \in Keys |-> c[k]], \A k \in Counts : c[k] \in Nat \ {0}
  PROVE  LET d == Normalize(c) IN
         /\ d = [k \in Keys |-> d[k]]
         /\ \A k \in Keys \ Counts : d[k] = c[k]
         /\ \A k \in Counts : d[k] \in Nat /\ d[k] <= c[k]
         /\ d["max_waypoints_per_world"] \in 1..WorldCap
         /\ d["max_waypoints_per_world"] \in {WorldCap, c["max_waypoints_per_world"]}
         /\ d["max_waypoints_per_player"] \in 1..d["max_waypoints_per_world"]
         /\ d["waypoint_mutations_per_minute"] \in 1..RateCap
<1> DEFINE world == Clamp(c["max_waypoints_per_world"], 1, WorldCap)
           player == Clamp(c["max_waypoints_per_player"], 1, world)
           rate == Clamp(c["waypoint_mutations_per_minute"], 1, RateCap)
<1>1. Counts \subseteq Keys
  BY DEF Keys
<1>2. /\ c["max_waypoints_per_world"] \in Nat \ {0}
      /\ c["max_waypoints_per_player"] \in Nat \ {0}
      /\ c["waypoint_mutations_per_minute"] \in Nat \ {0}
  BY DEF Counts
<1>3. PICK d : d = Normalize(c)
  OBVIOUS
<1>4. \A k \in Keys :
        d[k] = CASE k = "max_waypoints_per_world" -> world
                 [] k = "max_waypoints_per_player" -> player
                 [] k = "waypoint_mutations_per_minute" -> rate
                 [] OTHER -> c[k]
  BY <1>1, <1>3 DEF Normalize
<1>5. d = [k \in Keys |-> d[k]]
  BY <1>3 DEF Normalize
<1>6. world \in 1..WorldCap /\ world <= c["max_waypoints_per_world"]
      /\ world \in {WorldCap, c["max_waypoints_per_world"]}
  BY <1>2, ClampFacts, ConfigNumbers
<1>7. world \in Nat \ {0}
  BY <1>6
<1>8. player \in 1..world /\ player <= c["max_waypoints_per_player"]
  <2> HIDE DEF world
  <2> QED BY <1>2, <1>7, ClampFacts
<1>9. rate \in 1..RateCap /\ rate <= c["waypoint_mutations_per_minute"]
  BY <1>2, ClampFacts, ConfigNumbers
<1> HIDE DEF world, player, rate
<1>10. /\ d["max_waypoints_per_world"] = world
       /\ d["max_waypoints_per_player"] = player
       /\ d["waypoint_mutations_per_minute"] = rate
  BY <1>1, <1>4 DEF Counts
<1>11. \A k \in Keys \ Counts : d[k] = c[k]
  BY <1>4 DEF Counts
<1>12. \A k \in Counts : d[k] \in Nat /\ d[k] <= c[k]
  <2>1. world \in Nat /\ player \in Nat /\ rate \in Nat
    BY <1>6, <1>7, <1>8, <1>9
  <2> QED BY <2>1, <1>6, <1>8, <1>9, <1>10 DEF Counts
<1> QED BY <1>3, <1>5, <1>6, <1>8, <1>9, <1>10, <1>11, <1>12

\* The limits of a configuration.
LimitsOf(c) ==
  /\ 1 <= c["max_waypoints_per_player"]
  /\ c["max_waypoints_per_player"] <= c["max_waypoints_per_world"]
  /\ c["max_waypoints_per_world"] <= WorldCap
  /\ c["waypoint_mutations_per_minute"] \in 1..RateCap

\* What on_load and ReloadHandler put in force.
LEMMA ResolveFacts ==
  ASSUME NEW text \in Readable, NEW save
  PROVE  LET c == Resolve(text, save) IN
         /\ \A k \in Keys \ (Counts \union {"seed", "worldgen"}) : c[k] = Said(k, text)
         /\ c["seed"] = IF Said("seed", text) # None THEN Said("seed", text) ELSE SeedIn(save)
         /\ Said("worldgen", text) # None => c["worldgen"] = Said("worldgen", text)
         /\ \A k \in Counts : c[k] <= Said(k, text)
         /\ c["max_waypoints_per_world"] \in {WorldCap, Said("max_waypoints_per_world", text)}
         /\ LimitsOf(c)
<1>1. PICK a : a = [k \in Keys |-> Said(k, text)]
  OBVIOUS
<1>2. \A k \in Counts : a[k] \in Nat \ {0}
  BY <1>1, SaidCounts DEF Keys
<1>3. PICK b : b = Normalize(a)
  OBVIOUS
<1>4. Parse(Lines(text)) = b
  BY <1>1, <1>3, FileIsSaid DEF Parse
<1>5. /\ b = [k \in Keys |-> b[k]]
      /\ \A k \in Keys \ Counts : b[k] = a[k]
      /\ \A k \in Counts : b[k] \in Nat /\ b[k] <= a[k]
      /\ b["max_waypoints_per_world"] \in 1..WorldCap
      /\ b["max_waypoints_per_world"] \in {WorldCap, a["max_waypoints_per_world"]}
      /\ b["max_waypoints_per_player"] \in 1..b["max_waypoints_per_world"]
      /\ b["waypoint_mutations_per_minute"] \in 1..RateCap
  <2>1. a = [k \in Keys |-> a[k]]
    BY <1>1
  <2> QED BY <2>1, <1>2, <1>3, NormalizeFacts
<1>6. PICK found : found = InspectWorld(save)
  OBVIOUS
<1>7. PICK c : c = Resolve(text, save)
  OBVIOUS
<1>8. c = [b EXCEPT !["seed"] = IF @ = None THEN found.seed ELSE @,
                    !["worldgen"] = IF @ = None THEN found.version ELSE @]
  BY <1>4, <1>6, <1>7 DEF Resolve, Overlay
<1>9. {"seed", "worldgen"} \subseteq Keys \ Counts /\ Counts \subseteq Keys
  BY DEF Keys, Counts, Names
<1>10. /\ \A k \in Keys \ {"seed", "worldgen"} : c[k] = b[k]
       /\ c["seed"] = IF b["seed"] = None THEN found.seed ELSE b["seed"]
       /\ c["worldgen"] = IF b["worldgen"] = None THEN found.version ELSE b["worldgen"]
  BY <1>5, <1>8, <1>9
<1>11. \A k \in Keys : a[k] = Said(k, text)
  BY <1>1
<1>12. \A k \in Counts : c[k] = b[k] /\ a[k] = Said(k, text)
  BY <1>9, <1>10, <1>11
<1>13. c["seed"] = IF Said("seed", text) # None THEN Said("seed", text) ELSE SeedIn(save)
  <2>1. b["seed"] = Said("seed", text)
    BY <1>5, <1>9, <1>11
  <2> QED BY <2>1, <1>6, <1>10, FoundSeed
<1>14. Said("worldgen", text) # None => c["worldgen"] = Said("worldgen", text)
  BY <1>5, <1>9, <1>10, <1>11
<1>15. LimitsOf(c)
  <2>1. \A k \in {"max_waypoints_per_world", "max_waypoints_per_player",
                  "waypoint_mutations_per_minute"} : c[k] = b[k]
    BY <1>12 DEF Counts
  <2> QED BY <2>1, <1>5, ConfigNumbers DEF LimitsOf
<1>16. /\ \A k \in Keys \ (Counts \union {"seed", "worldgen"}) : c[k] = Said(k, text)
       /\ \A k \in Counts : c[k] <= Said(k, text)
  BY <1>5, <1>10, <1>11, <1>12
<1>17. c["max_waypoints_per_world"] \in {WorldCap, Said("max_waypoints_per_world", text)}
  BY <1>5, <1>12 DEF Counts
<1> QED BY <1>7, <1>13, <1>14, <1>15, <1>16, <1>17

(***************************************************************************)
(* The policies.                                                           *)
(***************************************************************************)
\* What PoliciesKeepTheWord asks of a policy.
PolicyIsWhole(policy) ==
  /\ Len(policy.dims) \in 1..MaxDims
  /\ \A i \in DOMAIN policy.dims :
       policy.dims[i].has_seed = policy.granted /\ (~policy.granted => policy.dims[i].seed = 0)

\* A policy has a dimension, no more than fit, and one word on the seed in all of
\* them; where the seed is not shared, that word is no (dims_for_policy).
LEMMA PolicyFacts ==
  ASSUME NEW c, IsSequence(c["dims"]), Len(c["dims"]) \in Nat \ {0}
  PROVE  /\ PolicyIsWhole(BuildPolicy(c))
         /\ c["share_seed"] = FALSE => ~BuildPolicy(c).granted
<1> DEFINE granted == GrantsSeed(c)
           seed == AdvertisedSeed(c)
           n == Len(c["dims"])
           Dim(i) == [id |-> c["dims"][i], predictable |-> c["dims"][i] \in Vanilla,
                      has_seed |-> granted, seed |-> seed]
           dims == [i \in 1..n |-> Dim(i)]
           m == Min({n, MaxDims})
<1>1. DimsForPolicy(c) = dims
  <2>1. DOMAIN c["dims"] = 1..n
    BY LenProperties DEF IsSequence
  <2> QED BY <2>1 DEF DimsForPolicy
<1>2. dims \in Seq({Dim(i) : i \in 1..n}) /\ Len(dims) = n
  OBVIOUS
<1>3. m \in 1..MaxDims /\ m <= n
  <2>1. {n, MaxDims} \in SUBSET Nat /\ n \in Nat \ {0} /\ MaxDims \in Nat \ {0}
    BY ConfigNumbers
  <2>2. m \in {n, MaxDims} /\ m <= n /\ m <= MaxDims
    <3> HIDE DEF n
    <3> QED BY <2>1, MinFacts
  <2> HIDE DEF n, m
  <2> QED BY <2>1, <2>2
<1>4. BuildPolicy(c).dims = SubSeq(dims, 1, m) /\ BuildPolicy(c).granted = granted
  <2>1. Cut(dims) = SubSeq(dims, 1, m)
    <3> HIDE DEF Dim
    <3> QED BY <1>2 DEF Cut
  <2> QED BY <1>1, <2>1 DEF BuildPolicy
<1>5. /\ Len(SubSeq(dims, 1, m)) = m
      /\ DOMAIN SubSeq(dims, 1, m) = 1..m
      /\ \A i \in 1..m : SubSeq(dims, 1, m)[i] = Dim(i)
  <2>1. \A i \in 1..n : dims[i] = Dim(i)
    OBVIOUS
  <2>2. PICK d : d = dims
    OBVIOUS
  <2>3. PICK k : k = m
    OBVIOUS
  <2>4. PICK S : S = {Dim(i) : i \in 1..n}
    OBVIOUS
  <2>5. d \in Seq(S) /\ Len(d) = n /\ k \in Nat \ {0} /\ k <= n
    BY <1>2, <1>3, <2>2, <2>3, <2>4
  <2> HIDE DEF n, m, dims, Dim
  <2>6. /\ Len(SubSeq(d, 1, k)) = k
        /\ DOMAIN SubSeq(d, 1, k) = 1..k
        /\ \A i \in 1..k : SubSeq(d, 1, k)[i] = d[i]
    BY <2>5
  <2>7. n \in Nat
    BY <2>5, LenProperties
  <2>8. \A i \in 1..k : d[i] = Dim(i)
    BY <2>1, <2>2, <2>5, <2>7
  <2> QED BY <2>2, <2>3, <2>6, <2>8
<1>6. ~granted => seed = 0
  BY DEF AdvertisedSeed
<1>7. c["share_seed"] = FALSE => ~granted
  BY DEF GrantsSeed
<1>8. \A i : Dim(i).has_seed = granted /\ Dim(i).seed = seed
  <2> HIDE DEF granted, seed
  <2> QED OBVIOUS
<1> HIDE DEF granted, seed, n, m, dims, Dim
<1>9. PolicyIsWhole(BuildPolicy(c))
  BY <1>3, <1>4, <1>5, <1>6, <1>8 DEF PolicyIsWhole
<1> QED BY <1>4, <1>7, <1>9

(***************************************************************************)
(* The invariant.                                                          *)
(***************************************************************************)
\* The configuration is the default, or what the last reading makes of text and
\* save; while the plugin is loaded it is the latter.
ConfigInv ==
  /\ read.text \in Readable
  /\ config = DefaultConfig \/ config = Resolve(read.text, read.save)
  /\ loaded => config = Resolve(read.text, read.save)

PoliciesInv == DOMAIN policies = Players /\ PoliciesKeepTheWord

LEMMA InitConfig == Init => ConfigInv /\ PoliciesInv
BY DEF Init, ConfigInv, PoliciesInv, PoliciesKeepTheWord, Nothing, Readable

LEMMA ConfigStep == ConfigInv /\ [Next]_vars => ConfigInv'
<1> SUFFICES ASSUME ConfigInv, [Next]_vars PROVE ConfigInv'
  OBVIOUS
<1>1. ASSUME NEW text \in Texts \union {NoFile, Unreadable}, NEW save \in Saves,
             OnLoad(text, save) \/ Reload(text, save)
      PROVE  ConfigInv'
  BY <1>1 DEF OnLoad, Reload, ConfigInv, Readable
<1>2. CASE OnUnload
  BY <1>2 DEF OnUnload, ConfigInv
<1>3. CASE Stop
  BY <1>3 DEF Stop, ConfigInv, Nothing, Readable
<1>4. CASE UNCHANGED <<loaded, config, read>>
  BY <1>4 DEF ConfigInv
<1> QED BY <1>1, <1>2, <1>3, <1>4 DEF Next, Hello, Leave, vars

LEMMA PoliciesStep == ConfigInv /\ PoliciesInv /\ [Next]_vars => PoliciesInv'
<1> SUFFICES ASSUME ConfigInv, PoliciesInv, [Next]_vars PROVE PoliciesInv'
  OBVIOUS
<1> DEFINE Kept(p) ==
             policies[p] # None =>
               PolicyIsWhole(policies[p]) /\ (p \in withheld => ~policies[p].granted)
<1>1. \A p \in Players : Kept(p)
  BY DEF PoliciesInv, PoliciesKeepTheWord, PolicyIsWhole
<1>2. ASSUME DOMAIN policies' = Players, \A p \in Players : Kept(p)' PROVE PoliciesInv'
  BY <1>2 DEF PoliciesInv, PoliciesKeepTheWord, PolicyIsWhole
<1>3. CASE UNCHANGED <<policies, withheld>>
  BY <1>3 DEF PoliciesInv, PoliciesKeepTheWord
<1>4. CASE Stop
  <2>1. \A p \in Players : policies'[p] = None
    BY <1>4 DEF Stop
  <2>2. DOMAIN policies' = Players
    BY <1>4 DEF Stop
  <2> QED BY <2>1, <2>2, <1>2
<1>5. ASSUME NEW p \in Players, Hello(p) PROVE PoliciesInv'
  <2>1. /\ DOMAIN policies' = Players
        /\ policies'[p] = BuildPolicy(config)
        /\ \A q \in Players \ {p} : policies'[q] = policies[q]
    BY <1>5 DEF Hello, PoliciesInv
  <2>2. /\ \A q \in Players \ {p} : q \in withheld' <=> q \in withheld
        /\ p \in withheld' => Withholds(read.text)
    BY <1>5 DEF Hello
  <2>3. read.text \in Readable /\ config = Resolve(read.text, read.save)
    BY <1>5 DEF Hello, ConfigInv
  <2>4. /\ config["dims"] = Said("dims", read.text)
        /\ config["share_seed"] = Said("share_seed", read.text)
    <3>1. {"dims", "share_seed"} \subseteq Keys \ (Counts \union {"seed", "worldgen"})
      BY DEF Keys, Counts, Flags
    <3> QED BY <2>3, <3>1, ResolveFacts
  <2>5. /\ PolicyIsWhole(BuildPolicy(config))
        /\ config["share_seed"] = FALSE => ~BuildPolicy(config).granted
    BY <2>3, <2>4, SaidDims, PolicyFacts
  <2>6. Kept(p)'
    BY <2>1, <2>2, <2>4, <2>5 DEF Withholds
  <2>7. \A q \in Players \ {p} : Kept(q)'
    BY <1>1, <2>1, <2>2
  <2> QED BY <1>2, <2>1, <2>6, <2>7
<1>6. ASSUME NEW p \in Players, Leave(p) PROVE PoliciesInv'
  <2>1. /\ DOMAIN policies' = Players
        /\ policies'[p] = None
        /\ \A q \in Players \ {p} : policies'[q] = policies[q]
        /\ withheld' \subseteq withheld
    BY <1>6 DEF Leave, PoliciesInv
  <2>2. Kept(p)' /\ \A q \in Players \ {p} : Kept(q)'
    BY <1>1, <2>1
  <2> QED BY <1>2, <2>1, <2>2
<1>7. QED
  BY <1>3, <1>4, <1>5, <1>6 DEF Next, OnLoad, Reload, OnUnload, vars

\* What is in force is what the last reading of file and save makes of them, and
\* every policy a client holds is whole and withholds what its file withheld.
THEOREM ConfigInvariant == Spec => [](ConfigInv /\ PoliciesInv)
BY InitConfig, ConfigStep, PoliciesStep, PTL DEF Spec

\* However file and save change between the readings, each setting is as the last
\* line on it in the last reading says if that is sound, the seed is the file's or else the save's,
\* and no limit is above what was written (parse, load, inspect_world, on_load).
THEOREM ConfigSettingsAreAsRead == Spec => []SettingsAreAsRead
<1>1. ConfigInv => SettingsAreAsRead
  <2> SUFFICES ASSUME ConfigInv, loaded PROVE SettingsAreAsRead
    BY DEF SettingsAreAsRead
  <2>1. read.text \in Readable /\ config = Resolve(read.text, read.save)
    BY DEF ConfigInv
  <2>2. \A k : Said(k, read.text) \in May(k, read.text)
    BY DEF May
  <2>3. /\ \A k \in Keys \ (Counts \union {"seed", "worldgen"}) :
             config[k] \in May(k, read.text)
        /\ \A k \in Counts : \E n \in May(k, read.text) : config[k] <= n
    BY <2>1, <2>2, ResolveFacts
  <2>4. \E s \in May("seed", read.text) :
          config["seed"] = IF s # None THEN s ELSE SeedIn(read.save)
    BY <2>1, <2>2, ResolveFacts
  <2>5. /\ Said("worldgen", read.text) # None => config["worldgen"] = Said("worldgen", read.text)
        /\ config["max_waypoints_per_world"]
             \in {WorldCap} \union May("max_waypoints_per_world", read.text)
    BY <2>1, <2>2, ResolveFacts
  <2> QED BY <2>3, <2>4, <2>5 DEF SettingsAreAsRead
<1> QED BY <1>1, ConfigInvariant, PTL

\* Whatever limits are written, in whatever order, those in force agree: room for a
\* point of each player's, no more for one than for all (normalize).
THEOREM ConfigLimitsCoherent == Spec => []LimitsCoherent
<1>1. ConfigInv => LimitsCoherent
  <2> SUFFICES ASSUME ConfigInv PROVE LimitsOf(config)
    BY DEF LimitsOf, LimitsCoherent
  <2>1. CASE config = DefaultConfig
    <3>1. /\ config["max_waypoints_per_world"] = WorldCap
          /\ config["max_waypoints_per_player"] = PlayerDefault
          /\ config["waypoint_mutations_per_minute"] = RateDefault
      BY <2>1 DEF DefaultConfig, Keys, Counts, Flags
    <3> QED BY <3>1, ConfigNumbers DEF LimitsOf
  <2>2. CASE config = Resolve(read.text, read.save)
    BY <2>2, ResolveFacts DEF ConfigInv
  <2> QED BY <2>1, <2>2 DEF ConfigInv
<1> QED BY <1>1, ConfigInvariant, PTL

\* No client holds a policy with the seed that was made of a file with share_seed =
\* false, nor one without a dimension (build_policy, grants_seed).
THEOREM ConfigPoliciesKeepTheWord == Spec => []PoliciesKeepTheWord
<1>1. PoliciesInv => PoliciesKeepTheWord
  BY DEF PoliciesInv
<1> QED BY <1>1, ConfigInvariant, PTL
=============================================================================
