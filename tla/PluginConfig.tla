----------------------------- MODULE PluginConfig -----------------------------
(***************************************************************************)
(* What the plugin is told and what it makes of it: config.rs, world.rs,   *)
(* on_load and on_unload of lib.rs, ReloadHandler, and the policy of       *)
(* handshake.rs.                                                           *)
(*                                                                         *)
(* At a load, and at every /cfm reload, the operator's file is parsed line *)
(* by line, the world save is searched for what the file leaves open, and  *)
(* the result replaces the configuration; a client that says HELLO is told *)
(* the policy of that moment and keeps it.  Warnings and the texts of      *)
(* commands are left out, and so are the budgets, which never change.      *)
(***************************************************************************)
EXTENDS Integers, Sequences, FiniteSetsExt

CONSTANTS
  Players,
  Texts,         \* bound: the files the operator may have written
  Saves,         \* bound: the world saves the plugin may find
  Vanilla,       \* VANILLA_DIMS, and
  Overworld,     \* the one of them that is the default
  ServerVersion, \* parse_mc_version of the running server, or None
  Fallback,      \* FALLBACK_MC_VERSION
  SeedHalf,      \* 2^63: a seed is in -SeedHalf..SeedHalf-1
  CountMax,      \* 2^32 - 1, the last u32
  SeedSpace,     \* 2^48: as many namespaces are derived from seeds
  WorldCap,      \* 512, the most points a world may keep
  PlayerDefault, \* 64, what a player may publish when nothing is said
  RateDefault,   \* 30 changes a minute, likewise
  RateCap,       \* 6000
  ViewMin, ViewMax, \* 2 and 64
  MaxDims,       \* MAX_DIM_ENTRIES
  NoFile, Unreadable, \* in place of a text
  Absent, Damaged,    \* in place of the contents of a file of the save
  Bad,           \* of a value that does not parse
  None           \* an option without a value

ASSUME ConfigNumbers ==
  /\ SeedHalf \in Nat \ {0} /\ SeedSpace \in Nat \ {0} /\ CountMax \in Nat \ {0}
  /\ WorldCap \in Nat \ {0} /\ RateCap \in Nat \ {0} /\ MaxDims \in Nat \ {0}
  /\ PlayerDefault \in 1..WorldCap /\ RateDefault \in 1..RateCap
ASSUME ConfigDims == Overworld \in Vanilla

IsSequence(s) == s \in Seq({s[i] : i \in DOMAIN s})
ASSUME TextsAreLines ==
  \A text \in Texts :
    /\ IsSequence(text)
    /\ \A i \in DOMAIN text :
         text[i].value.is = "names" => IsSequence(text[i].value.names)

VARIABLES
  loaded,   \* on_load has run, on_unload has not
  config,   \* CONFIG
  policies, \* per player: the policy its client was sent, or None
  read,     \* history: the text and the save the configuration was made of
  withheld \* history: the players whose policy was made of a text that withholds the seed

vars == <<loaded, config, policies, read, withheld>>

(***************************************************************************)
(* parse.  A text is a sequence of lines; comments, blank lines and table  *)
(* headers are not lines of it.  A value is what is left between quotes:   *)
(* an integer, a word for yes or no, or names between commas.              *)
(***************************************************************************)
Flags == {"share_seed", "share_corrections", "share_waypoints",
          "allow_non_operator_waypoint_management", "allow_entity_radar"}
Counts == {"max_waypoints_per_world", "max_waypoints_per_player",
           "waypoint_mutations_per_minute"}
Names == {"worldgen", "world_id"}
Keys == Flags \union Counts \union Names \union {"seed", "dims", "view_distance"}

DefaultConfig ==
  [k \in Keys |->
     CASE k \in Flags -> TRUE
       [] k = "max_waypoints_per_world" -> WorldCap
       [] k = "max_waypoints_per_player" -> PlayerDefault
       [] k = "waypoint_mutations_per_minute" -> RateDefault
       [] k = "dims" -> <<Overworld>>
       [] OTHER -> None]

\* parse_bool: 1 and 0 are words too.
ParseBool(value) ==
  CASE value.is = "word" -> value.yes
    [] value.is = "integer" /\ value.n \in {0, 1} -> value.n = 1
    [] OTHER -> Bad

\* parse_u32: neither zero nor more than 32 bits.
ParseCount(value) ==
  IF value.is = "integer" /\ value.n \in 1..CountMax THEN value.n ELSE Bad

\* parse_seed: signed, or the bits of a signed one written as an unsigned one.
ParseSeed(value) ==
  CASE value.is # "integer" -> Bad
    [] value.n \in -SeedHalf..(SeedHalf - 1) -> value.n
    [] value.n \in SeedHalf..(2 * SeedHalf - 1) -> value.n - 2 * SeedHalf
    [] OTHER -> Bad

ParseView(value) ==
  IF value.is = "integer" /\ value.n \in ViewMin..ViewMax THEN value.n ELSE Bad

\* non_empty, parse_dims: a blank value is an override taken back.
ParseName(value) == IF value.is = "names" /\ value.names = <<>> THEN None ELSE value
ParseDims(value) ==
  IF value.is # "names" THEN <<value>>
  ELSE IF value.names = <<>> THEN <<Overworld>>
  ELSE value.names

Parsed(key, value) ==
  CASE key \in Flags -> ParseBool(value)
    [] key \in Counts -> ParseCount(value)
    [] key \in Names -> ParseName(value)
    [] key = "seed" -> ParseSeed(value)
    [] key = "dims" -> ParseDims(value)
    [] key = "view_distance" -> ParseView(value)

\* One line; an unknown key, or a line that is no pair, is only warned about.
\* Seeded fault: a key that has been said keeps its first value.
LineOnce(c, line) ==
  IF line.key \notin Keys \/ c[line.key] # DefaultConfig[line.key] THEN c
  ELSE LET value == Parsed(line.key, line.value) IN
       IF value = Bad THEN c ELSE [c EXCEPT ![line.key] = value]
Line(c, line) ==
  IF line.key \notin Keys THEN c
  ELSE LET value == Parsed(line.key, line.value) IN
       IF value = Bad THEN c ELSE [c EXCEPT ![line.key] = value]

Clamp(n, low, high) == IF n < low THEN low ELSE IF n > high THEN high ELSE n

\* normalize.  Seeded fault: the player's share is cut before the world's.
NormalizeByWritten(c) ==
  [c EXCEPT !["max_waypoints_per_player"] = Clamp(@, 1, c["max_waypoints_per_world"]),
            !["max_waypoints_per_world"] = Clamp(@, 1, WorldCap),
            !["waypoint_mutations_per_minute"] = Clamp(@, 1, RateCap)]
Normalize(c) ==
  LET world == Clamp(c["max_waypoints_per_world"], 1, WorldCap) IN
  [c EXCEPT !["max_waypoints_per_world"] = world,
            !["max_waypoints_per_player"] = Clamp(@, 1, world),
            !["waypoint_mutations_per_minute"] = Clamp(@, 1, RateCap)]

\* The configuration as it stands after each of the lines.
After(lines) ==
  LET after[n \in 0..Len(lines)] ==
        IF n = 0 THEN DefaultConfig ELSE Line(after[n - 1], lines[n])
  IN after

Parse(lines) == Normalize(After(lines)[Len(lines)])

\* load: no file is read as the template that is put there, in which everything is
\* a comment, and a file that cannot be read as an empty one.
Lines(text) == IF text \in {NoFile, Unreadable} THEN <<>> ELSE text

(***************************************************************************)
(* inspect_world.  A file of the save is absent, damaged (it cannot be     *)
(* opened, unpacked or decoded) or holds a seed, the name of a version and *)
(* its number, or lacks any of them.  The candidates, in the order in      *)
(* which they are tried:                                                   *)
(***************************************************************************)
SettingsFiles == 1..3 \* world_gen_settings.dat, in the world, in the base, in the dimension
LevelFiles == 4..7    \* level.dat, in the world, in the base, then level.dat_old likewise
Files == SettingsFiles \union LevelFiles

Sound(f, save) == save[f] \notin {Absent, Damaged}

\* try_extract_version: the first level file that can be read and names or numbers
\* a version; a number alone leaves it without a name.
TryExtractVersion(save) ==
  LET telling == {f \in LevelFiles :
                    Sound(f, save) /\ (save[f].version # None \/ save[f].numbered)} IN
  IF telling = {} THEN None ELSE save[Min(telling)].version

\* What ends the search: a seed, or damage, which is an error of the whole.
Decides(f, save) == save[f] = Damaged \/ (save[f] # Absent /\ save[f].seed # None)

NothingFound == [seed |-> None, version |-> None]

InspectWorld(save) ==
  LET deciding == {f \in Files : Decides(f, save)}
      file == Min(deciding) IN
  IF deciding = {} \/ save[file] = Damaged THEN NothingFound
  ELSE [seed |-> save[file].seed,
        version |-> IF file \in SettingsFiles THEN TryExtractVersion(save)
                    ELSE save[file].version]

(***************************************************************************)
(* on_load and ReloadHandler: what the file leaves open comes from the     *)
(* world save.                                                             *)
(***************************************************************************)
Overlay(c, found) ==
  [c EXCEPT !["seed"] = IF @ = None THEN found.seed ELSE @,
            !["worldgen"] = IF @ = None THEN found.version ELSE @]

Resolve(text, save) == Overlay(Parse(Lines(text)), InspectWorld(save))

(***************************************************************************)
(* build_policy.                                                           *)
(***************************************************************************)
\* grants_seed.  Seeded fault: only the seed is looked at.
GrantsIfKnown(c) == c["seed"] # None
GrantsSeed(c) == c["share_seed"] /\ c["seed"] # None

AdvertisedSeed(c) == IF GrantsSeed(c) THEN c["seed"] ELSE 0

\* world_id: without a seed, the namespace of the seeds that end in zeros.
WorldId(c) ==
  IF c["world_id"] # None THEN c["world_id"]
  ELSE IF c["seed"] = None THEN 0
  ELSE c["seed"] % SeedSpace

ResolveWorldgen(c) ==
  IF c["worldgen"] # None THEN c["worldgen"]
  ELSE IF ServerVersion # None THEN ServerVersion
  ELSE Fallback

DimsForPolicy(c) ==
  [i \in DOMAIN c["dims"] |->
     [id |-> c["dims"][i], predictable |-> c["dims"][i] \in Vanilla,
      has_seed |-> GrantsSeed(c), seed |-> AdvertisedSeed(c)]]

Cut(dims) == SubSeq(dims, 1, Min({Len(dims), MaxDims}))

BuildPolicy(c) ==
  [granted |-> GrantsSeed(c), world_id |-> WorldId(c), worldgen |-> ResolveWorldgen(c),
   dims |-> Cut(DimsForPolicy(c))]

(***************************************************************************)
(* The steps.                                                              *)
(***************************************************************************)
Nothing == [text |-> NoFile, save |-> [f \in Files |-> Absent]]

Init ==
  /\ loaded = FALSE
  /\ config = DefaultConfig
  /\ policies = [p \in Players |-> None]
  /\ read = Nothing
  /\ withheld = {}

\* on_load.
OnLoad(text, save) ==
  /\ ~loaded
  /\ loaded' = TRUE
  /\ config' = Resolve(text, save)
  /\ read' = [text |-> text, save |-> save]
  /\ UNCHANGED <<policies, withheld>>

\* ReloadHandler; whoever has a policy keeps it.
Reload(text, save) ==
  /\ loaded
  /\ config' = Resolve(text, save)
  /\ read' = [text |-> text, save |-> save]
  /\ UNCHANGED <<loaded, policies, withheld>>

\* on_unload: the configuration and the clients' policies stay.
OnUnload ==
  /\ loaded
  /\ loaded' = FALSE
  /\ UNCHANGED <<config, policies, read, withheld>>

\* The server stops: clients and statics are gone.
Stop ==
  /\ loaded' = FALSE
  /\ config' = DefaultConfig
  /\ policies' = [p \in Players |-> None]
  /\ read' = Nothing
  /\ withheld' = {}

\* The last line that gives a key a value it can have is what is said of it.
Said(key, text) ==
  LET lines == Lines(text)
      good == {i \in DOMAIN lines : lines[i].key = key /\ Parsed(key, lines[i].value) # Bad} IN
  IF good = {} THEN DefaultConfig[key] ELSE Parsed(key, lines[Max(good)].value)

Withholds(text) == Said("share_seed", text) = FALSE

\* handle_payload, for a HELLO: a policy takes the place of an earlier one.
Hello(p) ==
  /\ loaded
  /\ policies' = [policies EXCEPT ![p] = BuildPolicy(config)]
  /\ withheld' = IF Withholds(read.text) THEN withheld \union {p} ELSE withheld \ {p}
  /\ UNCHANGED <<loaded, config, read>>

Leave(p) ==
  /\ policies[p] # None
  /\ policies' = [policies EXCEPT ![p] = None]
  /\ withheld' = withheld \ {p}
  /\ UNCHANGED <<loaded, config, read>>

Next ==
  \/ \E text \in Texts \union {NoFile, Unreadable}, save \in Saves :
       OnLoad(text, save) \/ Reload(text, save)
  \/ OnUnload \/ Stop
  \/ \E p \in Players : Hello(p) \/ Leave(p)

Spec == Init /\ [][Next]_vars

(***************************************************************************)
(* Properties.                                                             *)
(***************************************************************************)
\* The seed of a save is that of the first file that has one, unless a damaged file
\* comes before it.
SeedIn(save) ==
  LET seeded == {f \in Files : Sound(f, save) /\ save[f].seed # None} IN
  IF seeded = {} \/ \E f \in Files : f < Min(seeded) /\ save[f] = Damaged THEN None
  ELSE save[Min(seeded)].seed

\* The last line on a key is a bad one.
EndsBadly(key, text) ==
  LET lines == Lines(text)
      about == {i \in DOMAIN lines : lines[i].key = key} IN
  about # {} /\ Parsed(key, lines[Max(about)].value) = Bad

\* What a setting may be: as the last line on it says.  After a bad one it is the
\* default for config.rs and the README, and what was said before for the code.
May(key, text) ==
  {Said(key, text)} \union (IF EndsBadly(key, text) THEN {DefaultConfig[key]} ELSE {})

\* However often the file and the save change between a load and a reload, the
\* configuration in force is that of the last reading and of nothing earlier: each
\* setting as the last line on it says, a broken line costing no setting but its own;
\* the seed as written, and only without one as in the save; no limit raised above
\* what was written.
SettingsAreAsRead ==
  loaded =>
    LET text == read.text
        save == read.save IN
    /\ \A k \in Keys \ (Counts \union {"seed", "worldgen"}) : config[k] \in May(k, text)
    /\ \E s \in May("seed", text) : config["seed"] = IF s # None THEN s ELSE SeedIn(save)
    /\ Said("worldgen", text) # None => config["worldgen"] = Said("worldgen", text)
    /\ \A k \in Counts : \E n \in May(k, text) : config[k] <= n
    /\ config["max_waypoints_per_world"] \in {WorldCap} \union May("max_waypoints_per_world", text)

\* The limits make sense together in whatever order they were written and whatever
\* was left out: the waypoint service always has room for a point of each player's,
\* and never more room for one player than for all.
LimitsCoherent ==
  /\ 1 <= config["max_waypoints_per_player"]
  /\ config["max_waypoints_per_player"] <= config["max_waypoints_per_world"]
  /\ config["max_waypoints_per_world"] <= WorldCap
  /\ config["waypoint_mutations_per_minute"] \in 1..RateCap

\* README: with share_seed = false the seed is withheld.  No policy made of a file that
\* withholds the seed grants it or carries it in the entry of a dimension, wherever the
\* seed was found and whatever was said before (the world_id derived from it, which the
\* README documents as its low 48 bits, is not withheld); and a policy never has no
\* dimension, nor more than the frame has room for, nor a seed in some only.
PoliciesKeepTheWord ==
  \A p \in Players :
    policies[p] # None =>
      LET policy == policies[p] IN
      /\ Len(policy.dims) \in 1..MaxDims
      /\ \A i \in DOMAIN policy.dims :
           policy.dims[i].has_seed = policy.granted /\ (~policy.granted => policy.dims[i].seed = 0)
      /\ p \in withheld => ~policy.granted
==============================================================================
