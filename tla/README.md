# Verification of the ConfluxMap companion plugin for Pumpkin

TLA+ modules, TLC configurations and TLAPS proofs about the plugin in `src/`
(paths below are relative to `src/src/` unless they start with `README`).

## 1. The system

The plugin runs inside a Pumpkin server. Clients talk to it over two plugin
channels: `confluxmap:map_sync` for the handshake, positions and corrections, and
`confluxmap:waypoints_v1`, the shared waypoints. The shared waypoints are the
part with authoritative state, so they come first here.

| component | state it keeps | operations | what is hard |
|---|---|---|---|
| **service** `waypoints/service.rs` | access policy, limits, per-player retained results (LRU), token buckets | `create`, `update`, `delete` | retries, evictions, save-then-commit, restarts, ownership |
| **store** `waypoints/store.rs` | revision, list of points, id index, occupancy | `prepare_*`, `commit`, `snapshot` | one revision per change, files with two points on a block |
| **catalog file** `waypoints/persist.rs`, `storage.rs` | one JSON document | `load`, `save`, quarantine, set aside | crash between write and rename, foreign / newer / corrupt files |
| **hub** `waypoints/mod.rs` | settings, `refresh_status`, `pending_deltas`, the service | `handle`, `on_tick`, `clear`, `configure`, `on_unload`, `on_leave` | computes under a lock, sends without it; two ways deltas travel |
| **sessions** `waypoints/session.rs` | per connection: compatible, minor, subscribed, operator, strikes, muted, tokens | `hello`, `record_malformed`, `refresh_operator`, ... | mutes and greetings in any order |
| **map-sync handshake** `handshake.rs`, `state.rs`, `lib.rs` | muted players, strikes, radar subscribers, recent channels | HELLO, strikes, leave | strikes and corrections share a channel |
| **wire format and validation** `waypoints/proto.rs`, `wire.rs`, `model.rs` | none (the point passes through) | `decode`, `validate`, `encode` | four minors of one frame; each check must accept what the one before let pass |
| **corrections** `correction/*.rs` | none (reads region files) | tile and region view requests, the region scanner | files that change between answers; 32-bit arithmetic on coordinates |
| **identity** `identity.rs` | the instance id file | `load_or_create_instance` | an id that cannot be written |
| **configuration and world** `config.rs`, `world.rs` | `CONFIG` (in `state.rs`) | `load`, `inspect_world`, `/cfm reload`, `build_policy` | lines that are broken, repeated or in any order; what the file withholds and the save gives |
| **protocol, json, clock, errors** | none of their own | parsing and formatting | boundaries only |

How they interact. A payload event reaches `PayloadHandler` (`lib.rs`), which
hands waypoint payloads to `waypoints::on_payload`. That takes the hub's one
mutex, decodes, decides, asks the service, releases the mutex and only then
sends; a broadcast first asks the host who is online. A task runs `on_tick` every
second, which pushes operator changes, settings changes and the deltas of a wipe.
`/cfm waypoints clear` and `/cfm reload` come from the command handlers;
`configure` runs at load. The service writes the file before it commits to the
store, and the host's leave event drops the session.

What makes each part correct:

- service and store: a mutation is written before it is visible; a revision names
  one catalog; a request is applied at most once however often it is retried; it
  is never applied over a change its sender had not seen; only the publisher or
  an operator changes a point; no block gets a second point; quotas hold.
- hub and sessions: whatever a client holds as its copy is the catalog at some
  revision; a subscriber is current between calls; a client is sent only what it
  agreed to; a mute lasts until disconnect; a stable client converges.
- catalog file and identity: what was last written comes back; another server's
  points are never served unless a file that names no server brought them; a newer
  build's file is never rewritten, at most moved away unread; nothing is written over
  unread.
- wire format, validation and file entry: every point the server holds can be
  saved, read back and written for every minor, and is the one its author drew.
- corrections: a tile of the overworld is called unchanged, under a revision that is a
  time, only if the client holds what the file shows there; a scan reads every chunk
  where the game put it.
- configuration: what is in force is the last reading and nothing earlier; the
  limits agree; no policy that withholds the seed carries it.
- map-sync handshake: no client has to refuse a gated frame, except positions it
  was granted once and gave up; the session a client opens is on what it was granted; a mute holds
  and ends with the connection, as does everything kept by name.

## 2. The modules

| module | models | in terms of the code |
|---|---|---|
| `Waypoints` | the data | a catalog is a function from ids to points; `At`, `PublishedBy` are `find_at`, `count_published_by` |
| `Catalog` | what a catalog promises (abstract specification) | `Publish`, `Amend`, `Withdraw` are the store's three prepared mutations, `Wipe` is `Hub::clear` |
| `WaypointService` | service, store and file | `Create`/`Update`/`Delete` are the three entry points. Each is `Replay`, `Refuse`, `SaveFails` or `Save`; `Save` replaces the file and `Commit` moves the store and answers, so that `Restart` can fall between the two. `ClearSave`/`ClearInstall` are the two halves of `Hub::clear` |
| `WaypointHub` | hub and sessions | one action per message under the lock (`Handle*`), `Deliver`/`LookUp` for the sends outside it, `BeginTick`/`Tick`, `Clear`, `Reload`, `Load`, `Unload`, `Leave`. A call in progress is a record in `calls[t]`: one thread is a host that makes one call at a time, two let calls overlap |
| `CatalogFile` | catalog file and identity across restarts | a start is one of `RecallIdentity`/`MakeIdentity`/`MissIdentity` (the three outcomes of `load_or_create_instance`) and then one load action per way out of `Persistence::load`, with what `configure` makes of it. `Verdict` keeps the order of the checks, and `QuarantineUnread` is the file that can be statted and not read. Renames, writes and reads may fail; `PutCatalog` and `DamageIdentity` are the operator's, with the server stopped |
| `MapSync` | handshake, strikes and the position stream | `Hello` is `handle_payload` for a HELLO with the frames of `build_reply`, `NotHello` for everything else (a strike, answered correction requests included), `BroadcastPositions` the tick, `Login`/`RegisterForeign`/`Leave` the event handlers, `Reload` the command. Frames travel in `outbox[p]` and `Take` is the client |
| `WaypointPayload` | the way of one point from author to viewer | `Decode`, `Validate`, `Encode`, `ToDocument` and `FromEntry` are the conversions; `Hello`, `Subscribe`, `Create`, `Update`, `Erase`, `Load` the handlers that call them. `told` is a STATUS on its way, so that a client may still write by the minor of its last session |
| `Corrections` | the answers to correction requests, and the region scanner | `Request` is what the decoders make of a payload, `FindMcaPath` looks in one folder for the file of the next entry and `AnswerNext` asks the file it found for its time, which may fail, so that files change between the two; `Save`, `SaveBeyond` (another dimension) and `Remove` are the game and the operator around them. `ScanChunk` and `ScanMcaFile` are operators over the files |
| `PluginConfig` | file, save, configuration and policy | `Parse` applies `Line` to the lines of the file in turn (`After`), `InspectWorld` is the cascade over the save, `OnLoad` and `Reload` put them together, `Hello` is the policy a client is sent |
| `MCWaypointService`, `MCWaypointHub`, `MCCatalogFile`, `MCMapSync`, `MCWaypointPayload`, `MCCorrections`, `MCPluginConfig` | the instances TLC checks | start files, actors, symmetry |
| `CatalogProofs`, `WaypointServiceProofs`, `WaypointHubProofs`, `CatalogFileProofs`, `MapSyncProofs`, `WaypointPayloadProofs`, `CorrectionsProofs`, `PluginConfigProofs` | theorems | section 5 |

A start that could not stat the file, or not move it away, serves an empty catalog
over it and replaces it at its first save, whatever it was. That is how the code is
written and warned about; `stuck` marks such a start, and the properties of the
file except it.

History variables: `log` (every mutation that was written) and `file` read as a
catalog in the service; `past` (the catalog at each revision) in the hub; `drawn` in
`WaypointPayload`; `read` and `withheld` in `PluginConfig`; `kept`, `used`, `unnamed` (the
points of other servers that files without an owner brought) and `stuck` in
`CatalogFile`; `lost` (what a client was granted and then no longer) and `refused` (what came
while it was not selected) in `MapSync`. The code has none of them; the properties need them
to speak of earlier steps.

Abstractions. In the service a draft is a block and a label, or `BadDraft`; a
player whose name is unprintable is in `UnprintableNames`; buckets hold whole
tokens; the audit log is left out. In the hub a point is the revision that
stamped it (a revision names one change, which is what `Catalog` establishes), and
whether a mutation is applied, replayed or refused is any outcome. `ClearInstall` keeps the
access policy the service has, where `Hub::clear` takes it from the hub's settings; they
differ only after a second `configure`, which is item 3 of the plan, and `WaypointHub` starts
after the first. The client
(how it applies a delta, when it greets and subscribes) and the host are
external: the client follows the protocol the code's comments describe, one
revision at a time, and subscribes again after a gap. In `MapSync` the client is the
one handshake.rs describes: it selects what a frame of capabilities grants and opens
its session on a policy. `MapSync` is a host that makes one call at a time; the
counters and lists that only `/cfm status` shows are left out, and what it keeps of
a client beyond `selected` and `session` is history.

In `WaypointPayload` a text is how many code points it has, how many bytes each
takes, how many blanks surround it and what it can pass for; ids, timestamps and the
colour beyond its opacity are carried as they are and left out, and a frame is the
sequence of its fields. In `Corrections` a file is a modification time and a table of
what was saved, and a chunk is where it lies, its header and its NBT value; time is
counted in saves, so no file is saved twice in one millisecond. `shown`, `held` and
`picture` are the client's, who keeps of each tile the last revision it was given and what the
file showed then. The game saves other dimensions in files the program never opens (`beyond`).
In `CatalogFile` the documents an operator can come by are any the format allows of another
server, or without an owner (`Found`); TLC takes a sample of them (`Brought`) and
the theorems all. In `PluginConfig` a text is its sequence of key and
value pairs: how a line is split, unquoted and stripped of a comment is left out.

## 3. The runs

| run | bounds | shows |
|---|---|---|
| `service_retry` | 2 players, ids, blocks, operations; revision 3; world quota 2, every other cap 1; no file, or one with two points on one block | durability, at-most-once, nothing in between, truthful answers, coherent retention; the file implements `Catalog`; no second point on a block; quotas |
| `service_owners` | 1 id, revision 4, any operator level, both policies | ownership across re-creation, policy and level changes |
| `file_restarts` | 2 drawn ids, one point published here and two elsewhere, revision 2, schemas 0 to 3 around this build's 2 | the four promises of the catalog file, under failing files |
| `hub_oneatatime` | 2 clients (minors 1 and 4, server 3), 2 strikes, 2 tokens | clients are sent only what they agreed to; mutes last |
| `hub_administered` | 1 client, 2 ids, revision 3, every console command, fairness | copies follow; levels are told; convergence |
| `hub_overlap` | 2 threads, 2 ids, revision 4, wipes, an empty file or two points | copies are catalogs under every interleaving |
| `payload_minors` | clients of minors 4 and 2 (server 3), one with a padded name; 14 drafts at and past each limit; files of an older build and damaged ones | followers show the point, it is what was drawn, it is saved and read back |
| `corrections_saved` | an i32 of 8 bits; 3 chunks, two of them in one region, on both sides of the origin; 4 chunk contents; 2 saves; a tile of level 1, one of level 4 of another dimension, a page, malformed requests | unchanged tiles are true; scans tell the world |
| `config_reloads` | 1 player, 33 files of up to 4 lines, 10 saves; limits scaled to a world of 4 | settings are as read, limits agree, policies keep the word |
| `sync_sessions` | a Java and a Bedrock player, every offer, 3 strikes, at most 2 frames on their way when a HELLO arrives | the reply's order, grants, mutes and what a departure forgets |
| `hub_reload`, `sync_honest` | as `hub_administered` with one command, as `sync_sessions` | disagreements between code and documents, section 4 |

Why the bounds are enough: each cap (retained results, tracked players, tokens,
strikes, quotas) is at a value one step past which the interesting branch is
taken, and there are as many actors as a property relates. Revision 3 or 4 lets a
point be created, changed, removed and created again. In
`corrections_saved` eight bits are the fewest that wrap at a tile of the last level
and still count a region on either side; two saves are what it takes to put an older file back. In `config_reloads` a key of each
kind of value is said twice, badly, out of range or out of order, the other flags being parsed
as `share_seed` is, and the saves put a seed and a damaged file before and after each other in
the cascade. `MaxRevision` stands for the
last `i64`, which the code refuses to pass, in the service; in the hub it only
bounds the run.

Fairness (`FairSpec` of `WaypointHub`, used by `hub_administered` only): a call
that has begun ends (the code has no wait inside one); the tick begins again and
again (a repeating task of 20 ticks); the host delivers what a client has reason to
send - strong fairness, because with one thread the host is busy with other calls
in between; tokens refill with time. Nothing is assumed of mutations, wipes,
level changes, joins or leaves. A client that sends without a reason is not
helped by fairness: only what is `Due` is.

Deadlock is checked in every run.

## 4. What the code and its documents disagree on

- `/cfm reload` does not reach the hub (`FlagsFollowConfig`): `ReloadHandler` never
  calls `waypoints::configure`, whose documentation describes that very call.
- Correction requests are struck as malformed before they are answered
  (`HonestNeverMuted`): after three of them a client that sent nothing malformed is
  muted, although `README.en.md:27` says they are answered and `README.en.md:32` that
  three malformed packets mute.

Others, without a run of their own. The first four limit what a property can say:

- A newer build's catalog that cannot be read is moved to `.bad`: a file that can be statted
  and not read is quarantined whatever it is (`waypoints/persist.rs:105`), although
  `waypoints/persist.rs:20-24` says such a file is left untouched. `NewerUntouched` is what
  remains true.
- Positions go on streaming to a client whose second HELLO did not offer them: nobody calls
  `set_radar_subscriber` (`state.rs:244`) with `false`, although `handshake.rs:10-13` and
  `docs/protocol.md:246-247` say a client refuses what it has not selected. `NothingEarly` is
  what remains true.
- A bad value after a good one on the same key leaves the good one in force, although
  `config.rs:18-19` and `README.en.md:152-153` say the setting is at its default.
  `SettingsAreAsRead` admits either.
- UNCHANGED is said of tiles of other dimensions whatever was saved of them (`dim_index` is
  echoed and not used: the overworld's folder answers for every dimension), of a tile
  held under revision 0, which is the answer whenever the file's time cannot be had, and of
  every page of a region that has a file, a cold request included
  (`correction/mod.rs:51`), although `patch.rs:11` explains it as "peer already holds this exact
  revision or no updates exist". `UnchangedIsTrue` is what remains true.
- A stored point that no longer passes validation costs the whole catalog: `from_entry`
  refuses it and the file is quarantined, before `sanitize_loaded`, whose
  documentation (`waypoints/service.rs:938`) says the others survive, is called.
- A mutation after a wipe and before the tick reaches subscribers ahead of the wipe's
  deltas, against the comment on `Hub::clear` (`waypoints/mod.rs:541`). The clients
  notice the gap and subscribe again, so they still converge.
- A catalog that is not shared is emptied by `/cfm waypoints clear`, against
  `README.en.md:145` (`Hub::clear` asks for a service, not for `enabled`).
- `share_corrections = false` changes nothing: requests are answered without a look at it
  (`lib.rs:161`), and `build_policy` never sets the corrections bit that
  `docs/protocol.md` gives a server with it.
- The template (`config.rs:89`) clamps `max_waypoints_per_player` to 1-64; `normalize`
  clamps it to what the world may hold, up to 512.
- `resolve_worldgen` documents the running server's version as the second choice
  (`config.rs:272`); `lib.rs:310` puts the save's into the override, the first.
- A file that cannot be read gives every default, `share_seed = true` included.
- With `share_seed = false` "the seed is withheld" (`README.en.md:141`), but `worldId` is still
  its low 48 bits (`config.rs:256-266`, as `README.en.md:143` has it). `PoliciesKeepTheWord`
  is about the field `worldSeed` alone.
- An `iconItemId` of more than 256 bytes written into the file by hand is loaded, and
  no SNAPSHOT or UPSERT can then be encoded (`waypoints/proto.rs:480` calls encoding total).

## 5. The proofs

Checked by tlapm for every value of the constants, from the assumptions named
in `Waypoints`, `WaypointService`, `WaypointHub`, `CatalogFile`, `MapSync`,
`WaypointPayload`, `Corrections` and `PluginConfig`: finite sets of ids, caps that are
naturals, distinct model values, well-formed start files, drafts and requests. Two are about
what stands for bytes: `TextsAreLines` (the text of a configuration is a sequence of lines, a list
of names one of names) and `ContentsAreAsDescribed` (a chunk is marked sound
exactly when its offset, length, scheme and data are, and its time and status are
the ones its tags hold).

- `CatalogProofs`: the abstract catalog's type invariant and its three action
  properties. `CatalogTypeOK` is inductive because every stamp is the revision of
  the step that made it, which is `StepChanges`: a step moves the revision on and either
  empties the catalog or gives one id a point with that stamp, or none.
- `WaypointServiceProofs`: `ServiceTypeOK`. The work is in `PreparedIsCatalog` (a
  mutation that passes the checks yields a catalog) and `TouchType` (the LRU list
  after an eviction). `ServiceDurable` makes the live catalog and the file
  interchangeable when nothing is pending. On it rests
  `ServiceImplementsCatalog`: every step of the service is a step of `Catalog` on
  the file, or a stutter (`WrittenIsCatalogStep`); `PublisherFixed` and
  `OverlapNeverGrows` follow through the refinement. The history properties need a
  stronger invariant, `HistoryInv`: `HistoryAgrees` (one mutation per revision,
  each decided on an earlier version, none newer than its point's stamp, each
  listed point published by its last creator) together with `NothingInBetween` and
  `OwnersOnly`. `NothingInBetween` alone is not inductive: that the version a
  request names is the latest one is a fact about stamps in the file.
  `AppliedAtMostOnce` follows from it, because a request applied twice would have
  named a version older than its own first application. `ServiceAnswersTrue` uses
  that retained results are in the log. `ServiceRetention` (`RetentionCoherent`)
  needs `PendingIsNew`: between the write and the commit, the player who asked is
  already tracked and nothing is retained under the operation, so that the commit
  adds one result and never a second for the same operation.
  `ServiceQuotasHold` needs `PendingWithinQuotas`, because the caps are checked before the write
  and the catalog grows at the commit.
- `WaypointHubProofs`: all safety properties of the hub. `HubInv` holds however many
  calls overlap: every frame about to be sent, every delta that waits for the tick and
  every client's copy says what the history says at its revision (`FramesSound`,
  `PendingSound`, `CopiesSound`). `CopiesAreCatalogs` by itself is not inductive: what a client will
  hold is decided by frames made under the lock and sent after it. `MutedUntilDisconnect`
  needs only that nobody is muted with strikes left (`MutesCounted`). The three other
  properties are promised, and stated, for a host that makes one call at a time; their invariant, `OneCallInv`, says what the call in progress owes:
  whom it may address (`CallKnown`), that its frames were agreed to (`FramesAgreed`),
  that whoever is not told yet is about to be (`ToldOrAboutTo`), and that the
  frames left bring each subscriber's copy up to the catalog without a gap
  (`CopiesFollow`).
- `CatalogFileProofs`: the five properties of `file_restarts`, from one invariant.
  `ForeignNeverServed` needs that every file with another server's points names that
  server, or has those points only that came without a name (`ForeignMarked`); the two action properties, that a service which could
  stat and move its file serves the one that lies there (`Accounted`);
  `CatalogSurvives`, that what was last written lies there under this server's id
  until something fails (`Remembered`).

- `MapSyncProofs`: the six properties of `sync_sessions`. What a client has seen is
  not inductive by itself, it depends on the frames still on their way;
  `WellOrdered` says what a line of frames must be like for the client that will
  take them (a grant before what it gates, a policy after every grant), for any
  length of line. `GreetedLine`, `StreamedLine` and `TakenLine` are its three steps, and
  `ReplyFrames` what they need to know of `build_reply`. That positions are the only frames a
client ever refuses (`NothingEarly`) holds because they are the only ones sent outside of a
reply.

- `WaypointPayloadProofs`: the three properties of `payload_minors`, for any clients,
  minors, drafts and limits. `ReadBack` is what a frame written at one minor and read
  at another can be: itself as far as both have it, or malformed. The invariant adds
  `Kept` (the point is what `validate` lets pass, and the file has it) and `Agreed` (who
  follows reads by the minor its session has). From the code it needs that 256 bytes carry 64
  code points (`PayloadConstants`), and of the files that were put in place
  that no icon is longer than a frame carries (`DocumentsFit`).
- `CorrectionsProofs`: `RegionHoldsTile` (a tile of the first two levels lies in one
  file, for any integers that hold a region's width and any coordinates that fit them), and `UnchangedIsTrue` from
  `RevisionsMeanTheFile`: a modification time names one state of a file of the overworld,
  and what a client holds under a revision other than 0 is the picture of that state. Between
  look-up and answer the file may be another, which is why the picture is
  that of the folder the answer was found in.
  `ScansAreTrue`: what the scanner lists of a file is what was saved there, or the error the
  file deserves. Its arithmetic is `OnePlace` (a chunk has one index in its region, and
  its coordinates come back from it); its invariant is `FilesAreOfTheirRegion`, that every
  file, in whatever folder, holds only chunks of the region it is named after.
- `PluginConfigProofs`: the three properties of `config_reloads`. `AfterIsSaid`: when `n` lines have been
  read, each setting is what the last good one of them says, or its default. It is an induction over the lines, done through `Least` (a set of naturals
  has a least element, here the first line after which it would fail).
  `ConfigInv` carries it through loads and reloads, with what `normalize` makes of the limits
  (`NormalizeFacts`); `PoliciesInv` says what a policy on its way may tell of a seed, from
  `FoundSeed` and `ResolveFacts`.

Every invariant and every action property of the passing runs is proved. Only model-checked are the two
liveness properties, `Converges` and `LevelsAreTold`: liveness under fairness is out of the
prover's reach. The library's induction rule takes an operator as a parameter, which the installed provers
cannot instantiate; where an induction over numbers was needed it is done by a least
counterexample, as in `PluginConfigProofs`.

## 6. Plan

1. A run at the cap of tracked sessions, and sessions of players who left.
2. `MapSync` with calls that overlap, as in the hub: a HELLO or a strike handled
   across its player's leave.
3. `WaypointHub` composed with `WaypointService`, so that a second `configure` and the
   limits it does not reach can be stated.

## 7. Not modelled

Byte offsets, integers and UUIDs in frames (`protocol.rs`, the readers and writers of `wire.rs`), the JSON
parser and writer (`json.rs`), NBT decoding and decompression beyond sound or damaged, how
a line of the configuration is split and unquoted, the registration of channels and
event handlers (`channel.rs`), the clock, errors: pure functions or file
reading without protocol state. The bodies and presence bits of correction answers,
which the code always leaves empty. Command output and logging. The order of the
catalog's list, which only decides what a page shows.
