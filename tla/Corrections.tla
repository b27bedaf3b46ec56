------------------------------ MODULE Corrections ------------------------------
(***************************************************************************)
(* The answers to requests for map corrections: correction/mod.rs, the     *)
(* request decoders of correction/patch.rs, and correction/anvil.rs.       *)
(*                                                                         *)
(* A client asks for tiles (squares of chunks whose side grows with the    *)
(* level of detail) or for pages of a region (16 chunks a side), naming    *)
(* the dimension and the revision it holds of each.  Each is looked up in  *)
(* turn and answered from the modification time of one .mca file, while    *)
(* the game goes on saving; which dimension is asked for makes no          *)
(* difference to that.  Bodies and presence bits are always empty and left *)
(* out, with request ids, which are only echoed, and how a page is         *)
(* cropped.  The scanner of anvil.rs, which only tests call, is the        *)
(* operators ScanChunk and ScanMcaFile.                                    *)
(***************************************************************************)
EXTENDS Integers, Sequences, FiniteSets, Functions

CONSTANTS
  Half,       \* 2^31: an i32 is in -Half..Half-1
  Chunks,     \* bound: the chunks <<x, z>> the game ever saves
  Contents,   \* bound: what it may save of one
  Requests,   \* bound: the requests a client may send, malformed ones included
  MaxTiles,   \* MAX_TILES_PER_REQ
  MaxPages,   \* MAX_REGION_PAGES_PER_REQ
  MaxDims,    \* MAX_DIM_ENTRIES
  Overworld,  \* where the policy lists the dimension whose files these are
  MaxTime,    \* bound: how often the game saves
  Cold,       \* i64::MIN: the client holds nothing
  NotPresent, \* AnvilError::ChunkNotPresent, and
  Failure     \* any other AnvilError

ChunksPerMcaSide == 32
SectorBytes == 4096
MaxInlineChunkBytes == 255 * SectorBytes
MaxLod == 4

ASSUME CorrectionsNumbers ==
  /\ Half \in Nat \ {0} /\ (Half % ChunksPerMcaSide) = 0
  /\ MaxTiles \in Nat /\ MaxPages \in Nat /\ MaxDims \in Nat /\ MaxTime \in Nat
ASSUME CorrectionsBounds ==
  /\ Chunks \subseteq Int \X Int /\ Cold \notin Nat /\ NotPresent # Failure
  /\ \A q \in Requests :
       /\ q.lod \in Nat /\ q.dim \in Nat
       /\ q.entries \in Seq([x : Int, z : Int] \union
                            [x : Int, z : Int, min : Nat \X Nat, max : Nat \X Nat])

(***************************************************************************)
(* Where things are.  Release builds wrap; div_euclid by 32 is \div.       *)
(***************************************************************************)
Wrap(n) == ((n + Half) % (2 * Half)) - Half

\* 16 << lod.
ChunksPerTile == <<16, 32, 64, 128, 256>>
Side(lod) == ChunksPerTile[lod + 1]

RegionOf(chunk) == <<chunk[1] \div ChunksPerMcaSide, chunk[2] \div ChunksPerMcaSide>>

\* The region whose file answers for a tile: that of its first chunk.
RegionOfTile(tile) ==
  RegionOf(<<Wrap(tile.x * Side(tile.lod)), Wrap(tile.z * Side(tile.lod))>>)

\* And for a page, of which a region has two a side.
RegionOfPage(page) == <<page.x \div 2, page.z \div 2>>

\* location_table_index.  Seeded fault: rows and columns exchanged.
LocationIndexByColumn(chunk) ==
  (chunk[1] % ChunksPerMcaSide) * ChunksPerMcaSide + (chunk[2] % ChunksPerMcaSide)
LocationIndex(chunk) ==
  (chunk[2] % ChunksPerMcaSide) * ChunksPerMcaSide + (chunk[1] % ChunksPerMcaSide)

\* Where the game puts a chunk in the table.
LocationIndexOfGame(chunk) ==
  (chunk[1] % ChunksPerMcaSide) + ChunksPerMcaSide * (chunk[2] % ChunksPerMcaSide)

\* The square of chunks a tile shows.
InTile(tile, chunk) ==
  /\ chunk[1] - tile.x * Side(tile.lod) \in 0..(Side(tile.lod) - 1)
  /\ chunk[2] - tile.z * Side(tile.lod) \in 0..(Side(tile.lod) - 1)

(***************************************************************************)
(* decode_map_view_req_c2s and decode_map_region_view_req_c2s.             *)
(***************************************************************************)
WellFormed(request) ==
  /\ request.dim < MaxDims /\ request.lod <= MaxLod
  /\ request.left = 0
  /\ IF request.kind = "tiles"
       THEN Len(request.entries) <= MaxTiles
       ELSE /\ Len(request.entries) \in 1..MaxPages
            /\ \A e \in Range(request.entries) :
                 e.min[1] <= e.max[1] /\ e.min[2] <= e.max[2] /\ e.max[1] < 16 /\ e.max[2] < 16

\* What a request asks for, entry by entry.
Asked(request) ==
  [i \in DOMAIN request.entries |->
     [kind |-> request.kind, dim |-> request.dim, lod |-> request.lod,
      x |-> request.entries[i].x, z |-> request.entries[i].z]]

Things == UNION {Range(Asked(q)) : q \in {r \in Requests : WellFormed(r)}}
Tiles == {t \in Things : t.kind = "tiles"}
OtherDims == {t.dim : t \in Things} \ {Overworld}

\* handle_correction_request: the file that answers.
RegionFor(thing) == IF thing.kind = "tiles" THEN RegionOfTile(thing) ELSE RegionOfPage(thing)

Regions == {RegionOf(c) : c \in Chunks} \union {RegionFor(t) : t \in Things}

\* world/region and region, in the order find_mca_path tries them.
Folders == 1..2
Nothing == [i \in {} |-> 0]
NoFile == [mtime |-> 0, table |-> Nothing]

VARIABLES
  disk,    \* per folder and region: the .mca file, or NoFile
  clock,   \* how often the game saved; a file's modification time is that of its last save
  beyond,  \* per other dimension and chunk: when the game last saved it
  held,    \* per tile: the last revision the client was given of it, and what the
           \* files showed there then
  pending, \* the entries of the request in hand that are not answered yet
  folder,  \* find_mca_path: the folder it is at, of the first of them,
  found,   \* and whether it saw the file there
  answer   \* the last answer

vars == <<disk, clock, beyond, held, pending, folder, found, answer>>

\* The file that find_mca_path finds while none comes or goes, or NoFile.
FindMca(region) ==
  IF disk[1][region] # NoFile THEN disk[1][region] ELSE disk[2][region]

\* What a file shows of a chunk: when the game last saved it there; and what is to
\* be seen of a tile: in one folder, if it is of the dimension the folders are of.
ShownIn(file, chunk) ==
  IF LocationIndexOfGame(chunk) \in DOMAIN file.table
    THEN file.table[LocationIndexOfGame(chunk)].saved ELSE 0
Picture(f, tile) ==
  [c \in {d \in Chunks : InTile(tile, d)} |->
     IF tile.dim = Overworld THEN ShownIn(disk[f][RegionOf(c)], c) ELSE beyond[tile.dim][c]]

(***************************************************************************)
(* The scanner.  A chunk is saved with where it lies: in which sector, in  *)
(* how many, how many bytes of the file there are from there on, the       *)
(* length and scheme before its data, and the data: an NBT value.          *)
(***************************************************************************)
\* read_location_entry, of a table that has an entry there.
Allocated(stored) == stored.offset >= 2 /\ stored.sectors # 0

\* get_string_from_compound, get_long_from_compound: the first of the keys that
\* has a value of that type.
Lookup(value, keys, type, default) ==
  LET given == {i \in DOMAIN keys :
                  /\ value.type = "compound" /\ keys[i] \in DOMAIN value.map
                  /\ value.map[keys[i]].type = type} IN
  IF given = {} THEN default
  ELSE value.map[keys[CHOOSE i \in given : \A j \in given : i <= j]].is

\* extract_chunk_status.
ExtractChunkStatus(value, mtime) ==
  LET root == IF value.type = "compound" /\ "Level" \in DOMAIN value.map
                THEN value.map["Level"] ELSE value
  IN [mtime |-> Lookup(root, <<"LastUpdate", "lastUpdate">>, "number", mtime),
      generated |-> Lookup(root, <<"Status", "status">>, "string", "")
                      \in {"full", "minecraft:full"}]

\* What a chunk of the game's is said to be is what it is: one that is sound lies in
\* sectors past the header that hold its length and that the file has, in a scheme
\* of the format, and parses; and what it tells is what its tags tell.
ASSUME ContentsAreAsDescribed ==
  \A x \in Contents :
    /\ {x.offset, x.reach, x.length, x.scheme} \subseteq Nat /\ x.sectors \in 0..255
    /\ x.updated \in Int /\ x.finished \in BOOLEAN /\ x.sound \in BOOLEAN
    /\ x.sound <=>
         /\ x.offset >= 2 /\ x.sectors >= 1
         /\ x.length \in 1..(x.sectors * SectorBytes) /\ x.length + 4 <= x.reach
         /\ (x.scheme % 128) \in {1, 2, 3}
         /\ x.nbt.type # "garbage"
    /\ x.sound => \A mtime \in 0..MaxTime :
         ExtractChunkStatus(x.nbt, mtime) =
           [mtime |-> IF x.updated = 0 THEN mtime ELSE x.updated, generated |-> x.finished]
Summaries == [chunk : Int \X Int, says : [mtime : Int, generated : BOOLEAN]]
ASSUME ErrorsAreNoSummaries == NotPresent \notin Summaries /\ Failure \notin Summaries

\* read_chunk_from_file: what the chunk says, NotPresent or Failure.
Intact(stored) ==
  /\ stored.length <= stored.sectors * SectorBytes
  /\ stored.length - 1 <= MaxInlineChunkBytes
  /\ stored.length + 4 <= stored.reach
  /\ (stored.scheme % 128) \in {1, 2, 3}
  /\ stored.nbt.type # "garbage"
ReadChunk(chunk, stored, mtime) ==
  CASE stored.reach >= 5 /\ stored.length = 0 -> NotPresent
    [] stored.reach >= 5 /\ stored.length > 0 /\ Intact(stored) ->
         [chunk |-> chunk, says |-> ExtractChunkStatus(stored.nbt, mtime)]
    [] OTHER -> Failure

\* scan_chunk.
ScanChunk(chunk) ==
  LET file == FindMca(RegionOf(chunk)) IN
  IF file = NoFile THEN Failure
  ELSE IF LocationIndex(chunk) \notin DOMAIN file.table THEN NotPresent
  ELSE IF ~ Allocated(file.table[LocationIndex(chunk)].content) THEN NotPresent
  ELSE ReadChunk(chunk, file.table[LocationIndex(chunk)].content, file.mtime)

\* scan_mca_file: the first chunk that fails ends it.
ChunksOf(region) ==
  {<<region[1] * ChunksPerMcaSide + x, region[2] * ChunksPerMcaSide + z>> :
     x, z \in 0..(ChunksPerMcaSide - 1)}
ScanMcaFile(file, region) ==
  LET listed == {c \in ChunksOf(region) :
                   /\ LocationIndex(c) \in DOMAIN file.table
                   /\ Allocated(file.table[LocationIndex(c)].content)}
      read == {ReadChunk(c, file.table[LocationIndex(c)].content, file.mtime) : c \in listed}
  IN IF Failure \in read THEN Failure ELSE read \ {NotPresent}

(***************************************************************************)
(* The game, an operator and a client around it.                           *)
(***************************************************************************)
Init ==
  /\ disk = [f \in Folders |-> [r \in Regions |-> NoFile]] /\ clock = 0
  /\ beyond = [d \in OtherDims |-> [c \in Chunks |-> 0]]
  /\ held = [t \in Tiles |-> [since |-> Cold, picture |-> Nothing]]
  /\ pending = <<>> /\ folder = 1 /\ found = FALSE
  /\ answer = [mode |-> "none", revision |-> 0]

\* The game saves a chunk.  Two saves of a file are never in one millisecond.
Save(f, chunk, content) ==
  LET region == RegionOf(chunk)
      table == disk[f][region].table
      index == LocationIndexOfGame(chunk)
      stored == [saved |-> clock + 1, content |-> content]
  IN /\ clock < MaxTime
     /\ clock' = clock + 1
     /\ disk' = [disk EXCEPT ![f][region] =
                   [mtime |-> clock + 1,
                    table |-> [i \in DOMAIN table \union {index} |->
                                 IF i = index THEN stored ELSE table[i]]]]
     /\ UNCHANGED <<beyond, held, pending, folder, found, answer>>

\* The game saves a chunk of another dimension, in files the program never opens.
SaveBeyond(d, chunk) ==
  /\ clock < MaxTime
  /\ clock' = clock + 1
  /\ beyond' = [beyond EXCEPT ![d][chunk] = clock + 1]
  /\ UNCHANGED <<disk, held, pending, folder, found, answer>>

\* A file of a region goes: the operator trims the world, or unlinks a folder.
Remove(f, region) ==
  /\ disk[f][region] # NoFile
  /\ disk' = [disk EXCEPT ![f][region] = NoFile]
  /\ UNCHANGED <<clock, beyond, held, pending, folder, found, answer>>

\* handle_correction_request: a request comes in.  For each tile the client says
\* what it holds, or that it holds nothing.
Since(thing, cold) ==
  IF thing.kind = "tiles" /\ ~ cold THEN held[thing].since ELSE Cold
Request(request, cold) ==
  /\ pending = <<>>
  /\ pending' = IF WellFormed(request)
                  THEN [i \in DOMAIN request.entries |->
                          LET thing == Asked(request)[i] IN
                          [thing |-> thing, since |-> Since(thing, cold),
                           picture |-> IF thing.kind = "tiles"
                                         THEN held[thing].picture ELSE Nothing]]
                  ELSE <<>>
  /\ UNCHANGED <<disk, clock, beyond, held, folder, found, answer>>

\* The mode of the answer about a file that was found.  Seeded fault: a tile that
\* was not saved after the client's revision is taken to be unchanged.
ModeUnlessNewer(entry, mtime) ==
  IF entry.thing.kind = "tiles" /\ (entry.since = Cold \/ entry.since < mtime)
    THEN "absolute" ELSE "unchanged"
Mode(entry, mtime) ==
  IF entry.thing.kind = "tiles" /\ (entry.since = Cold \/ entry.since # mtime)
    THEN "absolute" ELSE "unchanged"

Answered(mode, revision) ==
  /\ answer' = [mode |-> mode, revision |-> revision]
  /\ pending' = Tail(pending) /\ folder' = 1 /\ found' = FALSE

\* find_mca_path: whether the folder has the file of the next entry.  After the
\* last one the entry is answered.
FindMcaPath ==
  /\ pending # <<>> /\ ~ found
  /\ IF disk[folder][RegionFor(Head(pending).thing)] # NoFile
       THEN found' = TRUE /\ UNCHANGED <<pending, folder, answer>>
     ELSE IF folder = 1
       THEN folder' = 2 /\ UNCHANGED <<pending, found, answer>>
     ELSE Answered("unavailable", 0)
  /\ UNCHANGED <<disk, clock, beyond, held>>

\* The file that was found is asked for its modification time, which is taken to be
\* 0 when it is gone by now, or when it cannot be had.
AnswerNext(fails) ==
  /\ pending # <<>> /\ found
  /\ LET entry == Head(pending)
         mtime == IF fails THEN 0 ELSE disk[folder][RegionFor(entry.thing)].mtime
     IN /\ Answered(Mode(entry, mtime), mtime)
        /\ held' = IF Mode(entry, mtime) = "absolute"
                     THEN [held EXCEPT ![entry.thing] =
                             [since |-> mtime, picture |-> Picture(folder, entry.thing)]]
                     ELSE held
  /\ UNCHANGED <<disk, clock, beyond>>

Next ==
  \/ \E f \in Folders, c \in Chunks, x \in Contents : Save(f, c, x)
  \/ \E d \in OtherDims, c \in Chunks : SaveBeyond(d, c)
  \/ \E f \in Folders, r \in Regions : Remove(f, r)
  \/ \E q \in Requests, cold \in BOOLEAN : Request(q, cold)
  \/ FindMcaPath
  \/ \E fails \in BOOLEAN : AnswerNext(fails)

Spec == Init /\ [][Next]_vars

(***************************************************************************)
(* Properties.                                                             *)
(***************************************************************************)
\* Tiles whose answer rests on the file that holds all of their chunks: of the
\* first two levels, and whose chunks an i32 can count.
OneFile(tile) ==
  /\ tile.lod <= 1
  /\ tile.x * Side(tile.lod) \in -Half..(Half - 1)
  /\ tile.z * Side(tile.lod) \in -Half..(Half - 1)

\* Whoever is told that a tile is unchanged held, when it asked, what the file that
\* answers shows there now.
Asking == Head(pending)
ToldUnchanged ==
  /\ pending # <<>> /\ pending' = Tail(pending)
  /\ answer'.mode = "unchanged" /\ Asking.thing.kind = "tiles"
HeldWhatIsThere ==
  Asking.since # Cold /\ Asking.picture = Picture(folder, Asking.thing)

\* Answers to tiles (mod.rs, MSG_MAP_VIEW_REQ_C2S): of such a tile of the world
\* whose files these are, and of a revision that is a time, "unchanged" is true,
\* however files are saved, go and come back while the answer is found.  It is not
\* of other dimensions, which the same files answer for, nor of revision 0.
UnchangedIsTrue ==
  [][/\ ToldUnchanged /\ OneFile(Asking.thing)
     /\ Asking.thing.dim = Overworld /\ Asking.since # 0
     => HeldWhatIsThere]_vars

\* What should be said of a chunk the game saved intact.
SavedAs(chunk) ==
  LET file == FindMca(RegionOf(chunk))
      stored == file.table[LocationIndexOfGame(chunk)].content
  IN [chunk |-> chunk,
      says |-> [mtime |-> IF stored.updated = 0 THEN file.mtime ELSE stored.updated,
                generated |-> stored.finished]]

\* scan_chunk and scan_mca_file (anvil.rs): both give of every chunk the game
\* saved intact what it saved, under the chunk's own coordinates, and nothing of
\* any other; one damaged chunk costs the scan of its file and no other chunk.
ScansTellTheWorld ==
  \A c \in Chunks :
    LET region == RegionOf(c)
        file == FindMca(region)
        saved == {d \in Chunks : RegionOf(d) = region
                                   /\ LocationIndexOfGame(d) \in DOMAIN file.table}
        sound == {d \in saved : file.table[LocationIndexOfGame(d)].content.sound}
    IN file # NoFile =>
         /\ c \in sound => ScanChunk(c) = SavedAs(c)
         /\ c \notin sound => ScanChunk(c) \in {NotPresent, Failure}
         /\ saved = sound => ScanMcaFile(file, region) = {SavedAs(d) : d \in sound}
==============================================================================
