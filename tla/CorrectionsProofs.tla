---------------------------- MODULE CorrectionsProofs ----------------------------
(***************************************************************************)
(* That whoever is told that a tile is unchanged held what the file that   *)
(* answers shows there, whatever the chunks, the requests and the folders, *)
(* if the tile is of the dimension the folders are of and the revision is  *)
(* a time.                                                                 *)
(*                                                                         *)
(* Two facts meet.  Arithmetic: a tile of the first two levels that an i32 *)
(* can count lies in the one region whose file answers for it.  And an     *)
(* invariant: modification times are given once, so that whoever holds a   *)
(* revision holds what the file that still has it shows.                   *)
(***************************************************************************)
EXTENDS Corrections, SequenceTheorems, TLAPS

(***************************************************************************)
(* Arithmetic.                                                             *)
(***************************************************************************)
\* An i32 is not changed by being made one.
LEMMA WrapIsIdentity ==
  ASSUME NEW n \in -Half..(Half - 1) PROVE Wrap(n) = n
<1>1. Half \in Nat \ {0}
  BY CorrectionsNumbers
<1>2. n + Half \in 0..(2 * Half - 1)
  BY <1>1
<1>3. (n + Half) % (2 * Half) = n + Half
  BY <1>1, <1>2
<1> QED
  BY <1>1, <1>3 DEF Wrap

\* Chunks of a tile of 16 or 32 chunks a side are in the region of its first chunk.
LEMMA OneColumn ==
  ASSUME NEW x \in Int, NEW k \in {16, 32}, NEW i \in 0..(k - 1)
  PROVE (x * k + i) \div 32 = (x * k) \div 32
<1>1. CASE k = 16
  BY <1>1, Z3
<1>2. CASE k = 32
  BY <1>2, Z3
<1> QED
  BY <1>1, <1>2

\* RegionOfTile: the region whose file answers for such a tile holds its chunks.
THEOREM RegionHoldsTile ==
  ASSUME NEW tile \in [kind : {"tiles"}, dim : Int, lod : Nat, x : Int, z : Int],
         OneFile(tile), NEW chunk \in Int \X Int, InTile(tile, chunk)
  PROVE RegionOf(chunk) = RegionOfTile(tile)
<1> DEFINE k == Side(tile.lod)
<1>1. k \in {16, 32}
  BY DEF OneFile, Side, ChunksPerTile
<1>2. chunk[1] - tile.x * k \in 0..(k - 1) /\ chunk[2] - tile.z * k \in 0..(k - 1)
  BY DEF InTile
<1>3. tile.x * k \in Int /\ tile.z * k \in Int
  BY <1>1
<1>4. /\ chunk[1] \div 32 = (tile.x * k) \div 32
      /\ chunk[2] \div 32 = (tile.z * k) \div 32
  <2> HIDE DEF k
  <2> DEFINE i == chunk[1] - tile.x * k
             j == chunk[2] - tile.z * k
  <2>1. i \in 0..(k - 1) /\ j \in 0..(k - 1)
    BY <1>2
  <2>2. /\ (tile.x * k + i) \div 32 = (tile.x * k) \div 32
        /\ (tile.z * k + j) \div 32 = (tile.z * k) \div 32
    <3> HIDE DEF i, j
    <3> QED
      BY <1>1, <2>1, OneColumn
  <2>3. chunk[1] = tile.x * k + i /\ chunk[2] = tile.z * k + j
    BY <1>3
  <2> QED
    BY <2>2, <2>3
<1>5. Wrap(tile.x * k) = tile.x * k /\ Wrap(tile.z * k) = tile.z * k
  BY WrapIsIdentity DEF OneFile
<1> QED
  BY <1>4, <1>5 DEF RegionOf, RegionOfTile, ChunksPerMcaSide

(***************************************************************************)
(* What kinds of things the variables hold.                                *)
(***************************************************************************)
Tables == UNION {[S -> [saved : Nat, content : Contents]] : S \in SUBSET Int}
Files == [mtime : Nat, table : Tables] \union {NoFile}
Pictures == UNION {[S -> Nat] : S \in SUBSET Chunks}
Revisions == Nat \union {Cold}
Questions == [thing : Things, since : Revisions, picture : Pictures]

TypeOK ==
  /\ disk \in [Folders -> [Regions -> Files]]
  /\ clock \in Nat
  /\ beyond \in [OtherDims -> [Chunks -> Nat]]
  /\ held \in [Tiles -> [since : Revisions, picture : Pictures]]
  /\ pending \in Seq(Questions)
  /\ folder \in Folders /\ found \in BOOLEAN
  /\ answer \in [mode : {"none", "unavailable", "absolute", "unchanged"}, revision : Nat]

(***************************************************************************)
(* The invariant.                                                          *)
(***************************************************************************)
\* A file's modification time has come, and is not that of the other folder's.
TimesAreGivenOnce ==
  /\ \A f \in Folders, r \in Regions :
       disk[f][r] = NoFile \/ disk[f][r].mtime \in 1..clock
  /\ \A r \in Regions : disk[1][r].mtime = disk[2][r].mtime => disk[1][r] = NoFile

\* What one file shows of a tile; and that a picture is what the file that still
\* has its revision shows.  A revision of 0 names no state of a file.
Stamps(file, tile) == [c \in {d \in Chunks : InTile(tile, d)} |-> ShownIn(file, c)]
Truthful(tile, since, picture) ==
  /\ since \in 1..clock
  /\ OneFile(tile) /\ tile.dim = Overworld =>
       \A f \in Folders : disk[f][RegionOfTile(tile)].mtime = since =>
         picture = Stamps(disk[f][RegionOfTile(tile)], tile)

RevisionsAreTruthful ==
  /\ \A t \in Tiles : held[t].since \notin {Cold, 0} => Truthful(t, held[t].since, held[t].picture)
  /\ \A i \in 1..Len(pending) : pending[i].since \notin {Cold, 0} =>
       /\ pending[i].thing \in Tiles
       /\ Truthful(pending[i].thing, pending[i].since, pending[i].picture)

Inv == TypeOK /\ TimesAreGivenOnce /\ RevisionsAreTruthful

(***************************************************************************)
(* What is asked for.                                                      *)
(***************************************************************************)
LEMMA TilesTyped ==
  ASSUME NEW tile \in Tiles
  PROVE tile \in [kind : {"tiles"}, dim : Int, lod : Nat, x : Int, z : Int]
<1>1. PICK q \in Requests : tile \in Range(Asked(q))
  BY DEF Tiles, Things
<1>2. PICK i \in DOMAIN q.entries : tile = Asked(q)[i]
  BY <1>1 DEF Range, Asked
<1>3. tile = [kind |-> q.kind, dim |-> q.dim, lod |-> q.lod,
          x |-> q.entries[i].x, z |-> q.entries[i].z]
  BY <1>2 DEF Asked
<1>4. q.entries[i] \in [x : Int, z : Int] \union
                       [x : Int, z : Int, min : Nat \X Nat, max : Nat \X Nat]
  BY CorrectionsBounds
<1>5. q.entries[i].x \in Int /\ q.entries[i].z \in Int /\ q.lod \in Nat /\ q.dim \in Int
  BY <1>4, CorrectionsBounds
<1>6. tile.kind = "tiles"
  BY DEF Tiles
<1> QED
  BY <1>3, <1>5, <1>6

\* The regions of tiles and chunks are among those that have files.
LEMMA RegionsCover ==
  /\ \A t \in Things : RegionFor(t) \in Regions
  /\ \A t \in Tiles : RegionOfTile(t) \in Regions /\ RegionFor(t) = RegionOfTile(t)
  /\ \A c \in Chunks : RegionOf(c) \in Regions
  BY DEF Regions, Tiles, RegionFor

\* find_mca_path gives one of the two files, and none only when there is none.
LEMMA FindMcaGives ==
  ASSUME TypeOK, NEW r \in Regions
  PROVE /\ \E f \in Folders : FindMca(r) = disk[f][r]
        /\ FindMca(r) \in Files
  BY DEF TypeOK, FindMca, Folders

\* What a folder shows of a tile is what its file of the one region shows.
LEMMA PictureOfOneFile ==
  ASSUME NEW tile \in Tiles, OneFile(tile), tile.dim = Overworld, NEW f \in Folders
  PROVE Picture(f, tile) = Stamps(disk[f][RegionOfTile(tile)], tile)
<1>1. ASSUME NEW c \in Chunks, InTile(tile, c) PROVE RegionOf(c) = RegionOfTile(tile)
  BY <1>1, TilesTyped, RegionHoldsTile, CorrectionsBounds
<1> QED
  BY <1>1 DEF Picture, Stamps

LEMMA NothingIsATable == Nothing \in Tables
<1>1. Nothing \in [{} -> [saved : Nat, content : Contents]]
  BY DEF Nothing
<1> QED
  BY <1>1 DEF Tables

LEMMA ShownTyped ==
  ASSUME NEW file \in Files, NEW c \in Chunks PROVE ShownIn(file, c) \in Nat
<1> DEFINE Stored == [saved : Nat, content : Contents]
<1>1. file.table \in Tables
  BY NothingIsATable DEF Files, NoFile
<1>2. PICK S \in SUBSET Int : file.table \in [S -> Stored]
  BY <1>1 DEF Tables
<1> QED
  BY <1>2 DEF ShownIn

LEMMA PictureTyped ==
  ASSUME TypeOK, NEW tile \in Tiles, NEW f \in Folders PROVE Picture(f, tile) \in Pictures
<1>1. \A c \in Chunks : ShownIn(disk[f][RegionOf(c)], c) \in Nat
  BY ShownTyped, RegionsCover DEF TypeOK
<1>2. tile.dim # Overworld => \A c \in Chunks : beyond[tile.dim][c] \in Nat
  BY DEF TypeOK, OtherDims, Tiles
<1>3. Picture(f, tile) \in [{d \in Chunks : InTile(tile, d)} -> Nat]
  BY <1>1, <1>2 DEF Picture
<1> QED
  BY <1>3 DEF Pictures

(***************************************************************************)
(* The steps.                                                              *)
(***************************************************************************)
\* Files that change get a new time or go, so that what is held stays true.
LEMMA TruthIsKept ==
  ASSUME Inv, NEW tile \in Tiles, NEW since, NEW picture, Truthful(tile, since, picture),
         clock' \in Nat, clock <= clock',
         \A f \in Folders, r \in Regions :
           disk'[f][r] \in {disk[f][r], NoFile} \/ disk'[f][r].mtime = clock + 1
  PROVE Truthful(tile, since, picture)'
<1>1. since \in 1..clock' /\ since \in 1..clock /\ clock \in Nat
  BY DEF Inv, TypeOK, Truthful
<1>2. ASSUME OneFile(tile), tile.dim = Overworld, NEW f \in Folders, disk'[f][RegionOfTile(tile)].mtime = since
      PROVE picture = Stamps(disk'[f][RegionOfTile(tile)], tile)
  <2>1. RegionOfTile(tile) \in Regions
    BY RegionsCover
  <2>2. disk'[f][RegionOfTile(tile)] = disk[f][RegionOfTile(tile)]
    BY <1>1, <1>2, <2>1 DEF NoFile
  <2> QED
    BY <1>2, <2>2 DEF Truthful
<1> QED
  BY <1>1, <1>2 DEF Truthful, Stamps, ShownIn

\* Likewise of everything that is held and asked, if neither changes.
LEMMA AllTruthIsKept ==
  ASSUME Inv, UNCHANGED <<held, pending>>, clock' \in Nat, clock <= clock',
         \A f \in Folders, r \in Regions :
           disk'[f][r] \in {disk[f][r], NoFile} \/ disk'[f][r].mtime = clock + 1
  PROVE RevisionsAreTruthful'
<1>1. ASSUME NEW t \in Tiles, held[t].since \notin {Cold, 0}
      PROVE Truthful(t, held[t].since, held[t].picture)'
  BY <1>1, TruthIsKept DEF Inv, RevisionsAreTruthful
<1>2. ASSUME NEW i \in 1..Len(pending), pending[i].since \notin {Cold, 0}
      PROVE /\ pending[i].thing \in Tiles
            /\ Truthful(pending[i].thing, pending[i].since, pending[i].picture)'
  BY <1>2, TruthIsKept DEF Inv, RevisionsAreTruthful
<1> QED
  BY <1>1, <1>2 DEF RevisionsAreTruthful

LEMMA InitHolds == Init => Inv
<1> SUFFICES ASSUME Init PROVE Inv
  OBVIOUS
<1>1. Nothing \in [{} -> Nat]
  BY DEF Nothing
<1>2. Nothing \in Pictures
  BY <1>1 DEF Pictures
<1>3. TypeOK
  <2>1. found \in BOOLEAN
    BY Zenon DEF Init
  <2>2. folder \in Folders
    BY DEF Init, Folders
  <2> QED
    BY <1>2, <2>1, <2>2 DEF Init, TypeOK, Files, Revisions
<1>4. TimesAreGivenOnce
  BY DEF Init, TimesAreGivenOnce, Folders
<1>5. RevisionsAreTruthful
  BY DEF Init, RevisionsAreTruthful
<1> QED
  BY <1>3, <1>4, <1>5 DEF Inv

LEMMA SaveKeeps ==
  ASSUME Inv, NEW f \in Folders, NEW c \in Chunks, NEW x \in Contents, Save(f, c, x)
  PROVE Inv'
<1> DEFINE r == RegionOf(c)
           table == disk[f][r].table
           index == LocationIndexOfGame(c)
           stored == [saved |-> clock + 1, content |-> x]
           table2 == [i \in DOMAIN table \union {index} |->
                        IF i = index THEN stored ELSE table[i]]
           file == [mtime |-> clock + 1, table |-> table2]
<1>1. r \in Regions /\ clock \in Nat /\ disk[f][r] \in Files
  BY RegionsCover DEF Inv, TypeOK
<1>2. /\ clock' = clock + 1 /\ disk' = [disk EXCEPT ![f][r] = file]
      /\ UNCHANGED <<beyond, held, pending, folder, found, answer>>
  BY DEF Save
<1>3. file \in Files
  <2>1. table \in Tables
    BY <1>1, NothingIsATable DEF Files, NoFile
  <2>2. PICK S \in SUBSET Int : table \in [S -> [saved : Nat, content : Contents]]
    BY <2>1 DEF Tables
  <2>3. index \in Int
    BY CorrectionsBounds DEF LocationIndexOfGame, ChunksPerMcaSide
  <2>4. stored \in [saved : Nat, content : Contents]
    BY <1>1
  <2>5. table2 \in [S \union {index} -> [saved : Nat, content : Contents]]
    BY <2>2, <2>4
  <2>6. table2 \in Tables
    <3>1. S \union {index} \in SUBSET Int
      BY <2>2, <2>3
    <3> HIDE DEF table2, index
    <3> QED
      BY <2>5, <3>1 DEF Tables
  <2> QED
    BY <1>1, <2>6 DEF Files
<1>4. TypeOK'
  <2> HIDE DEF file
  <2> QED
    BY <1>1, <1>2, <1>3 DEF Inv, TypeOK
<1>5. \A g \in Folders, q \in Regions :
        disk'[g][q] = IF g = f /\ q = r THEN file ELSE disk[g][q]
  <2> HIDE DEF file, r
  <2> QED
    BY <1>1, <1>2 DEF Inv, TypeOK
<1>6. TimesAreGivenOnce'
  <2>1. file.mtime = clock + 1
    OBVIOUS
  <2>2. \A g \in Folders, q \in Regions : disk[g][q].mtime \in 0..clock
    BY <1>1 DEF Inv, TimesAreGivenOnce, NoFile
  <2> HIDE DEF file, r
  <2> QED
    BY <1>1, <1>2, <1>5, <2>1, <2>2 DEF Inv, TimesAreGivenOnce, Folders
<1>7. RevisionsAreTruthful'
  <2>1. file.mtime = clock + 1
    OBVIOUS
  <2> HIDE DEF file, r
  <2> QED
    BY <1>1, <1>2, <1>5, <2>1, AllTruthIsKept
<1> QED
  BY <1>4, <1>6, <1>7 DEF Inv

LEMMA SaveBeyondKeeps ==
  ASSUME Inv, NEW d \in OtherDims, NEW c \in Chunks, SaveBeyond(d, c) PROVE Inv'
<1>1. clock' = clock + 1 /\ clock' \in Nat /\ UNCHANGED <<disk, held, pending>>
  BY DEF SaveBeyond, Inv, TypeOK
<1>2. TypeOK'
  BY DEF SaveBeyond, Inv, TypeOK
<1>3. TimesAreGivenOnce'
  BY <1>1 DEF Inv, TypeOK, TimesAreGivenOnce
<1>4. RevisionsAreTruthful'
  BY <1>1, AllTruthIsKept DEF Inv, TypeOK
<1> QED
  BY <1>2, <1>3, <1>4 DEF Inv

LEMMA RemoveKeeps ==
  ASSUME Inv, NEW f \in Folders, NEW r \in Regions, Remove(f, r) PROVE Inv'
<1>1. \A g \in Folders, q \in Regions :
        disk'[g][q] = IF g = f /\ q = r THEN NoFile ELSE disk[g][q]
  BY DEF Remove, Inv, TypeOK
<1>2. TypeOK'
  BY DEF Remove, Inv, TypeOK, Files
<1>3. TimesAreGivenOnce'
  BY <1>1 DEF Remove, Inv, TypeOK, TimesAreGivenOnce, Folders, NoFile
<1>4. RevisionsAreTruthful'
  BY <1>1, AllTruthIsKept DEF Remove, Inv, TypeOK
<1> QED
  BY <1>2, <1>3, <1>4 DEF Inv

\* What is known of an entry of a request that is well formed.
LEMMA AskedTyped ==
  ASSUME NEW q \in Requests, WellFormed(q)
  PROVE /\ q.entries \in Seq([x : Int, z : Int] \union
                             [x : Int, z : Int, min : Nat \X Nat, max : Nat \X Nat])
        /\ \A i \in DOMAIN q.entries :
             /\ Asked(q)[i] \in Things
             /\ Asked(q)[i].kind = "tiles" => Asked(q)[i] \in Tiles
<1>1. \A i \in DOMAIN q.entries : Asked(q)[i] \in Range(Asked(q))
  BY DEF Range, Asked
<1> QED
  BY <1>1, CorrectionsBounds DEF Things, Tiles

LEMMA RequestKeeps ==
  ASSUME Inv, NEW q \in Requests, NEW cold \in BOOLEAN, Request(q, cold) PROVE Inv'
<1>1. UNCHANGED <<disk, clock, beyond, held, folder, found, answer>>
  BY DEF Request
<1>2. Nothing \in Pictures
  <2>1. Nothing \in [{} -> Nat]
    BY DEF Nothing
  <2> QED
    BY <2>1 DEF Pictures
<1>3. CASE ~ WellFormed(q)
  <2>1. pending' = <<>>
    BY <1>3 DEF Request
  <2> QED
    BY <1>1, <2>1 DEF Inv, TypeOK, TimesAreGivenOnce, RevisionsAreTruthful, Truthful,
       Stamps, ShownIn
<1>4. CASE WellFormed(q)
  <2> DEFINE thing(i) == Asked(q)[i]
             entry(i) == [thing |-> thing(i), since |-> Since(thing(i), cold),
                          picture |-> IF thing(i).kind = "tiles"
                                        THEN held[thing(i)].picture ELSE Nothing]
  <2>1. pending' = [i \in DOMAIN q.entries |-> entry(i)]
    BY <1>4 DEF Request
  <2>2. ASSUME NEW i \in DOMAIN q.entries
        PROVE /\ entry(i) \in Questions
              /\ entry(i).since \notin {Cold, 0} =>
                   /\ thing(i) \in Tiles
                   /\ Truthful(thing(i), entry(i).since, entry(i).picture)
    <3>1. thing(i) \in Things /\ (thing(i).kind = "tiles" => thing(i) \in Tiles)
      BY <1>4, AskedTyped
    <3>2. thing(i) \in Tiles => thing(i).kind = "tiles"
      BY DEF Tiles
    <3> HIDE DEF thing
    <3>3. CASE thing(i).kind = "tiles"
      BY <3>1, <3>3 DEF Inv, TypeOK, Since, Questions, Revisions, RevisionsAreTruthful
    <3>4. CASE thing(i).kind # "tiles"
      BY <1>2, <3>1, <3>4 DEF Since, Questions, Revisions
    <3> QED
      BY <3>3, <3>4
  <2>3. DOMAIN q.entries = 1..Len(q.entries) /\ Len(q.entries) \in Nat
    BY <1>4, AskedTyped
  <2> HIDE DEF entry
  <2>4. pending' \in Seq(Questions) /\ Len(pending') = Len(q.entries)
    BY <2>1, <2>2, <2>3
  <2>5. TypeOK'
    BY <1>1, <2>4 DEF Inv, TypeOK
  <2>6. ASSUME NEW i \in 1..Len(pending'), pending'[i].since \notin {Cold, 0}
        PROVE /\ pending'[i].thing \in Tiles
              /\ Truthful(pending'[i].thing, pending'[i].since, pending'[i].picture)
    <3>1. pending'[i] = entry(i) /\ i \in DOMAIN q.entries
      BY <2>1, <2>3, <2>4
    <3>2. entry(i).thing = thing(i)
      BY DEF entry
    <3> QED
      BY <2>2, <2>6, <3>1, <3>2
  <2>7. RevisionsAreTruthful'
    BY <1>1, <2>6 DEF Inv, RevisionsAreTruthful, Truthful, Stamps, ShownIn
  <2>8. TimesAreGivenOnce'
    BY <1>1 DEF Inv, TimesAreGivenOnce
  <2> QED
    BY <2>5, <2>7, <2>8 DEF Inv
<1> QED
  BY <1>3, <1>4

\* The entry that is answered next.
LEMMA NextQuestion ==
  ASSUME Inv, pending # <<>>
  PROVE /\ Head(pending) = pending[1] /\ 1 \in 1..Len(pending)
        /\ Head(pending) \in Questions
        /\ Head(pending).since \notin {Cold, 0} =>
             /\ Head(pending).thing \in Tiles
             /\ Truthful(Head(pending).thing, Head(pending).since, Head(pending).picture)
<1>1. Head(pending) = pending[1] /\ 1 \in 1..Len(pending) /\ pending[1] \in Questions
  BY DEF Inv, TypeOK
<1> QED
  BY <1>1 DEF Inv, RevisionsAreTruthful

LEMMA TailIsShorter ==
  ASSUME NEW S, NEW s \in Seq(S), s # <<>> PROVE Tail(s) # s
<1>1. Len(Tail(s)) = Len(s) - 1 /\ Len(s) \in Nat
  BY HeadTailProperties
<1>2. ASSUME Tail(s) = s PROVE FALSE
  <2>1. Len(s) = Len(s) - 1
    BY <1>1, <1>2, Zenon
  <2> QED
    BY <1>1, <2>1
<1> QED
  BY <1>2, Zenon

\* What is left to answer is as true as before, if nothing was saved.
LEMMA RestIsTruthful ==
  ASSUME Inv, pending # <<>>, pending' = Tail(pending), UNCHANGED <<disk, clock>>
  PROVE /\ pending' \in Seq(Questions)
        /\ TimesAreGivenOnce'
        /\ \A i \in 1..Len(pending') : pending'[i].since \notin {Cold, 0} =>
             /\ pending'[i].thing \in Tiles
             /\ Truthful(pending'[i].thing, pending'[i].since, pending'[i].picture)
<1>1. /\ pending' \in Seq(Questions) /\ Len(pending') = Len(pending) - 1
      /\ \A i \in 1..Len(pending') : i + 1 \in 1..Len(pending) /\ pending'[i] = pending[i + 1]
  BY DEF Inv, TypeOK
<1>2. \A i \in 1..Len(pending') : pending'[i].since \notin {Cold, 0} =>
        /\ pending'[i].thing \in Tiles
        /\ Truthful(pending'[i].thing, pending'[i].since, pending'[i].picture)
  BY <1>1 DEF Inv, RevisionsAreTruthful
<1>3. TimesAreGivenOnce'
  BY DEF Inv, TimesAreGivenOnce
<1> QED
  BY <1>1, <1>2, <1>3

LEMMA AnsweredTyped ==
  ASSUME NEW mode \in {"unavailable", "absolute", "unchanged"}, NEW revision \in Nat,
         Answered(mode, revision)
  PROVE /\ pending' = Tail(pending) /\ folder' \in Folders /\ found' \in BOOLEAN
        /\ answer' \in [mode : {"none", "unavailable", "absolute", "unchanged"}, revision : Nat]
<1>1. pending' = Tail(pending) /\ folder' = 1 /\ found' = FALSE
  BY Zenon DEF Answered
<1>2. folder' \in Folders
  BY <1>1 DEF Folders
<1>3. found' \in BOOLEAN
  BY <1>1, Zenon
<1>4. answer' = [mode |-> mode, revision |-> revision]
  BY Zenon DEF Answered
<1>5. answer' \in [mode : {"none", "unavailable", "absolute", "unchanged"}, revision : Nat]
  BY <1>4
<1> QED
  BY <1>1, <1>2, <1>3, <1>5

LEMMA FindMcaPathKeeps ==
  ASSUME Inv, FindMcaPath PROVE Inv'
<1>1. pending # <<>> /\ UNCHANGED <<disk, clock, beyond, held>>
  BY DEF FindMcaPath
<1>2. CASE pending' = pending /\ UNCHANGED answer
  <2>1. folder' \in Folders /\ found' \in BOOLEAN
    <3>1. ~ Answered("unavailable", 0)
      <4>1. Tail(pending) # pending
        BY <1>1, TailIsShorter DEF Inv, TypeOK
      <4> QED
        BY <1>2, <4>1, Zenon DEF Answered
    <3>2. \/ found' = TRUE /\ folder' = folder
          \/ folder' = 2 /\ found' = found
      BY <3>1, Zenon DEF FindMcaPath
    <3>3. folder \in Folders /\ 2 \in Folders /\ found \in BOOLEAN
      BY DEF Inv, TypeOK, Folders
    <3> QED
      BY <3>2, <3>3, Zenon
  <2>2. TypeOK' /\ TimesAreGivenOnce'
    BY <1>1, <1>2, <2>1 DEF Inv, TypeOK, TimesAreGivenOnce
  <2>3. RevisionsAreTruthful'
    BY <1>1, <1>2 DEF Inv, RevisionsAreTruthful, Truthful, Stamps, ShownIn
  <2> QED
    BY <2>2, <2>3 DEF Inv
<1>3. CASE Answered("unavailable", 0)
  <2>1. pending' = Tail(pending) /\ folder' \in Folders /\ found' \in BOOLEAN
        /\ answer' \in [mode : {"none", "unavailable", "absolute", "unchanged"}, revision : Nat]
    BY <1>3, AnsweredTyped
  <2>2. TypeOK' /\ TimesAreGivenOnce'
    BY <1>1, <2>1, RestIsTruthful DEF Inv, TypeOK
  <2>3. \A t \in Tiles : held'[t].since \notin {Cold, 0} =>
          Truthful(t, held'[t].since, held'[t].picture)
    BY <1>1 DEF Inv, RevisionsAreTruthful
  <2>4. RevisionsAreTruthful'
    <3>1. \A i \in 1..Len(pending') : pending'[i].since \notin {Cold, 0} =>
            /\ pending'[i].thing \in Tiles
            /\ Truthful(pending'[i].thing, pending'[i].since, pending'[i].picture)
      BY <1>1, <2>1, RestIsTruthful
    <3> QED
      BY <1>1, <2>3, <3>1 DEF RevisionsAreTruthful, Truthful, Stamps, ShownIn
  <2> QED
    BY <2>2, <2>4 DEF Inv
<1> QED
  BY <1>2, <1>3 DEF FindMcaPath

LEMMA AnswerKeeps ==
  ASSUME Inv, NEW fails \in BOOLEAN, AnswerNext(fails) PROVE Inv'
<1> DEFINE entry == Head(pending)
           file == disk[folder][RegionFor(entry.thing)]
           mtime == IF fails THEN 0 ELSE file.mtime
           given == [since |-> mtime, picture |-> Picture(folder, entry.thing)]
<1>1. /\ pending # <<>> /\ UNCHANGED <<disk, clock, beyond>>
      /\ Answered(Mode(entry, mtime), mtime)
      /\ held' = IF Mode(entry, mtime) = "absolute"
                   THEN [held EXCEPT ![entry.thing] = given] ELSE held
  BY DEF AnswerNext
<1>2. entry \in Questions /\ entry.thing \in Things
  BY <1>1, NextQuestion DEF Questions
<1>3. folder \in Folders /\ file \in Files /\ mtime \in Nat
  BY <1>2, RegionsCover DEF Inv, TypeOK, Files, NoFile
<1>4. Mode(entry, mtime) \in {"absolute", "unchanged"}
  BY DEF Mode
<1>5. /\ pending' = Tail(pending) /\ folder' \in Folders /\ found' \in BOOLEAN
      /\ answer' \in [mode : {"none", "unavailable", "absolute", "unchanged"}, revision : Nat]
  <2> HIDE DEF entry, mtime
  <2> QED
    BY <1>1, <1>3, <1>4, AnsweredTyped
<1>6. Mode(entry, mtime) = "absolute" =>
        entry.thing \in Tiles /\ given \in [since : Revisions, picture : Pictures]
  <2>1. Mode(entry, mtime) = "absolute" => entry.thing \in Tiles
    BY <1>2 DEF Mode, Tiles
  <2>2. entry.thing \in Tiles => Picture(folder, entry.thing) \in Pictures
    BY <1>3, PictureTyped DEF Inv
  <2> HIDE DEF entry, mtime
  <2> QED
    BY <1>3, <2>1, <2>2 DEF Revisions
<1>7. TypeOK'
  <2>1. held' \in [Tiles -> [since : Revisions, picture : Pictures]]
    <3> HIDE DEF given, entry, mtime
    <3> QED
      BY <1>1, <1>6 DEF Inv, TypeOK
  <2> HIDE DEF entry, mtime, given
  <2> QED
    BY <1>1, <1>5, <2>1, RestIsTruthful DEF Inv, TypeOK
<1>8. ASSUME Mode(entry, mtime) = "absolute", given.since # 0
      PROVE Truthful(entry.thing, given.since, given.picture)
  <2>1. file # NoFile /\ mtime = file.mtime /\ entry.thing \in Tiles
    BY <1>6, <1>8 DEF NoFile
  <2>2. /\ RegionFor(entry.thing) = RegionOfTile(entry.thing)
        /\ RegionOfTile(entry.thing) \in Regions
    BY <2>1, RegionsCover
  <2>3. mtime \in 1..clock
    BY <1>3, <2>1, <2>2 DEF Inv, TimesAreGivenOnce
  <2>4. ASSUME NEW g \in Folders, disk[g][RegionOfTile(entry.thing)].mtime = mtime
        PROVE disk[g][RegionOfTile(entry.thing)] = file
    BY <1>3, <2>1, <2>2, <2>3, <2>4 DEF Inv, TimesAreGivenOnce, Folders, NoFile
  <2>5. OneFile(entry.thing) /\ entry.thing.dim = Overworld =>
          Picture(folder, entry.thing) = Stamps(file, entry.thing)
    BY <1>3, <2>1, <2>2, PictureOfOneFile
  <2> HIDE DEF entry, file, mtime
  <2> QED
    BY <2>3, <2>4, <2>5 DEF Truthful
<1>9. ASSUME NEW t \in Tiles, held'[t].since \notin {Cold, 0}
      PROVE Truthful(t, held'[t].since, held'[t].picture)
  <2> HIDE DEF entry, file, mtime, given
  <2>1. CASE Mode(entry, mtime) = "absolute" /\ t = entry.thing
    <3>1. held'[t] = given
      BY <1>1, <2>1 DEF Inv, TypeOK
    <3> QED
      BY <1>8, <1>9, <2>1, <3>1
  <2>2. CASE ~ (Mode(entry, mtime) = "absolute" /\ t = entry.thing)
    <3>1. held'[t] = held[t]
      BY <1>1, <2>2 DEF Inv, TypeOK
    <3> QED
      BY <1>9, <3>1 DEF Inv, RevisionsAreTruthful
  <2> QED
    BY <2>1, <2>2
<1>10. RevisionsAreTruthful' /\ TimesAreGivenOnce'
  <2>1. /\ TimesAreGivenOnce'
        /\ \A i \in 1..Len(pending') : pending'[i].since \notin {Cold, 0} =>
             /\ pending'[i].thing \in Tiles
             /\ Truthful(pending'[i].thing, pending'[i].since, pending'[i].picture)
    BY <1>1, <1>5, RestIsTruthful
  <2> HIDE DEF entry, file, mtime, given
  <2> QED
    BY <1>1, <1>9, <2>1 DEF RevisionsAreTruthful, Truthful, Stamps, ShownIn
<1> QED
  BY <1>7, <1>10 DEF Inv

LEMMA StepKeeps == Inv /\ [Next]_vars => Inv'
<1> SUFFICES ASSUME Inv, [Next]_vars PROVE Inv'
  OBVIOUS
<1>1. CASE \E f \in Folders, c \in Chunks, x \in Contents : Save(f, c, x)
  BY <1>1, SaveKeeps
<1>2. CASE \E f \in Folders, r \in Regions : Remove(f, r)
  BY <1>2, RemoveKeeps
<1>6. CASE \E d \in OtherDims, c \in Chunks : SaveBeyond(d, c)
  BY <1>6, SaveBeyondKeeps
<1>7. CASE FindMcaPath
  BY <1>7, FindMcaPathKeeps
<1>3. CASE \E q \in Requests, cold \in BOOLEAN : Request(q, cold)
  BY <1>3, RequestKeeps
<1>4. CASE \E fails \in BOOLEAN : AnswerNext(fails)
  BY <1>4, AnswerKeeps
<1>5. CASE UNCHANGED vars
  <2>1. TypeOK' /\ TimesAreGivenOnce'
    BY <1>5 DEF vars, Inv, TypeOK, TimesAreGivenOnce
  <2>2. \A t, since, picture :
          Truthful(t, since, picture)' <=> Truthful(t, since, picture)
    BY <1>5 DEF vars, Truthful, Stamps, ShownIn
  <2>3. RevisionsAreTruthful'
    BY <1>5, <2>2 DEF vars, Inv, RevisionsAreTruthful
  <2> QED
    BY <2>1, <2>3 DEF Inv
<1> QED
  BY <1>1, <1>2, <1>3, <1>4, <1>5, <1>6, <1>7 DEF Next

\* The variables keep their kinds, and what a client holds under a revision that is
\* a time is what the file that still has that modification time shows, of the
\* dimension the folders are of: Save, SaveBeyond, Remove, Request, FindMcaPath and
\* AnswerNext, for every world, request and number of saves.
THEOREM RevisionsMeanTheFile == Spec => []Inv
  BY InitHolds, StepKeeps, PTL DEF Spec

(***************************************************************************)
(* The answers.                                                            *)
(***************************************************************************)
LEMMA UnchangedStep ==
  ASSUME Inv, [Next]_vars, ToldUnchanged, OneFile(Asking.thing),
         Asking.thing.dim = Overworld, Asking.since # 0
  PROVE HeldWhatIsThere
<1> DEFINE entry == Head(pending)
           file == disk[folder][RegionFor(entry.thing)]
<1>1. pending # <<>> /\ pending' = Tail(pending) /\ answer'.mode = "unchanged"
  BY DEF ToldUnchanged
<1>2. pending' # pending
  BY <1>1, TailIsShorter DEF Inv, TypeOK
<1>3. PICK fails \in BOOLEAN : AnswerNext(fails)
  <2>1. ~ FindMcaPath
    BY <1>1, <1>2 DEF FindMcaPath, Answered
  <2> QED
    BY <1>1, <1>2, <2>1 DEF Next, vars, Save, SaveBeyond, Remove, Request
<1>4. PICK mtime : mtime = (IF fails THEN 0 ELSE file.mtime) /\ Mode(entry, mtime) = "unchanged"
  BY <1>1, <1>3 DEF AnswerNext, Answered
<1>5. entry.since # Cold /\ entry.since = mtime /\ mtime # 0 /\ entry.since = file.mtime
  BY <1>4 DEF Mode, ToldUnchanged, Asking
<1>6. entry.thing \in Tiles /\ Truthful(entry.thing, entry.since, entry.picture)
  BY <1>1, <1>5, NextQuestion
<1>7. /\ RegionFor(entry.thing) = RegionOfTile(entry.thing)
      /\ RegionOfTile(entry.thing) \in Regions /\ folder \in Folders
  BY <1>6, RegionsCover DEF Inv, TypeOK
<1>8. entry.picture = Stamps(file, entry.thing)
  BY <1>5, <1>6, <1>7 DEF Truthful, Asking
<1> QED
  BY <1>5, <1>6, <1>7, <1>8, PictureOfOneFile DEF HeldWhatIsThere, Asking

\* Whoever is told that a tile of one file is unchanged held what the file that
\* answers shows there, if it is a tile of the dimension the folders are of and the
\* revision is a time: the answers to MSG_MAP_VIEW_REQ_C2S of mod.rs, with any
\* saves and removals between the look-up, the answer and the next request.
THEOREM UnchangedTilesAreTrue == Spec => UnchangedIsTrue
<1>1. Inv /\ [Next]_vars =>
        (/\ ToldUnchanged /\ OneFile(Asking.thing)
         /\ Asking.thing.dim = Overworld /\ Asking.since # 0
         => HeldWhatIsThere)
  BY UnchangedStep
<1> QED
  BY <1>1, RevisionsMeanTheFile, PTL DEF Spec, UnchangedIsTrue

(***************************************************************************)
(* The scanner.                                                            *)
(***************************************************************************)
\* A chunk's place in its region, and back.
LEMMA PlaceOf ==
  ASSUME NEW n \in Int
  PROVE  /\ n \div 32 \in Int /\ n % 32 \in 0..31
         /\ n = 32 * (n \div 32) + (n % 32)
BY Z3

LEMMA InColumn ==
  ASSUME NEW n \in Int, NEW k \in 0..31
  PROVE  (32 * n + k) \div 32 = n
BY Z3

\* location_table_index finds an entry where the game puts it, and no two chunks of
\* a region have one place.
LEMMA OnePlace ==
  ASSUME NEW c \in Int \X Int
  PROVE  /\ LocationIndex(c) = LocationIndexOfGame(c)
         /\ LocationIndexOfGame(c) \in Int
         /\ \A d \in Int \X Int :
              /\ RegionOf(c) = RegionOf(d)
              /\ LocationIndexOfGame(c) = LocationIndexOfGame(d)
              => c = d
<1>1. /\ c[1] % 32 \in 0..31 /\ c[2] % 32 \in 0..31
      /\ c[1] = 32 * (c[1] \div 32) + (c[1] % 32)
      /\ c[2] = 32 * (c[2] \div 32) + (c[2] % 32)
  BY PlaceOf
<1>2. /\ LocationIndex(c) = (c[2] % 32) * 32 + (c[1] % 32)
      /\ LocationIndexOfGame(c) = (c[1] % 32) + 32 * (c[2] % 32)
  BY DEF LocationIndex, LocationIndexOfGame, ChunksPerMcaSide
<1>3. LocationIndex(c) = LocationIndexOfGame(c) /\ LocationIndexOfGame(c) \in Int
  BY <1>1, <1>2
<1>4. ASSUME NEW d \in Int \X Int, RegionOf(c) = RegionOf(d),
             LocationIndexOfGame(c) = LocationIndexOfGame(d)
      PROVE  c = d
  <2>1. /\ d[1] % 32 \in 0..31 /\ d[2] % 32 \in 0..31
        /\ d[1] = 32 * (d[1] \div 32) + (d[1] % 32)
        /\ d[2] = 32 * (d[2] \div 32) + (d[2] % 32)
    BY PlaceOf
  <2>2. LocationIndexOfGame(d) = (d[1] % 32) + 32 * (d[2] % 32)
    BY DEF LocationIndexOfGame, ChunksPerMcaSide
  <2>3. c[1] % 32 = d[1] % 32 /\ c[2] % 32 = d[2] % 32
    <3>1. ASSUME NEW i \in 0..31, NEW j \in 0..31, NEW k \in 0..31, NEW l \in 0..31,
                 i + 32 * j = k + 32 * l
          PROVE  i = k /\ j = l
      BY <3>1
    <3>2. PICK i \in 0..31, j \in 0..31 : i = c[1] % 32 /\ j = c[2] % 32
      BY <1>1
    <3>3. PICK k \in 0..31, l \in 0..31 : k = d[1] % 32 /\ l = d[2] % 32
      BY <2>1
    <3>4. i + 32 * j = k + 32 * l
      BY <1>2, <1>4, <2>2, <3>2, <3>3
    <3>5. i = k /\ j = l
      BY <3>1, <3>4
    <3> QED BY <3>2, <3>3, <3>5
  <2>4. c[1] \div 32 = d[1] \div 32 /\ c[2] \div 32 = d[2] \div 32
    BY <1>4 DEF RegionOf, ChunksPerMcaSide
  <2>5. c[1] = d[1] /\ c[2] = d[2]
    BY <1>1, <2>1, <2>3, <2>4
  <2> QED BY <2>5
<1> QED BY <1>3, <1>4

\* The chunks the scan of a file goes through are those of its region.
LEMMA ChunksOfFacts ==
  ASSUME NEW region \in Int \X Int
  PROVE  \A c : c \in ChunksOf(region) <=> c \in Int \X Int /\ RegionOf(c) = region
<1>1. PICK left \in Int, top \in Int : left = region[1] * 32 /\ top = region[2] * 32
  OBVIOUS
<1>2. ChunksOf(region) = {<<left + x, top + z>> : x, z \in 0..31}
  <2>1. ChunksPerMcaSide = 32 /\ 0..(ChunksPerMcaSide - 1) = 0..31
    BY DEF ChunksPerMcaSide
  <2> QED BY <1>1, <2>1 DEF ChunksOf
<1>3. ASSUME NEW c \in ChunksOf(region) PROVE c \in Int \X Int /\ RegionOf(c) = region
  <2>1. PICK x \in 0..31, z \in 0..31 : c = <<left + x, top + z>>
    <3>1. c \in {<<left + x, top + z>> : x, z \in 0..31}
      BY <1>2
    <3> QED BY <3>1, Z3
  <2>2. c[1] = 32 * region[1] + x /\ c[2] = 32 * region[2] + z
    BY <1>1, <2>1
  <2>3. c[1] \div 32 = region[1] /\ c[2] \div 32 = region[2]
    <3>1. /\ (32 * region[1] + x) \div 32 = region[1]
          /\ (32 * region[2] + z) \div 32 = region[2]
      BY InColumn
    <3> QED BY <2>2, <3>1
  <2> QED BY <2>1, <2>3 DEF RegionOf, ChunksPerMcaSide
<1>4. ASSUME NEW c \in Int \X Int, RegionOf(c) = region PROVE c \in ChunksOf(region)
  <2>1. c[1] \div 32 = region[1] /\ c[2] \div 32 = region[2]
    BY <1>4 DEF RegionOf, ChunksPerMcaSide
  <2>2. /\ c[1] % 32 \in 0..31 /\ c[2] % 32 \in 0..31
        /\ c[1] = 32 * region[1] + (c[1] % 32) /\ c[2] = 32 * region[2] + (c[2] % 32)
    BY <2>1, PlaceOf
  <2>3. PICK x \in 0..31, z \in 0..31 : x = c[1] % 32 /\ z = c[2] % 32
    BY <2>2
  <2>4. c[1] = left + x /\ c[2] = top + z
    BY <1>1, <2>2, <2>3
  <2>5. c = <<c[1], c[2]>>
    OBVIOUS
  <2>6. c = <<left + x, top + z>>
    BY <2>4, <2>5, Zenon
  <2> QED BY <1>2, <2>6
<1> QED BY <1>3, <1>4

\* read_location_entry and read_chunk_from_file read what is whole as it is, and of
\* anything else say that it is not there or that they failed.
LEMMA ReadChunkFacts ==
  ASSUME NEW x \in Contents, NEW c \in Int \X Int, NEW mtime \in 0..MaxTime
  PROVE  /\ x.sound =>
              /\ Allocated(x)
              /\ ReadChunk(c, x, mtime) =
                   [chunk |-> c,
                    says |-> [mtime |-> IF x.updated = 0 THEN mtime ELSE x.updated,
                              generated |-> x.finished]]
              /\ ReadChunk(c, x, mtime) \in Summaries
         /\ ~x.sound => ~Allocated(x) \/ ReadChunk(c, x, mtime) \in {NotPresent, Failure}
<1>1. /\ x.offset \in Nat /\ x.reach \in Nat /\ x.length \in Nat
      /\ x.sectors \in 0..255 /\ x.updated \in Int /\ x.finished \in BOOLEAN
  BY ContentsAreAsDescribed
<1>2. x.sound <=>
        /\ x.offset >= 2 /\ x.sectors >= 1
        /\ x.length \in 1..(x.sectors * SectorBytes) /\ x.length + 4 <= x.reach
        /\ (x.scheme % 128) \in {1, 2, 3}
        /\ x.nbt.type # "garbage"
  BY ContentsAreAsDescribed
<1>3. x.length <= x.sectors * SectorBytes => x.length - 1 <= MaxInlineChunkBytes
  BY <1>1 DEF SectorBytes, MaxInlineChunkBytes
<1>4. Allocated(x) <=> x.offset >= 2 /\ x.sectors >= 1
  BY <1>1 DEF Allocated
<1>5. Intact(x) <=> /\ x.length <= x.sectors * SectorBytes /\ x.length + 4 <= x.reach
                    /\ (x.scheme % 128) \in {1, 2, 3}
                    /\ x.nbt.type # "garbage"
  BY <1>3 DEF Intact
<1>6. x.sound <=> Allocated(x) /\ x.length > 0 /\ Intact(x)
  <2>1. x.length \in 1..(x.sectors * SectorBytes) <=>
          x.length > 0 /\ x.length <= x.sectors * SectorBytes
    BY <1>1 DEF SectorBytes
  <2> QED BY <1>2, <1>4, <1>5, <2>1
<1>7. x.length > 0 /\ Intact(x) => x.reach >= 5
  BY <1>1, <1>5
<1>8. ASSUME x.sound
      PROVE  ReadChunk(c, x, mtime) =
               [chunk |-> c,
                says |-> [mtime |-> IF x.updated = 0 THEN mtime ELSE x.updated,
                          generated |-> x.finished]]
  <2>1. ReadChunk(c, x, mtime) = [chunk |-> c, says |-> ExtractChunkStatus(x.nbt, mtime)]
    BY <1>1, <1>6, <1>7, <1>8 DEF ReadChunk
  <2> QED BY <1>8, <2>1, ContentsAreAsDescribed
<1>9. ASSUME x.sound PROVE ReadChunk(c, x, mtime) \in Summaries
  <2>1. (IF x.updated = 0 THEN mtime ELSE x.updated) \in Int
    BY <1>1
  <2> QED BY <1>1, <1>8, <1>9, <2>1 DEF Summaries
<1>10. ASSUME ~x.sound, Allocated(x) PROVE ReadChunk(c, x, mtime) \in {NotPresent, Failure}
  <2>1. ~(x.length > 0 /\ Intact(x))
    BY <1>6, <1>10
  <2> QED BY <2>1 DEF ReadChunk
<1> QED BY <1>6, <1>8, <1>9, <1>10

\* A file holds chunks of its own region, each where the game puts it, and is as
\* old as a save that was.
FilesAreOfTheirRegion ==
  /\ clock <= MaxTime
  /\ \A f \in Folders, r \in Regions : \A i \in DOMAIN disk[f][r].table :
       \E c \in Chunks : RegionOf(c) = r /\ LocationIndexOfGame(c) = i

LEMMA FilesStayOfTheirRegion ==
  ASSUME Inv, FilesAreOfTheirRegion, [Next]_vars
  PROVE  FilesAreOfTheirRegion'
<1>1. ASSUME NEW f \in Folders, NEW c \in Chunks, NEW x \in Contents, Save(f, c, x)
      PROVE  FilesAreOfTheirRegion'
  <2> DEFINE r == RegionOf(c)
             index == LocationIndexOfGame(c)
  <2>1. clock' <= MaxTime
    BY <1>1, CorrectionsNumbers DEF Save, Inv, TypeOK
  <2>2. /\ disk' = [disk EXCEPT ![f][r] = disk'[f][r]]
        /\ DOMAIN disk'[f][r].table = DOMAIN disk[f][r].table \union {index}
    <3>1. r \in Regions
      BY RegionsCover
    <3> HIDE DEF r, index
    <3>2. disk' = [disk EXCEPT ![f][r] =
                     [mtime |-> clock + 1,
                      table |-> [i \in DOMAIN disk[f][r].table \union {index} |->
                                   IF i = index THEN [saved |-> clock + 1, content |-> x]
                                                ELSE disk[f][r].table[i]]]]
      BY <1>1 DEF Save, r, index
    <3> QED BY <3>1, <3>2 DEF Inv, TypeOK
  <2>3. ASSUME NEW g \in Folders, NEW q \in Regions, NEW i \in DOMAIN disk'[g][q].table
        PROVE  \E d \in Chunks : RegionOf(d) = q /\ LocationIndexOfGame(d) = i
    <3>1. CASE g = f /\ q = r
      BY <2>2, <2>3, <3>1 DEF FilesAreOfTheirRegion
    <3>2. CASE ~(g = f /\ q = r)
      <4>1. disk'[g][q] = disk[g][q]
        <5> HIDE DEF r
        <5> QED BY <2>2, <3>2 DEF Inv, TypeOK
      <4> QED BY <2>3, <4>1 DEF FilesAreOfTheirRegion
    <3> QED BY <3>1, <3>2
  <2> QED BY <2>1, <2>3 DEF FilesAreOfTheirRegion
<1>2. ASSUME NEW f \in Folders, NEW r \in Regions, Remove(f, r)
      PROVE  FilesAreOfTheirRegion'
  <2>1. \A g \in Folders, q \in Regions :
          disk'[g][q] = IF g = f /\ q = r THEN NoFile ELSE disk[g][q]
    BY <1>2 DEF Remove, Inv, TypeOK
  <2>2. DOMAIN NoFile.table = {}
    BY DEF NoFile, Nothing
  <2>3. clock' = clock
    BY <1>2 DEF Remove
  <2> QED BY <2>1, <2>2, <2>3 DEF FilesAreOfTheirRegion
<1>3. CASE UNCHANGED disk /\ (clock' = clock \/ (clock < MaxTime /\ clock' = clock + 1))
  BY <1>3, CorrectionsNumbers DEF FilesAreOfTheirRegion, Inv, TypeOK
<1> QED BY <1>1, <1>2, <1>3 DEF Next, SaveBeyond, Request, FindMcaPath, AnswerNext, vars

\* The chunks of c's region that its file has, and those that are sound in it.
FileOf(c) == FindMca(RegionOf(c))
SavedWith(c) ==
  {d \in Chunks : RegionOf(d) = RegionOf(c)
                    /\ LocationIndexOfGame(d) \in DOMAIN FileOf(c).table}
SoundWith(c) ==
  {d \in SavedWith(c) : FileOf(c).table[LocationIndexOfGame(d)].content.sound}

\* What both scans give of a region's file.
LEMMA ScansOfFile ==
  ASSUME Inv, FilesAreOfTheirRegion, NEW c \in Chunks, FileOf(c) # NoFile
  PROVE  /\ c \in SoundWith(c) => ScanChunk(c) = SavedAs(c)
         /\ c \notin SoundWith(c) => ScanChunk(c) \in {NotPresent, Failure}
         /\ SavedWith(c) = SoundWith(c) =>
              ScanMcaFile(FileOf(c), RegionOf(c)) = {SavedAs(d) : d \in SoundWith(c)}
<1> PICK file : file = FileOf(c)
  OBVIOUS
<1>a. file = FindMca(RegionOf(c)) /\ file # NoFile
  BY DEF FileOf
<1>b. \A d : d \in SavedWith(c) <=> /\ d \in Chunks /\ RegionOf(d) = RegionOf(c)
                                  /\ LocationIndexOfGame(d) \in DOMAIN file.table
  BY DEF SavedWith
<1>c. \A d : d \in SoundWith(c) <=> /\ d \in SavedWith(c)
                                  /\ file.table[LocationIndexOfGame(d)].content.sound
  BY DEF SoundWith
<1> PICK saved : saved = SavedWith(c)
  OBVIOUS
<1> PICK sound : sound = SoundWith(c)
  OBVIOUS
<1> USE <1>a, <1>b, <1>c
<1> DEFINE Content(d) == file.table[LocationIndexOfGame(d)].content
           Given(d) == ReadChunk(d, Content(d), file.mtime)
<1>1. PICK region : region = RegionOf(c)
  OBVIOUS
<1>2. Chunks \subseteq Int \X Int
  BY CorrectionsBounds
<1>3. region \in Regions /\ region \in Int \X Int
  <2>1. c[1] \div 32 \in Int /\ c[2] \div 32 \in Int
    BY <1>2, PlaceOf
  <2> QED BY <1>1, <2>1, RegionsCover DEF RegionOf, ChunksPerMcaSide
<1>4. PICK f \in Folders : file = disk[f][region]
  BY <1>1, <1>3, FindMcaGives DEF Inv
<1>5. file.mtime \in 0..MaxTime
  BY <1>3, <1>4, CorrectionsNumbers
  DEF Inv, TypeOK, TimesAreGivenOnce, FilesAreOfTheirRegion
<1>6. \A i \in DOMAIN file.table : file.table[i].content \in Contents
  <2>1. file \in [mtime : Nat, table : Tables]
    BY <1>1, <1>3, FindMcaGives DEF Inv, Files
  <2>2. PICK S \in SUBSET Int : file.table \in [S -> [saved : Nat, content : Contents]]
    BY <2>1 DEF Tables
  <2> QED BY <2>2
<1>7. ASSUME NEW d \in Int \X Int, RegionOf(d) = region,
             LocationIndexOfGame(d) \in DOMAIN file.table
      PROVE  d \in saved
  <2>1. PICK e \in Chunks : RegionOf(e) = region /\ LocationIndexOfGame(e) = LocationIndexOfGame(d)
    BY <1>3, <1>4, <1>7 DEF FilesAreOfTheirRegion
  <2>2. d = e
    BY <1>2, <1>7, <2>1, OnePlace
  <2> QED BY <1>1, <1>7, <2>1, <2>2
<1>8. \A d \in saved : d \in Chunks /\ d \in Int \X Int /\ RegionOf(d) = region
                       /\ LocationIndexOfGame(d) \in DOMAIN file.table
                       /\ LocationIndex(d) = LocationIndexOfGame(d)
                       /\ Content(d) \in Contents
  BY <1>1, <1>2, <1>6, OnePlace
<1>9. ASSUME NEW d \in sound
      PROVE  Allocated(Content(d)) /\ Given(d) = SavedAs(d) /\ Given(d) \in Summaries
  <2>1. d \in saved /\ Content(d).sound
    OBVIOUS
  <2>2. FindMca(RegionOf(d)) = file
    BY <1>1, <1>8, <2>1
  <2>3. SavedAs(d) = [chunk |-> d,
                      says |-> [mtime |-> IF Content(d).updated = 0 THEN file.mtime
                                          ELSE Content(d).updated,
                                generated |-> Content(d).finished]]
    BY <2>2 DEF SavedAs
  <2>4. PICK x \in Contents : x = Content(d)
    BY <1>8, <2>1
  <2>5. PICK m \in 0..MaxTime : m = file.mtime
    BY <1>5
  <2> HIDE DEF Content
  <2> QED BY <1>8, <2>1, <2>3, <2>4, <2>5, ReadChunkFacts
<1>10. ASSUME NEW d \in saved, d \notin sound
       PROVE  ~Allocated(Content(d)) \/ Given(d) \in {NotPresent, Failure}
  <2>1. PICK x \in Contents : x = Content(d)
    BY <1>8
  <2>2. PICK m \in 0..MaxTime : m = file.mtime
    BY <1>5
  <2>3. ~Content(d).sound
    BY <1>10
  <2> HIDE DEF Content
  <2> QED BY <1>8, <2>1, <2>2, <2>3, ReadChunkFacts
<1>11. ScanChunk(c) = IF c \notin saved THEN NotPresent
                      ELSE IF ~Allocated(Content(c)) THEN NotPresent ELSE Given(c)
  <2>1. c \in saved <=> LocationIndexOfGame(c) \in DOMAIN file.table
    OBVIOUS
  <2>2. LocationIndex(c) = LocationIndexOfGame(c)
    BY <1>2, OnePlace
  <2> QED BY <2>1, <2>2 DEF ScanChunk
<1>12. c \in sound => ScanChunk(c) = SavedAs(c)
  <2> HIDE DEF Content, Given
  <2> QED BY <1>9, <1>11
<1>13. c \notin sound => ScanChunk(c) \in {NotPresent, Failure}
  <2> HIDE DEF Content, Given
  <2> QED BY <1>10, <1>11
<1>14. ASSUME saved = sound
       PROVE  ScanMcaFile(file, RegionOf(c)) = {SavedAs(d) : d \in sound}
  <2> DEFINE listed == {d \in ChunksOf(region) :
                          /\ LocationIndex(d) \in DOMAIN file.table
                          /\ Allocated(file.table[LocationIndex(d)].content)}
             read == {ReadChunk(d, file.table[LocationIndex(d)].content, file.mtime) : d \in listed}
  <2>1. ASSUME NEW d \in listed PROVE d \in saved
    <3>1. d \in Int \X Int /\ RegionOf(d) = region
      BY <1>3, ChunksOfFacts
    <3>2. LocationIndexOfGame(d) \in DOMAIN file.table
      BY <3>1, OnePlace
    <3> QED BY <3>1, <3>2, <1>7
  <2>2. ASSUME NEW d \in saved PROVE d \in listed
    <3>1. d \in ChunksOf(region)
      BY <1>3, <1>8, ChunksOfFacts
    <3>2. Allocated(Content(d))
      <4> HIDE DEF Content, Given
      <4> QED BY <1>9, <1>14
    <3> QED BY <1>8, <3>1, <3>2
  <2>3. listed = sound
    <3> HIDE DEF listed
    <3> QED BY <2>1, <2>2, <1>14
  <2>4. \A d \in sound : ReadChunk(d, file.table[LocationIndex(d)].content, file.mtime) = SavedAs(d)
    <3>1. \A d \in sound : LocationIndex(d) = LocationIndexOfGame(d)
      BY <1>8
    <3>2. \A d \in sound : Given(d) = SavedAs(d)
      <4> HIDE DEF Content, Given
      <4> QED BY <1>9
    <3> QED BY <3>1, <3>2
  <2>5. read = {SavedAs(d) : d \in sound}
    <3> HIDE DEF listed
    <3> QED BY <2>3, <2>4
  <2>6. Failure \notin read /\ NotPresent \notin read
    <3>1. \A d \in sound : SavedAs(d) \in Summaries
      <4> HIDE DEF Content, Given
      <4> QED BY <1>9
    <3> HIDE DEF read
    <3> QED BY <2>5, <3>1, ErrorsAreNoSummaries
  <2>7. ScanMcaFile(file, region) = IF Failure \in read THEN Failure ELSE read \ {NotPresent}
    BY DEF ScanMcaFile
  <2> HIDE DEF read
  <2> QED BY <1>1, <2>5, <2>6, <2>7
<1> QED BY <1>12, <1>13, <1>14

\* scan_chunk and scan_mca_file give of every chunk what the game saved of it, at
\* any coordinates and after any saves and removals, and of one that is damaged or
\* missing no more than that.
THEOREM ScansAreTrue == Spec => []ScansTellTheWorld
<1>1. Init => FilesAreOfTheirRegion
  <2> SUFFICES ASSUME Init PROVE FilesAreOfTheirRegion
    OBVIOUS
  <2>1. DOMAIN NoFile.table = {}
    BY DEF NoFile, Nothing
  <2> QED BY <2>1, CorrectionsNumbers DEF Init, FilesAreOfTheirRegion
<1>2. Inv /\ FilesAreOfTheirRegion => ScansTellTheWorld
  <2> SUFFICES ASSUME Inv, FilesAreOfTheirRegion PROVE ScansTellTheWorld
    OBVIOUS
  <2>1. ASSUME NEW c \in Chunks, FileOf(c) # NoFile
        PROVE  /\ c \in SoundWith(c) => ScanChunk(c) = SavedAs(c)
               /\ c \notin SoundWith(c) => ScanChunk(c) \in {NotPresent, Failure}
               /\ SavedWith(c) = SoundWith(c) =>
                    ScanMcaFile(FileOf(c), RegionOf(c)) = {SavedAs(d) : d \in SoundWith(c)}
    BY <2>1, ScansOfFile
  <2> QED BY <2>1, Zenon DEF ScansTellTheWorld, FileOf, SavedWith, SoundWith
<1> QED BY <1>1, <1>2, FilesStayOfTheirRegion, RevisionsMeanTheFile, PTL DEF Spec
=============================================================================
