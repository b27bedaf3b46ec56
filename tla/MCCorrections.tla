----------------------------- MODULE MCCorrections -----------------------------
(***************************************************************************)
(* Small instances of Corrections: an i32 of eight bits, chunks on both    *)
(* sides of the origin, of a region's border and at the far end.           *)
(***************************************************************************)
EXTENDS Corrections, TLC

CONSTANTS cold, notPresent, failure

MCChunks == {<<-1, 0>>, <<-3, 1>>, <<31, -2>>}

Compound(map) == [type |-> "compound", map |-> map]
Text(s) == [type |-> "string", is |-> s]
Number(n) == [type |-> "number", is |-> n]

\* A chunk in the current layout, one in that of old worlds, whose data gives no
\* time and misplaces a key, one that is being cleared, and one whose scheme the
\* scanner does not read.
Modern ==
  [offset |-> 2, sectors |-> 1, reach |-> 8192, length |-> 4096, scheme |-> 2,
   nbt |-> Compound("Status" :> Text("minecraft:full") @@ "LastUpdate" :> Number(77)),
   sound |-> TRUE, finished |-> TRUE, updated |-> 77]
Old ==
  [offset |-> 3, sectors |-> 2, reach |-> 8192, length |-> 4097, scheme |-> 1,
   nbt |-> Compound("Status" :> Text("full") @@
                    "Level" :> Compound("Status" :> Number(1) @@ "status" :> Text("features"))),
   sound |-> TRUE, finished |-> FALSE, updated |-> 0]
Cleared == [Modern EXCEPT !.length = 0, !.sound = FALSE]
Foreign == [Modern EXCEPT !.scheme = 4, !.sound = FALSE]
MCContents == {Modern, Old, Cleared, Foreign}

Tile(x, z) == [x |-> x, z |-> z]
Page(x, z, max) == [x |-> x, z |-> z, min |-> <<0, 0>>, max |-> max]
TileRequest(dim, lod, entries) ==
  [kind |-> "tiles", dim |-> dim, lod |-> lod, left |-> 0, entries |-> entries]
PageRequest(entries) ==
  [kind |-> "pages", dim |-> 0, lod |-> 0, left |-> 0, entries |-> entries]

\* A tile of the world, twice in one request; one of another dimension, whose first
\* chunk wraps; a page; and requests that do not parse.
MCRequests ==
  {TileRequest(0, 1, <<Tile(-1, 0), Tile(-1, 0)>>),
   TileRequest(1, 4, <<Tile(2, 0)>>),
   PageRequest(<<Page(-1, 0, <<15, 15>>)>>),
   TileRequest(0, 5, <<Tile(0, 0)>>),
   TileRequest(0, 0, <<Tile(0, 0), Tile(0, 0), Tile(0, 0)>>),
   PageRequest(<<Page(0, 0, <<15, 16>>)>>)}
================================================================================
