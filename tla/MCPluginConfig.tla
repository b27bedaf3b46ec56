---------------------------- MODULE MCPluginConfig ----------------------------
(***************************************************************************)
(* Instances of PluginConfig for TLC: files of a few lines that say a key  *)
(* twice, say it badly or in the wrong order, and saves with a file        *)
(* missing, damaged or without a seed.                                     *)
(***************************************************************************)
EXTENDS PluginConfig, TLC

CONSTANTS end, modded, v1, v2

Integer(n) == [is |-> "integer", n |-> n]
Word(yes) == [is |-> "word", yes |-> yes]
List(names) == [is |-> "names", names |-> names]
Say(k, v) == [key |-> k, value |-> v]

Withholding == {<<Say("share_seed", Word(FALSE))>>, <<Say("share_seed", Integer(0)), Say("seed", Integer(3))>>}

\* One key, said twice: well, badly, or out of range.
Twice ==
  {<<Say(k, v), Say(k, w)>> :
     k \in {"seed", "share_seed", "view_distance"},
     v \in {Integer(2), Word(FALSE)},
     w \in {Integer(9), Integer(1)}}

\* Both limits in either order, in range or beyond.
BothLimits ==
  {<<Say("max_waypoints_per_player", Integer(p)), Say("max_waypoints_per_world", Integer(w)),
     Say("waypoint_mutations_per_minute", Integer(r))>> :
     p \in {3, 5}, w \in {0, 2, 5, 9}, r \in {0, 5}}

OtherLines ==
  {<<Say("dims", List(<<>>)), Say("worldgen", List(<<v2>>)), Say("worldgen", List(<<>>))>>,
   <<Say("dims", List(<<Overworld, end, modded>>)), Say("worldgen", List(<<v2>>)),
     Say("world_id", List(<<modded>>)), Say("a typo", Integer(1))>>,
   <<>>}

MCTexts == Withholding \union Twice \union BothLimits \union OtherLines

Seeded(seed, version) == [seed |-> seed, version |-> version, numbered |-> version # None]
Empty == [f \in Files |-> Absent]
MCSaves ==
  {[Empty EXCEPT ![1] = a, ![4] = b, ![6] = Seeded(-2, <<v1>>)] :
     a \in {Absent, Seeded(1, None)}, b \in {Absent, Damaged, Seeded(0, <<v2>>)}}
  \union {Empty, [Empty EXCEPT ![2] = Damaged, ![3] = Seeded(1, None)],
           [Empty EXCEPT ![1] = Seeded(None, None), ![3] = Seeded(1, None), ![7] = Seeded(None, <<v1>>)],
           [Empty EXCEPT ![2] = Seeded(1, None), ![5] = [Seeded(0, None) EXCEPT !.numbered = TRUE],
                         ![6] = Seeded(1, <<v2>>)]}
==============================================================================
