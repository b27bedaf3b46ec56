--------------------------- MODULE MCWaypointPayload ---------------------------
(***************************************************************************)
(* An instance of WaypointPayload for TLC: a client of each shape of       *)
(* frame, one with a padded name, and values on both sides of each limit.  *)
(***************************************************************************)
EXTENDS WaypointPayload

CONSTANTS c1, c2, none, malformed, invalid, notFinite

Written(points, width, blanks, is) ==
  [points |-> points, width |-> width, blanks |-> blanks, is |-> is]

\* Texts.  Wide is as long as a name may be and as many bytes as a frame carries;
\* Padded is Wide with a blank, and one byte too many; Foul has a section sign.
Name == Written(4, 1, 0, {"text"})
PaddedName == Written(4, 1, 1, {"text"})
Wide == Written(64, 4, 0, {"text"})
PaddedWide == Written(64, 4, 1, {"text"})
Long == Written(65, 1, 0, {"text"})
Foul == Written(4, 1, 0, {})
Blank == Written(0, 1, 2, {"text"})
Dimension == Written(19, 1, 0, {"text", "dimension"})
PaddedDimension == Written(19, 1, 2, {"text", "dimension"})
Icon == Written(17, 1, 0, {"text", "dimension", "item"})
PaddedIcon == Written(17, 1, 1, {"text", "dimension", "item"})
Label == Written(3, 4, 0, {"text"})
LongLabel == Written(4, 1, 0, {"text"})

Base ==
  [name |-> Name, dimension |-> Dimension, x |-> 12, y |-> 64, z |-> -7,
   opaque |-> TRUE, death |-> FALSE, icon |-> Icon, label |-> Label]

\* What clients draw: in order, at a limit, past one.
MCDrafts ==
  {Base, [Base EXCEPT !.name = PaddedName, !.icon = PaddedIcon, !.label = Blank],
   [Base EXCEPT !.name = Wide, !.dimension = PaddedDimension, !.icon = Blank, !.death = TRUE],
   [Base EXCEPT !.x = -29999984, !.y = 30000000]}
  \union {[Base EXCEPT !.name = t] : t \in {PaddedWide, Long, Foul, Blank}}
  \union {[Base EXCEPT !.icon = Name], [Base EXCEPT !.label = LongLabel],
          [Base EXCEPT !.opaque = FALSE], [Base EXCEPT !.z = 29999985],
          [Base EXCEPT !.y = notFinite], [Base EXCEPT !.dimension = Name]}

\* The file of an older build, without a style, which a hand padded; one that was
\* damaged; and none.
Old == [f \in (DOMAIN Base) \ {"icon", "label"} |-> Base[f]]
MCDocuments ==
  {none, [publisher |-> PaddedName, body |-> [Old EXCEPT !.name = PaddedName]],
   [publisher |-> Name, body |-> [Base EXCEPT !.name = Foul]],
   [publisher |-> Foul, body |-> Base]}

MCBuild == [c \in {c1, c2} |-> IF c = c1 THEN 4 ELSE 2]
MCCalled == [c \in {c1, c2} |-> IF c = c1 THEN PaddedName ELSE Wide]
================================================================================
