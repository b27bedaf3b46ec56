---------------------------- MODULE MCCatalogFile ----------------------------
(***************************************************************************)
(* Instances of CatalogFile for TLC.                                       *)
(***************************************************************************)
EXTENDS CatalogFile, TLC

CONSTANTS a, b, c  \* a is a point of this server, b and c are another's

Symmetric == Permutations(InstanceIds)

CopyOf(schema, owner, points) ==
  [schema |-> schema, owner |-> owner, fault |-> "none",
   content |-> [revision |-> 1, points |-> points]]

\* Of the build before this one, of this one and of the next; from a server that is
\* named, and from one that is not.
Whole ==
  {CopyOf(s, Elsewhere, {b}) : s \in {1, 2, 3}} \union {CopyOf(s, Unowned, {c}) : s \in {1, 2, 3}}
    \union {CopyOf(2, Elsewhere, {b, c}), CopyOf(2, Unowned, {a}), CopyOf(2, Unowned, {b})}

\* No schema there ever was, a point that does not pass, points before the first
\* revision, and no document at all.
Damaged ==
  {CopyOf(0, Unowned, {a}),
   [CopyOf(2, Unowned, {a}) EXCEPT !.fault = "stranded"],
   [CopyOf(1, Unowned, {a}) EXCEPT !.content.revision = 0],
   [CopyOf(0, Unowned, {a}) EXCEPT !.fault = "illegible"]}

MCBrought == Whole \union Damaged
==============================================================================
