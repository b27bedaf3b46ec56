\* Clients of minors 4 and 2 that draw, follow, leave and outlive reloads.
SPECIFICATION Spec
CONSTANTS
  c1 = c1  c2 = c2
  none = none
  malformed = malformed
  invalid = invalid
  notFinite = notFinite
  Clients = {c1, c2}
  Build <- MCBuild
  Called <- MCCalled
  Drafts <- MCDrafts
  Documents <- MCDocuments
  ProtoMinor = 3
  MaxBytes = 256
  MaxName = 64
  MaxLabel = 3
  MaxHorizontal = 29999984
  MaxAbsolute = 30000000
  NotFinite <- notFinite
  Malformed <- malformed
  Invalid <- invalid
  None <- none
INVARIANTS
  FollowersShowThePoint
  DrawnIsKept
  SavedIsReloaded
