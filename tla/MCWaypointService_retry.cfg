\* Retries, lost caches, failed writes, wipes and restarts, from a fresh file or one
\* that an older build wrote and that lists two points on one block.
SPECIFICATION Spec
CONSTANTS
  l1 = l1
  Players = {p1, p2}
  WaypointIds = {w1, w2}
  Blocks = {b1, b2}
  Labels = {l1}
  OperationIds = {o1, o2}
  NoPoint = NoPoint
  BadDraft = BadDraft
  Actors <- Ordinary
  Policies = {"OwnerManaged"}
  None = None
  UnprintableNames = {}
  MaxRevision = 3
  MaxPerWorld = 2
  MaxPerPlayer = 1
  MaxResults = 1
  MaxTracked = 1
  Burst = 1
  StartFiles <- BlankOrOverlapping
INVARIANTS
  TypeOK
  CatalogIsDurable
  AppliedAtMostOnce
  NothingInBetween
  AppliedAnswersAreTrue
  RetentionCoherent
PROPERTIES
  ImplementsCatalog
  OverlapNeverGrows
  QuotasHold
SYMMETRY Symmetric
