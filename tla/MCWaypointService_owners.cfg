\* Who may change whose points: one id that is created, deleted and created
\* again, players whose operator level changes between requests, and an access
\* policy that changes at a restart.
SPECIFICATION Spec
CONSTANTS
  l1 = l1
  Players = {p1, p2}
  WaypointIds = {w1}
  Blocks = {b1}
  Labels = {l1}
  OperationIds = {o1}
  NoPoint = NoPoint
  Actors <- AnyLevel
  Policies = {"OperatorOnly", "OwnerManaged"}
  BadDraft = BadDraft
  None = None
  UnprintableNames = {}
  MaxRevision = 4
  MaxPerWorld = 2
  MaxPerPlayer = 1
  MaxResults = 1
  MaxTracked = 1
  Burst = 1
  StartFiles <- OnlyBlank
INVARIANTS
  OwnersOnly
  HistoryAgrees
PROPERTY
  PublisherFixed
SYMMETRY Symmetric
