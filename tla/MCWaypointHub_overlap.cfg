\* Two calls at a time, while the catalog is emptied.
SPECIFICATION Spec
CONSTANTS
  w1 = w1  w2 = w2
  Players = {p1}
  WaypointIds = {w1, w2}
  Threads = {t1, t2}
  MaxRevision = 4
  MaxSessions = 1
  MaxStrikes = 1
  ControlBurst = 2
  ProtoMinor = 3
  ClientMinors = {4}
  Unprovoked = {"SUBSCRIBE"}
  Commands = {"clear"}
  StartPoints <- Both
  Idle = Idle
  NoSession = NoSession
  NoCache = NoCache
  NotTold = NotTold
INVARIANT
  CopiesAreCatalogs
SYMMETRY Symmetric
