\* The configuration is read again by /cfm reload.
SPECIFICATION Spec
CONSTANTS
  w1 = w1  w2 = w2
  Players = {p1}
  WaypointIds = {w1, w2}
  Threads = {t1}
  MaxRevision = 3
  MaxSessions = 1
  MaxStrikes = 2
  ControlBurst = 1
  ProtoMinor = 3
  ClientMinors = {4}
  Unprovoked = {}
  Commands = {"reload"}
  StartPoints <- Empty
  Idle = Idle
  NoSession = NoSession
  NoCache = NoCache
  NotTold = NotTold
INVARIANT
  FlagsFollowConfig
