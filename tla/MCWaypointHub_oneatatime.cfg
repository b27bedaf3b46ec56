\* One call at a time, two clients of minors 1 and 4 that send what they like.
SPECIFICATION Spec
CONSTANTS
  w1 = w1  w2 = w2
  Players = {p1, p2}
  WaypointIds = {w1}
  Threads = {t1}
  MaxRevision = 1
  MaxSessions = 2
  MaxStrikes = 2
  ControlBurst = 2
  ProtoMinor = 3
  ClientMinors = {1, 4}
  Unprovoked = {"HELLO", "SUBSCRIBE", "MALFORMED"}
  Commands = {}
  StartPoints <- Empty
  Idle = Idle
  NoSession = NoSession
  NoCache = NoCache
  NotTold = NotTold
INVARIANTS
  OnlyWhatWasAgreed
PROPERTIES
  MutedUntilDisconnect
SYMMETRY Symmetric
