\* One client while the server's operator empties the catalog, reads the
\* configuration again, reloads the plugin and changes the client's level.
SPECIFICATION FairSpec
CONSTANTS
  w1 = w1  w2 = w2
  Players = {p1}
  WaypointIds = {w1, w2}
  Threads = {t1}
  MaxRevision = 3
  MaxSessions = 1
  MaxStrikes = 2
  ControlBurst = 1
  ProtoMinor = 3
  ClientMinors = {4}
  Unprovoked = {"LOCK", "MALFORMED", "SUBSCRIBE"}
  Commands = {"clear", "reload", "unload", "op"}
  StartPoints <- Empty
  Idle = Idle
  NoSession = NoSession
  NoCache = NoCache
  NotTold = NotTold
INVARIANTS
  TypeOK
  SubscribersAreCurrent
PROPERTIES
  CopiesNeverGoBack
  Converges
  LevelsAreTold
