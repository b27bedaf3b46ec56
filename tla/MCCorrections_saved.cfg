\* Saves, removals and requests in any order, in any state of the files.
SPECIFICATION Spec
CONSTANTS
  cold = cold
  notPresent = notPresent
  failure = failure
  Half = 128
  Chunks <- MCChunks
  Contents <- MCContents
  Requests <- MCRequests
  MaxTiles = 2
  MaxPages = 2
  MaxDims = 8
  Overworld = 0
  MaxTime = 2
  Cold <- cold
  NotPresent <- notPresent
  Failure <- failure
INVARIANT
  ScansTellTheWorld
PROPERTY
  UnchangedIsTrue
