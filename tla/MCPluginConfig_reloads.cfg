\* Loads, reloads and stops over files and saves that change in between.
SPECIFICATION Spec
CONSTANTS
  end = end  modded = modded  v1 = v1  v2 = v2
  Players = {p1}
  Texts <- MCTexts
  Saves <- MCSaves
  Vanilla = {over, end}
  Overworld = over
  ServerVersion = None
  Fallback = Fallback
  SeedHalf = 2
  CountMax = 8
  SeedSpace = 2
  WorldCap = 4
  PlayerDefault = 2
  RateDefault = 2
  RateCap = 3
  ViewMin = 2  ViewMax = 3
  MaxDims = 2
  NoFile = NoFile
  Unreadable = Unreadable
  Absent = Absent
  Damaged = Damaged
  Bad = Bad
  None = None
INVARIANTS
  SettingsAreAsRead
  LimitsCoherent
  PoliciesKeepTheWord
