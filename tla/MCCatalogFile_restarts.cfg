\* Restarts with failing reads, writes and renames, and files put there by hand.
SPECIFICATION Spec
CONSTANTS
  InstanceIds = {i1, i2}
  Elsewhere = Elsewhere
  Unowned = Unowned
  Ours = {a}
  Theirs = {b, c}
  a = a
  b = b
  c = c
  Brought <- MCBrought
  MaxRevision = 2
  SchemaVersion = 2
  NoFile = NoFile
  Garbage = Garbage
  NoId = NoId
  NoService = NoService
  Unsure = Unsure
INVARIANTS
  TypeOK
  CatalogSurvives
  ForeignNeverServed
PROPERTIES
  NewerUntouched
  NothingOverwrittenUnread
SYMMETRY Symmetric
