SPECIFICATION FairSpec
CONSTANTS
  Samples = {s}
  QueueLimit = 2
  MaxLines = 2
  MaxTaskbars = 2
  MaxFaults = 1
INVARIANTS
  TypeOK
  OneWindow
  PlacedByParent
  NothingOverlooked
PROPERTIES
  ShowsState
  ExitsWithStream
