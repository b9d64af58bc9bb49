SPECIFICATION Spec
CONSTANTS
  Forms = {"validation", "command", "shell"}
  PipeSize = 1
  Limit = 2
  MaxOutput = 4
CHECK_DEADLOCK FALSE
INVARIANTS
  TypeOK
  NoChildLeft
PROPERTIES
  RunEnds
  ImplementsVerdict
