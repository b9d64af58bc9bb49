SPECIFICATION Spec
CONSTANTS
  Callers = {a, b}
  Services = {wifi, cable}
  Protocols = {"HTTP"}
  Settings <- MCSettings
  MaxEdits = 1
SYMMETRY CallerSymmetry
INVARIANTS
  TypeOK
  SuccessMeansSet
PROPERTIES
  ForeignPacKept
