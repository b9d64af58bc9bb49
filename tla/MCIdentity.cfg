SPECIFICATION Spec
CONSTANTS
  Callers = {a, b}
  Platforms = {"linux", "other"}
  MaxKeys = 2
  MaxFaults = 1
SYMMETRY CallerSymmetry
INVARIANTS
  TypeOK
  IdentityKept
PROPERTIES
  NoNeedlessKey
  DeletedMeansGone
  StoredKeyStays
