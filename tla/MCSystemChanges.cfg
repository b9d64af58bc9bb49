SPECIFICATION Spec
CONSTANTS
  Callers = {a, b}
  Systems = {"linux", "macos", "windows"}
  Cores = {stable, alpha}
  Apps = {mail, game}
  Parts = {exe, asar}
SYMMETRY CallerSymmetry
INVARIANTS
  ChangesTypesOK
  ChangesAsAnswered
  SetuidMeansRoot
  UpdateInOrder
PROPERTIES
  OthersKept
