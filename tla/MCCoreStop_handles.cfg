\* Two calls at once; the process id is given out twice again.
SPECIFICATION Spec
CONSTANTS
  Callers = {a, b}
  Platforms = {"linux", "macos", "windows"}
  MaxProcesses = 3
SYMMETRY CallerSymmetry
INVARIANTS
  TypeOK
  OnlyTargetSignalled
  StoppedMeansGone
