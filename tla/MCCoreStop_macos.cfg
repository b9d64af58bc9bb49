SPECIFICATION Spec
CONSTANTS
  Callers = {a}
  Platforms = {"macos"}
  MaxProcesses = 2
INVARIANT
  NeverAgainstReusedPid
