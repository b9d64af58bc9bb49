\* Two commands in flight; the policy changes with the listener probe.
SPECIFICATION Spec
CONSTANTS
  Configs = {c1}
  NeedsProxy = {c1}
  NoPolicy = NoPolicy
  Leftovers <- OldOrNone
  NoWorker = NoWorker
  Workers = {w1, w2}
SYMMETRY WorkerSymmetry
VIEW BesidePane
INVARIANTS
  StaleSessionFlagged
  ReliesOnCurrent
  ApprovedBeforeEnabled
  ActivePolicyEnforced
PROPERTY ImplementsPromise
