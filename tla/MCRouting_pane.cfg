\* The same two commands; what a provider starts with is no matter of the pane.
SPECIFICATION Spec
CONSTANTS
  Configs = {c1}
  NeedsProxy = {c1}
  NoPolicy = NoPolicy
  Leftovers = {NoPolicy}
  NoWorker = NoWorker
  Workers = {w1, w2}
SYMMETRY WorkerSymmetry
INVARIANTS
  TypeOK
  PaneOpensOnce
