SPECIFICATION Spec
CONSTANTS
  Configs = {c1}
  NeedsProxy = {c1}
  NoPolicy = NoPolicy
  Leftovers <- OldEnvelope
  NoWorker = NoWorker
  Workers = {w1}
INVARIANT
  CachedAnswerTrue
