SPECIFICATION Spec
CONSTANTS
  COUNTER_RANGE = 4
  USE_IMPROVED_VECTOR_COMMITMENTS = FALSE
  ZERO_BITS = FALSE
  Msg = {m1, m2}
  Key = {k1, k2}
  Rand = {r1}
  ATTEMPT_RANGE = 2
  Outcomes <- MCNoOutcomes
  MAX_SIGNATURES = 2
  MAX_REPLACED = 7
CHECK_DEADLOCK FALSE
INVARIANTS SeedOpenedOnce
PROPERTIES ImplementsScheme
