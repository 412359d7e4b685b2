SPECIFICATION Spec
CONSTANTS
  COUNTER_RANGE = 8
  USE_IMPROVED_VECTOR_COMMITMENTS = TRUE
  ZERO_BITS = TRUE
  Msg = {m1, m2}
  Key = {k1, k2}
  Rand = {r1}
  ATTEMPT_RANGE = 2
  Outcomes <- MCOutcomes
  MAX_SIGNATURES = 2
  MAX_REPLACED = 3
CHECK_DEADLOCK FALSE
INVARIANTS TypeOK SeedOpenedOnce
PROPERTIES ImplementsScheme
