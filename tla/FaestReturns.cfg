SPECIFICATION Spec
CONSTANTS
  COUNTER_RANGE = 8
  USE_IMPROVED_VECTOR_COMMITMENTS = TRUE
  ZERO_BITS = FALSE
  Msg = {m1}
  Key = {k1}
  Rand = {r1}
  ATTEMPT_RANGE = 2
  Outcomes <- MCAllOutcomes
  MAX_SIGNATURES = 1
  MAX_REPLACED = 0
CHECK_DEADLOCK FALSE
INVARIANT LeastCounter
PROPERTY CallsReturn
