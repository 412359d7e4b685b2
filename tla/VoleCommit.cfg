SPECIFICATION Spec
CONSTANTS
  SECURITY_PARAM = 12
  ZERO_BITS_IN_CHALLENGE_3 = 2
  BITS_PER_WITNESS = 6
CHECK_DEADLOCK FALSE
INVARIANTS HashedOnce Correlation
