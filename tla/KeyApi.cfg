SPECIFICATION Spec
CONSTANTS
  FAEST_SIGNATURE_BYTES = 2
  KEY_BYTES = 2
  SEED_BYTES = 2
  TopBytes = {0, 1, 2, 3}
  Bytes = {a, b}
  MemorySize = 4
  MaxLength = 2
CHECK_DEADLOCK FALSE
INVARIANTS RandomnessDone OpenReturnsMessage
PROPERTY CallsReturn
