SPECIFICATION Spec
CONSTANTS
  BITS_PER_WITNESS = 3
  VOLES_MAX_K = 1
  SHORT_LEN = 2
  VOLE_WIDTH_SHIFT = 1
  VOLE_MAX_K = 2
  TREE_CHUNK_SIZE = 2
  LEAF_CHUNK_SIZE = 1
  BATCH_VECTOR_OPENING_SEEDS_TRESHOLD = 3
  SIZE_T = 65536
  TAMPER = TRUE
  PermuteInv <- MCPermuteInv
  XorIndex <- MCXorIndex
CHECK_DEADLOCK FALSE
INVARIANTS OnlyWrittenRead
PROPERTIES ImplementsVC
