SPECIFICATION Spec
CONSTANTS
  BITS_PER_WITNESS = 3
  VOLES_MAX_K = 1
  SHORT_LEN = 4
  VOLE_WIDTH_SHIFT = 1
  VOLE_MAX_K = 3
  TREE_CHUNK_SIZE = 4
  LEAF_CHUNK_SIZE = 2
  BATCH_VECTOR_OPENING_SEEDS_TRESHOLD = 5
  SIZE_T = 65536
  TAMPER = FALSE
  PermuteInv <- MCPermuteInv
  XorIndex <- MCXorIndex
CHECK_DEADLOCK FALSE
INVARIANTS TypeOK TreeCorrect OutputsCorrect SizePredicted HiddenStaysHidden OnlyWrittenRead
PROPERTIES WrittenOnce ImplementsVC
