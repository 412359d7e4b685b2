SPECIFICATION Spec
CONSTANTS
  BITS_PER_WITNESS = 3
  VOLES_MAX_K = 1
  VOLE_MIN_K = 3
  TREE_CHUNK_SIZE_SHIFT = 1
  LEAF_CHUNK_SIZE_SHIFT = 2
  VOLE_WIDTH_SHIFT = 1
  PermuteInv <- MCPermuteInv
  PermuteIncrement <- MCPermuteIncrement
  XorIndex <- MCXorIndex
  Challenges <- MCChallenges
  Tampered <- MCTampered
INVARIANT OutputsCorrect
