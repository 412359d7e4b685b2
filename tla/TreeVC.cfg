SPECIFICATION Spec
CONSTANTS
  BITS_PER_WITNESS = 6
  VOLES_MAX_K = 3
  VOLE_MIN_K = 3
  TREE_CHUNK_SIZE_SHIFT = 2
  LEAF_CHUNK_SIZE_SHIFT = 2
  VOLE_WIDTH_SHIFT = 1
  PermuteInv <- MCPermuteInv
  PermuteIncrement <- MCPermuteIncrement
  XorIndex <- MCXorIndex
  Challenges <- MCChallenges
  Tampered <- MCTampered
INVARIANTS ForestCorrect OutputsCorrect HiddenStaysHidden AssertionsHold OnlyWrittenRead
PROPERTY ImplementsVC
