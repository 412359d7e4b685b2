SPECIFICATION Spec
CONSTANTS
  VOLE_WIDTH_SHIFT = 3
  VOLE_MAX_K = 3
  K = {3}
  XorIndex <- MCXorIndex
CHECK_DEADLOCK FALSE
INVARIANT VoleCorrelation
