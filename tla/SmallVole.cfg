SPECIFICATION Spec
CONSTANTS
  VOLE_WIDTH_SHIFT = 3
  VOLE_MAX_K = 6
  K = {4, 5, 6}
  XorIndex <- MCXorIndex
CHECK_DEADLOCK FALSE
INVARIANTS ColumnsAreBits VoleCorrelation
