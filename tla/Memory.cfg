SPECIFICATION FairSpec
CONSTANTS
  Size = 4
  BYTE = 3
  Fills = {2, 4}
INVARIANTS Copied Filled Compared
PROPERTY Returns
