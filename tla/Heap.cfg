SPECIFICATION FairSpec
CONSTANTS
  BLOCK_SIZE = 2
  HEAP_MAX_BLOCKS = 6
  OwnedBlocks = 4
  MappedBlocks = 5
  SIZE_MOD = 8
  Amounts = {0, 2, 3, 6, 7}
  Junk = {9}
  NULL = NULL
INVARIANTS TypeOK Accounting HeaderIntact
PROPERTIES KmallocEnds FirstFit ImplementsHeapSpec
