SPECIFICATION Spec
CONSTANTS
  PAGE_SIZE = 4
  PageBytes = 4
  PAGE_TO_QWORD = 2
  QWORD_BYTES = 2
  HEAP_BITMAP_BYTES = 8
  MaxPage = 16
  MemMaps <- MCMemMaps
  NULL = NULL
INVARIANTS TypeOK BitmapCoversRam BitmapInRam FreeExactly NoDoubleHandOut
