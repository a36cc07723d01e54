SPECIFICATION Spec
CONSTANTS
  Levels = 3
  Root = 4
  BitmapFrame = 3
  Idx <- MCIdx
  Pages <- MCPages
  Frames <- MCFrames
  Free <- MCFree
  Mmio <- MCMmio
  BootTables <- MCBootTables
  DirectMap <- MCDirectMap
  Windows <- MCWindows
  NULL = NULL
INVARIANTS TypeOK TablesAreATree TlbCoherent DirectMapKept
PROPERTY ImplementsAddressSpace
CONSTRAINT PagesLast
