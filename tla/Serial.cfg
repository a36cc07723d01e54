SPECIFICATION SerialFairSpec
CONSTANTS
  MaxKeys = 3
  Base = 3
  Nibble = 4
  HexDigits = 2
  INT_MOD = 16
  LONG_MOD = 256
  Ints <- MCInts
  Words = {0, 7}
  Characters <- MCCharacters
  Strings <- MCStrings
  FifoSize = 2
  Banner <- MCBanner
  Formats <- MCFormats
  LeftBehind <- MCLeftBehind
INVARIANTS SerialTypeOK TextIntact NoStuckKey OneStaleAtMost
PROPERTIES KprintfReturns EveryKeyServed
CHECK_DEADLOCK FALSE
