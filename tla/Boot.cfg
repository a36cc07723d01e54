SPECIFICATION BootFairSpec
CONSTANTS
  SDT_HEADER = 9
  POINTER = 4
  MADT_HEADER = 11
  ADDRESS = 3
  Tables <- MCTables
  MaxTables = 2
  HHDM = 100
  Garbage = {0, 2}
  Reload = 7
  RADIX = 3
  Rate = 2
  MaxLead = 1
  MaxGap = 4
  MaxTime = 17
  NONE = NONE
  TssAddress <- MCTssAddress
  TssSize = 104
  IsrAddress <- MCIsrAddress
  NULL = NULL
INVARIANTS BootTypeOK IoapicFound OnePeriodMeasured DescriptorsUsable OnlyNmiAndSpuriousUngated KeyboardArmed
PROPERTY BootEnds
