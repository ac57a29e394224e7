CONSTANTS
  width = 3
  height = 2
  Chars <- Letters
  Colors = {4, 12}
  BitOr <- MCBitOr
  MaxPrinted = 7
  size_x = 3
  size_y = 2
  rows = 4
  BitInfos <- MCBitInfos
  Codes <- MCCodes
  MaxFills = 2
SPECIFICATION DisplaysSpec
INVARIANTS
  ScreenShowsPaper
  MemoryShowsCanvas
CHECK_DEADLOCK FALSE
