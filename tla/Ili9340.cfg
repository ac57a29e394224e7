CONSTANTS
  WIDTH = 4
  HEIGHT = 3
  GIRL_COLORS <- MCPicture
  FONT_WIDTH = 2
  FONT_HEIGHT = 1
  FONTS <- MCFonts
  Aart <- MCText
  TextX = 0
  TextY = 1
  OkLed = 16
  L = 4
  Usec = 3
  Delay = 2
SPECIFICATION Spec
INVARIANTS
  ScreenShowsPicture
  WaitsFull
PROPERTY EveryCallReturns
CHECK_DEADLOCK FALSE
