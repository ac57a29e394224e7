CONSTANTS
  Chars = 2
  Faults = {6, 14, 17}
  Traps = {2, 3}
  MaxExceptions = 2
  MaxDepth = 5
SPECIFICATION Spec
INVARIANTS
  TypeOK
  MessagesWhole
  StuckOnlyInReport
  StackBalanced
PROPERTY BootEnds
CHECK_DEADLOCK FALSE
