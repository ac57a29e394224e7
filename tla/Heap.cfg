CONSTANTS
  HeapBegin = 8
  HeapEnd = 24
  Sizes = {1, 2, 5, 16}
  Aligns = {1, 4}
  Slots = 3
SPECIFICATION Spec
INVARIANTS
  TypeOK
  BlocksDisjoint
CHECK_DEADLOCK FALSE
