CONSTANTS
  MAX_ORDER = 3
  obj_count = 7
  GarbageOrder <- MCGarbage
SPECIFICATION Spec
INVARIANT BuddyTakenIsInList
CHECK_DEADLOCK FALSE
