CONSTANTS
  MAX_ORDER = 3
  obj_count = 9
  GarbageOrder <- MCGarbage
SPECIFICATION Spec
INVARIANTS
  TypeOK
  NoOverlap
  NothingLost
  CountsAgree
  Coalesced
  UninitNeverRead
  AllFreedRestoresNew
PROPERTY ImplementsFramePool
CHECK_DEADLOCK FALSE
