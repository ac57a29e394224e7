CONSTANTS
  SIZE = 16
  StructSize = 4
  StructAlign = 4
  KernelBegin = 64
  BssSize = 3
  KernelEnds <- MCEnds
  MemoryMaps <- MCMaps
SPECIFICATION Spec
INVARIANTS
  TypeOK
  StaticsStayZero
  FramesUsable
  AssertHoldsAligned
