CONSTANTS
  E = 12
  Frames <- MCFrames
  Remaps <- MCRemaps
  KernelEnds <- LastFrameEnds
  FrameCounts <- MCCounts
  HeapFrames = 4
SPECIFICATION InitSpec
INVARIANT AlreadyMappedIsMapped
