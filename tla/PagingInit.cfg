CONSTANTS
  E = 12
  Frames <- MCFrames
  Remaps <- MCRemaps
  KernelEnds <- MCEnds
  FrameCounts <- MCCounts
  HeapFrames = 4
SPECIFICATION InitSpec
INVARIANTS
  KernelAlwaysMapped
  NullNeverMapped
  InitFramesAccounted
  InitOutcome
  InitTablesReachable
  InitSucceeds
