CONSTANTS
  E = 6
  Frames <- MCFrames
  Setups <- MCSetups
  Device <- MCDevice
SPECIFICATION Spec
INVARIANTS
  FramesAccounted
  RecursionRestored
  TablesReachable
  StopsOnlyExhausted
PROPERTIES
  StaleOnlyByUnmap
  ImplementsAddressSpaces
CHECK_DEADLOCK FALSE
