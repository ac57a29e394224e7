CONSTANTS
  BiosMaster = 8
  BiosSlave = 112
  Frequencies = {100}
  MaxDepth = 8
SPECIFICATION Spec
PROPERTY EveryInterruptEnded
CHECK_DEADLOCK FALSE
