CONSTANTS
  BiosMaster = 8
  BiosSlave = 112
  Frequencies = {19, 100, 596590}
  MaxDepth = 8
SPECIFICATION Spec
INVARIANTS
  TypeOK
  TimerVectorOnly
  EnabledWhenReady
  ManagerNeverContended
CHECK_DEADLOCK FALSE
