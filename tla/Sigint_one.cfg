SPECIFICATION FairSpec
CONSTANTS
  Txns = {t1}
  MaxCtrlC = 3
  MaxCalls = 2
INVARIANTS
  MaskRestored
  IgnoreMeansCtrlC
  DispositionRestored
  CtrlCAnswered
PROPERTIES
  HeldForHost
  CtrlCEndsWait
CHECK_DEADLOCK FALSE
