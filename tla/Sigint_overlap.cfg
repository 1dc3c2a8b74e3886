SPECIFICATION Spec
CONSTANTS
  Txns = {t1, t2}
  MaxCtrlC = 1
  MaxCalls = 1
INVARIANTS
  DispositionRestored
CHECK_DEADLOCK FALSE
