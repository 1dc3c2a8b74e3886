SPECIFICATION FairSpec
CONSTANTS
  Slice = 2
  Delay = 3
  Deadlines = {0, 1, 5}
  Statuses = {200, 404, 503}
  MaxConns = 3
  MaxTime = 8
INVARIANTS
  NeverLate
  CtrlCPrompt
  AnswersAreThisConnections
PROPERTIES
  ReconnectsForCause
  WaitEnds
  KeepsPromise
CHECK_DEADLOCK FALSE
