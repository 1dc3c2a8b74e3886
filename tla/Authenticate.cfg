SPECIFICATION FairSpec
CONSTANTS
  ca1 = ca1
  ca2 = ca2
  alice = alice
  ops = ops
  IntMax = 7
  User = alice
  Names <- MCNames
  CaKeys = {ca1, ca2}
  Certs <- MCCerts
  WallTimes = {5}
  Tolerances = {1}
  Timeouts <- MCTimeouts
  Remainders <- MCRemainders
  ConsoleBuilt = TRUE
  MaxAttempts = 2
  MaxTime = 2
INVARIANTS
  TypeOK
  SuccessIsEarned
  EarnedIsGranted
  IgnoreIsDeliberate
  DenialIsADecision
  CtrlCBeforeWaitIsFinal
  LateIsNotGranted
  NothingLeftBehind
  NothingSpentOnBadConfig
  BoundedAttempt
PROPERTIES
  Returns
CHECK_DEADLOCK FALSE
