SPECIFICATION Spec
CONSTANTS
  Text <- MCText
  Chunks <- MCChunks
  Terminal <- MCTerminal
  LineCap = 6
  NameCap = 2
  DataCap = 5
  MaxChunks = 5
INVARIANTS
  DeliveredAsSent
  StopsForCause
  BuffersFit
CHECK_DEADLOCK FALSE
