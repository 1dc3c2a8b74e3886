SPECIFICATION Spec
CONSTANTS
  Slice = 2
  Delay = 3
  Deadlines = {5}
  Statuses = {404}
  MaxConns = 2
  MaxTime = 8
PROPERTIES
  RefusalIsFinal
CHECK_DEADLOCK FALSE
