SPECIFICATION Spec
CONSTANTS
  v1 = v1
  v2 = v2
  Values <- MCValues
  TimeoutTicks = 3
  IntervalTicks = 2
  MaxCalls = 3
  None = None
INVARIANTS TypeOK  ConfirmedStays HonestSucceeds
PROPERTIES Settles
CHECK_DEADLOCK FALSE
