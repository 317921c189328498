SPECIFICATION Spec
CONSTANTS
  Timeouts <- MCTimeouts
  DefaultTimeout = 1
  RevealTicks = 2
  MaxNow = 7
  LastTouch = 4
  MaxSetBack = 3
  None = None
INVARIANTS TypeOK ArmedWhileUnlocked DeadlineNear IdleBounded 
PROPERTIES LocksWhenIdle
