SPECIFICATION Spec
CONSTANTS
  t1 = t1
  t2 = t2
  s1 = s1
  s2 = s2
  s3 = s3
  TaskIds <- MCTasks
  SessionIds <- MCSessions
  MaxOps = 4
  Kinds = {"unlock", "save"}
  Patient = FALSE
  None = None
  Oversized = {}
SYMMETRY Pools
INVARIANTS LockDropsSessions
CHECK_DEADLOCK FALSE
