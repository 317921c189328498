SPECIFICATION Spec
CONSTANTS
  t1 = t1
  t2 = t2
  s1 = s1
  s2 = s2
  s3 = s3
  TaskIds <- MCTasks
  SessionIds <- MCSessions
  MaxOps = 4
  Kinds = {"create", "unlock", "save", "password", "destroy", "reload"}
  Patient = FALSE
  None = None
  Oversized = {}
SYMMETRY Pools
INVARIANTS DestroyedMeansEmpty
CHECK_DEADLOCK FALSE
