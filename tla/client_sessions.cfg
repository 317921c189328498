SPECIFICATION Spec
CONSTANTS
  t1 = t1
  t2 = t2
  s1 = s1
  s2 = s2
  s3 = s3
  TaskIds <- MCTasks
  SessionIds <- MCSessions
  MaxOps = 6
  Kinds = {"create", "unlock", "save", "password", "destroy", "reload"}
  Patient = TRUE
  None = None
  Oversized <- TooLarge
SYMMETRY Pools
INVARIANTS TypeOK ClientInv MetadataOpens AckedSurvives SessionMatchesStorage LockedMeansLocked DestroyedMeansEmpty
CHECK_DEADLOCK FALSE
