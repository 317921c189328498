SPECIFICATION Spec
CONSTANTS
  None = None
  v1 = v1
  v2 = v2
  p1 = p1
  p2 = p2
  n1 = n1
  n2 = n2
  n3 = n3
  Vaults <- MCVaults
  Contents <- MCContents
  EmptyContent <- empty
  Oversized <- MCOversized
  Passwords <- MCPasswords
  Nonces <- MCNonces
  MaxGeneration = 3
  Limit = 5242880
INVARIANTS TypeOK LockLeavesNothing PendingIsNext CommittedStands
PROPERTIES SavesInTwoPhases ChangesInTwoPhases
