SPECIFICATION Spec
CONSTANTS
  v1 = v1
  v2 = v2
  v3 = v3
  right = right
  other = other
  empty = empty
  edited = edited
  large = large
  None = None
  Garbage = Garbage
  Vaults <- ThreeVaults
  Passwords <- BothPasswords
  Contents <- ThreeContents
  EmptyContent = empty
  Oversized <- LargeContents
  MaxGen = 4
  FaultyReads <- AllKeys
  FaultyWrites = TRUE
  Damageable <- AllKeys
SYMMETRY Interchangeable
INVARIANTS
  TypeOK
  SlotDiscipline
  NeighbouringGenerations
  ObservedIntact
  ObservedIsRecoverable
  MetadataHasASlot
  InductiveInv
