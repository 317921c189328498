SPECIFICATION Spec
CONSTANTS
  i1 = i1
  i2 = i2
  i3 = i3
  short = short
  long = long
  tooLong = tooLong
  Ids <- MCIds
  Fields <- MCFields
  ValidFields <- MCValidFields
  MaxEntries = 2
  MaxTime = 2
  Absent = Absent
SYMMETRY Interchangeable
INVARIANTS TypeOK AlwaysAccepted
PROPERTIES TouchedIsNewest TimelineAdvances ImplementsEntryBook
