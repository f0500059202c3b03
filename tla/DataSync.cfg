SPECIFICATION Spec
CONSTANTS
  Calls = {c1, c2, c3}
  FirstVersion = 8
  MaxVersion = 10
  FirstDay = 19999
  MaxDay = 20000
  MaxFiles = 3
  MaxEdits = 1
  None = None
SYMMETRY CallSymmetry
INVARIANTS
  SnapshotIsCurrent
  VersionIsBacked
  NewestIsTaken
