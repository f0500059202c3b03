SPECIFICATION FairSpec
CONSTANTS
  Requests = {r1, r2}
  Keys = {k1}
  NoKey = NoKey
  i1 = i1
  i2 = i2
  i3 = i3
  Inputs = {i1, i2, i3}
  Canonical <- MCCanonical
  Ids = {id1, id2}
  None = None
INVARIANTS
  TypeOK
  OneComicPerKey
  ConflictIsReal
  CommittedIsWhole
PROPERTIES KeepsPromise RequestsEnd
