SPECIFICATION Spec
CONSTANTS
  p1 = p1
  p2 = p2
  foreign = foreign
  SourceOrder <- MCSourceOrder
  Requested <- MCRequested
  Writers = {w1, w2}
  Readers = {r1}
  OrderIds = {o1, o2, o3}
  None = None
SYMMETRY Symmetry
INVARIANTS
  TypeOK
  RaceHasWinner
  NoMixing
  OpenedIsWhole
  SetIsEffective
