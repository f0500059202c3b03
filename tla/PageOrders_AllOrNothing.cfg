SPECIFICATION Spec
CONSTANTS
  p1 = p1
  p2 = p2
  foreign = foreign
  SourceOrder <- MCSourceOrder
  Requested <- MCRequested
  Writers = {w1}
  Readers = {r1}
  OrderIds = {o1, o2}
  None = None
SYMMETRY Symmetry
INVARIANT AllOrNothing
