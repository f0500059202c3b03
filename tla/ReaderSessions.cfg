SPECIFICATION Spec
CONSTANTS
  ch1 = ch1
  ch2 = ch2
  foreign = foreign
  a = a
  b = b
  c = c
  x = x
  ComicChapters = {ch1, ch2}
  Pages <- MCPages
  Positions <- MCPositions
  Updaters = {u1, u2, u3}
  Resumers = {r1}
  None = None
SYMMETRY Symmetry
INVARIANTS
  TypeOK
  SavedIsResumable
  UpdatesTakeEffect
