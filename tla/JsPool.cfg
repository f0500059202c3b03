SPECIFICATION FairPoolSpec
CONSTANTS
  Callers = {c1, c2, c3}
  Size = 2
  MaxWorkers = 9
  Null = Null
CHECK_DEADLOCK FALSE
INVARIANTS
  OwnAnswer
  LostByOverlap
PROPERTIES CallsEnd
