SPECIFICATION Spec
CONSTANTS
  Calls = {c1, c2, c3}
  MaxSessions = 3
  None = None
  Resolved = Resolved
SYMMETRY CallSymmetry
PROPERTY ShutdownLeavesClosed
