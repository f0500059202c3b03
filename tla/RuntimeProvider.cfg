SPECIFICATION FairSpec
CONSTANTS
  Calls = {c1, c2, c3}
  MaxSessions = 3
  None = None
  Resolved = Resolved
INVARIANTS
  TypeOK
  PublishedIsLive
PROPERTIES
  ShutdownSparesWork
  ShutdownEnds
  CallsReturn
