\* The behaviours end where the bound on the changes is reached.
SPECIFICATION Spec
CHECK_DEADLOCK FALSE
CONSTANTS
  MaxEdits = 2
  Names <- MCNames
  Paths <- MCPaths
  Versions = {"v1", "v2"}
  Supported = {"v1"}
  Contents <- MCContents
  Digests <- MCDigests
  Sha256 <- MCSha256
  Tags = {"theme.action", "new"}
  KnownTags = {"theme.action"}
  Published <- MCPublished
  Edited <- MCEdited
  Malformed = Malformed
  None = None
INVARIANTS
  TypeOK
  AcceptedIsWhole
  SpellingIsIgnored
  IntactBeforeJudged
