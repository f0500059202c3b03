SPECIFICATION FairSpec
CONSTANTS
  d1 = d1
  d2 = d2
  None = None
  Resolved = Resolved
  Texts <- MCTexts
  Empty = ""
  Trim <- MCTrim
  Squeeze <- MCSqueeze
  Norm <- MCNorm
  Uuids <- MCUuids
  Instants <- MCInstants
  Iso <- MCIso
  DateOf <- MCDateOf
  Objects = {}
  Slots = {1, 2}
  Signals = {g1}
  MaxSessions = 2
  Forms <- MCForms
  MaxComics = 2
  ComicId <- MCComicId
  TitleId <- MCTitleId
  Now <- MCNow
CHECK_DEADLOCK FALSE
INVARIANTS
  TypeOK
  RetryIsSafe
  AnswersReadable
  AnswerFits
PROPERTIES BusyEnds SignalStops
