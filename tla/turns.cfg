\* Two spoken utterances, the second a "stop", and a typed one; a skill that may
\* ask twice.
CONSTANTS
  Spoken = {s1, s2}
  Injected = {i1}
  Cancels = {s2}
  NoTurn = NoTurn
  MaxAsks = 2
  maxUtterances = 2
SPECIFICATION TurnsFairSpec
INVARIANTS
  OneReplyPerTurn
  AnswersOpenQuestion
  CancelledByOwner
  NothingWaitsForAnEndedTurn
  ExtractionSeesEveryTurn
  BufferIsGuarded
PROPERTIES
  QuestionSettles
  TurnIsExtracted
CHECK_DEADLOCK FALSE
