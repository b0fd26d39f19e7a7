SPECIFICATION MCSpec
CONSTANTS
  c1 = c1
  c2 = c2
  e1 = e1
  e2 = e2
  s1 = s1
  w1 = w1
  w2 = w2
  NumRows = 2
  Edits = {e1, e2}
  ByHand = {"nothing"}
  MayRefuse = TRUE
  Schedules = {s1}
  Sessions = {w1, w2}
  Identity <- MCIdentity
  Tokens <- MCTokens
  TotalTokens <- MCTotal
  MaxOccurrences <- MCOccurrences
  Lifetime <- MCLifetime
  Cadence = 1
  Overrun = 1
  Retention = 2
  MaxTime = 3
  MaxTenures = 2
  MaxScheduleFaults = 1
  Kinds = {"read", "write", "question", "other"}
  MaxCalls = 2
  MaxToolRounds = 1
  Concurrency = 2
  MaxContinuations = 1
  MaxRetries = 1
  MaxTurns = 2
  MaxSteers = 1
  MaxHeld = 1
  Clients = {c1, c2}
  NoClient = NoClient
  Questions = {"tool", "choice"}
  LeaseTime = 1
  MaxWriters = 2
  MaxRequests = 3
  MaxQueued = 2
INVARIANTS
  FTypeOK UntouchedByOthers RestoredOrPut BlockedOnlyByLeftovers
  ChargedOnce WithinBudget WorkIsOwned EnabledIsReviewed
  HistoryAnswered RoundInOrder EffectsCovered
  WorkHasWriter
PROPERTY WritesAreAuthorized
