SPECIFICATION FairTSpec
CONSTANTS
  Ids = {a, b}
  None = None
  Intents = {"steering", "interject"}
  Forms = {"plain"}
  MaxPending = 2
  MaxItems = 2
  MaxBodies = 2
  MaxEpoch = 1
  MaxTurns = 2
  MaxAsks = 1
  MaxCrashes = 1
  Surroundings = {{"steering", "interject", "plain", "interrupt", "close"}}
  Drains = TRUE
CONSTRAINT LeaderFirst
PROPERTIES InterjectHandled InterruptReturns CloseSettles
CHECK_DEADLOCK FALSE
