SPECIFICATION FairTSpec
CONSTANTS
  Ids = {a, b}
  None = None
  Intents = {"follow-up", "interject"}
  Forms = {"plain"}
  MaxPending = 2
  MaxItems = 2
  MaxBodies = 2
  MaxEpoch = 1
  MaxTurns = 2
  MaxAsks = 1
  MaxCrashes = 0
  Surroundings = {{"follow-up", "interject", "plain", "recovery"}}
  Drains = TRUE
PROPERTY InterjectHandled
CHECK_DEADLOCK FALSE
