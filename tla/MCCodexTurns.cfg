SPECIFICATION TSpec
CONSTANTS
  Ids = {a, b}
  None = None
  Intents = {"follow-up", "steering", "interject"}
  Forms = {"plain"}
  MaxPending = 2
  MaxItems = 2
  MaxBodies = 2
  MaxEpoch = 1
  MaxTurns = 2
  MaxAsks = 1
  MaxCrashes = 0
  Surroundings = {{"steering", "interject", "plain", "interrupt", "resume", "halt"},
                  {"follow-up", "plain", "retry", "resume", "send"}}
  Drains = FALSE
SYMMETRY Symmetric
INVARIANTS NoOrphan DurableBeforeDispatch
PROPERTIES CompletedIsTrue HonestFailure OneTurnAtATime
CHECK_DEADLOCK FALSE
