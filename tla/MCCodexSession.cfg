SPECIFICATION TSpec
CONSTANTS
  Ids = {a, b}
  None = None
  Intents = {"follow-up", "steering", "interject"}
  Forms = {"plain", "file"}
  MaxPending = 2
  MaxItems = 2
  MaxBodies = 2
  MaxEpoch = 2
  MaxTurns = 2
  MaxAsks = 1
  MaxCrashes = 1
  Surroundings <- MCSurroundings
  Drains = TRUE
SYMMETRY Symmetric
INVARIANTS NoOrphan NoLostWakeup
CHECK_DEADLOCK FALSE
