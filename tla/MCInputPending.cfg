SPECIFICATION Spec
CONSTANTS
  Ids = {a, b}
  Intents = {"follow-up"}
  Forms = {"plain"}
  MaxPending = 1
  MaxItems = 2
  MaxBodies = 1
  MaxEpoch = 2
INVARIANT PendingBounded
