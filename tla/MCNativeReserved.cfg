SPECIFICATION NativeSpec
CONSTANTS
  Ids = {a}
  NoInput = NoInput
  Operations = {"input", "compaction", "reservation"}
  Intents = {"interject"}
  Forms = {"plain"}
  MaxPending = 1
  MaxItems = 1
  MaxBodies = 1
  MaxEpoch = 1
  MaxAsks = 2
PROPERTY InterjectionStarts
