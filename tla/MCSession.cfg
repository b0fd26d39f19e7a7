SPECIFICATION MCSpec
CONSTANTS
  d1 = d1
  d2 = d2
  Ids = {a, b}
  Intents = {"follow-up"}
  Forms = {"plain", "redacted"}
  MaxPending = 2
  MaxItems = 2
  MaxBodies = 1
  MaxEpoch = 2
  Directories = {d1, d2}
  MaxNodes = 4
  MaxMessages = 2
  MaxAsks = 3
  MaxOpens = 2
  MaxFileFaults = 1
SYMMETRY Symmetric
INVARIANTS
  TypeOK ListOrder AcceptedOnce StaleDirectoryHeld
  ContextsRetained SwitchSettles TranscriptFollows
PROPERTY NoSilentReplay
