SPECIFICATION MCSpec
CONSTANTS
  a = a
  b = b
  c = c
  p1 = p1
  p2 = p2
  Calls = {a, b, c}
  Processes = {p1, p2}
  HostOf <- MCHostOf
  PathsOf <- MCPathsOf
  Within <- MCWithin
  MaxClaims = 3
  MaxFaults = 1
  Kinds = {"read", "write"}
  MaxCalls = 2
  MaxToolRounds = 1
  Concurrency = 2
  MaxContinuations = 1
  MaxRetries = 0
  MaxTurns = 1
  MaxSteers = 1
  MaxHeld = 1
  Ids = {a, b}
  NoInput = NoInput
  Operations = {"input", "compaction"}
  Intents = {"follow-up", "steering", "interject"}
  Forms = {"plain"}
  MaxPending = 2
  MaxItems = 2
  MaxBodies = 2
  MaxEpoch = 1
  MaxAsks = 2
INVARIANTS
  ClaimExclusion ClaimKept
  NativeNoOrphan CompletedIsRecorded
PROPERTIES
  ClaimsImplementLocks ClaimAdmitted TurnEndsOnInterrupt CallersReturn InterjectionStarts
