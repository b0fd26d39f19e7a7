SPECIFICATION ToolSpec
CONSTANTS
  Kinds = {"read", "write"}
  MaxCalls = 2
  MaxToolRounds = 1
  Concurrency = 2
  MaxContinuations = 0
  MaxRetries = 0
  MaxTurns = 1
  MaxSteers = 1
  MaxHeld = 0
INVARIANT ReadsAreFresh
