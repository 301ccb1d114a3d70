SPECIFICATION TokioSpec
CONSTANTS
  Procs = {"l", "m", "n"}
  Leader = "l"
  Codes = {"ok", "terminated"}
  Terminated = "terminated"
  None = "none"
  MayTryWait = TRUE
  Sides = {"std", "tokio"}
  Rounds = 2
  KillOnDrop = TRUE
INVARIANTS TokioTypeOK JobStatusIsTrue KillStopsJob OneThread
PROPERTIES JobKeepsPromise UnpolledKillReturns ThreadLetGo
CHECK_DEADLOCK FALSE
