SPECIFICATION Spec
CONSTANTS
  Pids = {"a", "m", "n"}
  Children = {"a"}
  Caller = "caller"
  InitProc = "init"
  Codes = {"ok", "sigkill"}
  SigKilled = "sigkill"
  None = "none"
  Subreaper = FALSE
  MayLeave = TRUE
  AttachTo <- AllLeaders
  MayTryWait = TRUE
  Interruptible = TRUE
  RawAccess = FALSE
INVARIANTS PlainUnwrapIsSafe TypeOK NoStatusLost LateCallsGetStatus KillReachesGroup
PROPERTIES KeepsPromise KillReturns
CHECK_DEADLOCK FALSE
