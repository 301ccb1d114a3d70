SPECIFICATION Spec
CONSTANTS
  Pids = {"a", "m"}
  Children = {"a"}
  Caller = "caller"
  InitProc = "init"
  Codes = {"ok", "sigkill"}
  SigKilled = "sigkill"
  None = "none"
  Subreaper = TRUE
  MayLeave = TRUE
  AttachTo <- AllLeaders
  MayTryWait = TRUE
  Interruptible = FALSE
  RawAccess = FALSE
INVARIANTS LateCallsGetStatus
CHECK_DEADLOCK FALSE
