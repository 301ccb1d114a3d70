SPECIFICATION Spec
CONSTANTS
  Pids = {"a", "b"}
  Children = {"a", "b"}
  Caller = "caller"
  InitProc = "init"
  Codes = {"ok", "sigkill"}
  SigKilled = "sigkill"
  None = "none"
  Subreaper = FALSE
  MayLeave = TRUE
  AttachTo <- AttachedToA
  MayTryWait = TRUE
  Interruptible = FALSE
  RawAccess = FALSE
INVARIANTS LateCallsGetStatus
CHECK_DEADLOCK FALSE
