SPECIFICATION Spec
CONSTANTS
  Pids = {"a", "b", "m"}
  Children = {"a", "b"}
  Caller = "caller"
  InitProc = "init"
  Codes = {"ok", "sigkill"}
  SigKilled = "sigkill"
  None = "none"
  Subreaper = TRUE
  MayLeave = TRUE
  AttachTo <- AttachedToA
  MayTryWait = TRUE
  Interruptible = TRUE
  RawAccess = TRUE
INVARIANTS StatusIsTrue
PROPERTIES AnswerIsStable PlainWaitReapsGroup
CHECK_DEADLOCK FALSE
