SPECIFICATION TokioSpec
CONSTANTS
  Pids = {"a", "m", "n"}
  Children = {"a"}
  Caller = "caller"
  InitProc = "init"
  Codes = {"ok", "sigkill"}
  SigKilled = "sigkill"
  None = "none"
  Subreaper = TRUE
  MayLeave = FALSE
  AttachTo <- AllLeaders
  MayTryWait = TRUE
  Interruptible = TRUE
  RawAccess = FALSE
  Rounds = 2
  KillOnDrop = TRUE
INVARIANTS PlainUnwrapIsSafe TokioTypeOK StatusIsTrue OneDrainer
PROPERTIES PlainWaitOutlivesGroup AnswerIsStable DrainerEnds KillSettles
CHECK_DEADLOCK FALSE
