SPECIFICATION Spec
CONSTANTS
  Procs = {"l", "m"}
  Leader = "l"
  Codes = {"ok", "terminated"}
  Terminated = "terminated"
  None = "none"
  MayTryWait = FALSE
PROPERTIES WaitOutlivesJob
CHECK_DEADLOCK FALSE
