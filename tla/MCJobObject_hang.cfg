SPECIFICATION Spec
CONSTANTS
  Procs = {"l"}
  Leader = "l"
  Codes = {"ok", "terminated"}
  Terminated = "terminated"
  None = "none"
  MayTryWait = TRUE
PROPERTIES WaitReturns
CHECK_DEADLOCK FALSE
