SPECIFICATION Spec
CONSTANTS
  Procs = {"child", "grandchild"}
  Child = "child"
  Modes = {"unix", "other", "tokio"}
  PipeSize = 1
  MaxBytes = 2
INVARIANTS TypeOK OutputComplete
PROPERTIES Returns
CHECK_DEADLOCK FALSE
