SPECIFICATION Spec
CONSTANTS
  Platforms = {"windows"}
  UserFlags <- SomeFlags
  MaxSpawns = 1
PROPERTIES SuspendedAsAsked
CHECK_DEADLOCK FALSE
