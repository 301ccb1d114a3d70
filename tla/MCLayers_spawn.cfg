SPECIFICATION LayersSpec
CONSTANTS
  Platforms = {"unix", "windows"}
  UserFlags <- SomeFlags
  MaxSpawns = 2
INVARIANTS TypeOK BuilderRestored LayersInOrder NothingRunsOutsideJob
  OnlySessionsConflict SpawnedAsAsked
  StatusThroughLayers CallsPassNoGroup NoFreedPid
PROPERTIES FailedSpawnLeavesNothing UnwoundStartsNothing GetWrapNeverPanics
CHECK_DEADLOCK FALSE
