SPECIFICATION Spec
CONSTANTS
  Tasks = {t1, t2, t3}
  Entities = {run, prediction}
  Careful = {run}
  NoTask = NoTask
  NoEntity = NoEntity
  MaxFaults = 1
SYMMETRY TaskSymmetry
INVARIANTS TypeOK QueuedShown EmptyIsIdle StartedRowsLive DeliveredHasTask RowAgreesWithEntity
PROPERTIES ImplementsLifecycle
CHECK_DEADLOCK FALSE
