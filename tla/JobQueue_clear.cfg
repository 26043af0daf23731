SPECIFICATION Spec
CONSTANTS
  Tasks = {t1, t2}
  Entities = {run}
  Careful = {run}
  NoTask = NoTask
  NoEntity = NoEntity
  MaxFaults = 0
PROPERTIES ClearCancelsAll
CHECK_DEADLOCK FALSE
