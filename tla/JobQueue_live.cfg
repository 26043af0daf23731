SPECIFICATION FairSpec
CONSTANTS
  Tasks = {t1, t2}
  Entities = {run, prediction}
  Careful = {run}
  NoTask = NoTask
  NoEntity = NoEntity
  MaxFaults = 2
PROPERTIES RowSettles StatusSettles QueueDrains
CHECK_DEADLOCK FALSE
