SPECIFICATION NotebookSpec
CONSTANTS
  MaxMade = 2
  MaxBroken = 0
INVARIANTS DeletedIsUndone
CHECK_DEADLOCK FALSE
