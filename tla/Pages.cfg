SPECIFICATION PagesSpec
CONSTANTS
  MaxMade = 3
  MaxBroken = 1
  MaxSessions = 1
  MaxRuns = 1
  MaxOps = 1
  MaxTrained = 2
  MaxFlows = 1
  MaxAnswers = 1
  MaxMishaps = 1
INVARIANTS
  PagesTypeOK NotebookIsReplay ExplorerSawItsData ProcessingHasJob
  FinishedHasModel OpsBelongToModel ShownIsSelected RunShownIsFollowed
CHECK_DEADLOCK FALSE
