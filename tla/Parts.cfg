SPECIFICATION PartsSpec
CONSTANTS
  MaxLoads = 2
  MaxNotebooks = 1
  MaxReturns = 1
  MaxRows = 3
  MaxIndex = 2
  MaxTrainings = 2
  MaxSockets = 2
  MaxChats = 2
  MaxMessages = 2
  MaxEvents = 1
  MaxFetches = 1
  MaxPolls = 1
  MaxTableRows = 3
  Shares = 4
  Names <- MCNames
  Classes <- MCClasses
  NoClass = NoClass
  NameOf <- MCNameOf
  Compatible <- MCCompatible
  Packages <- MCPackages
  Core <- MCCore
  ComponentsOf <- ConflictingComponentsOf
  NoPackage = NoPackage
  MaxVersion = 1
  MaxRequests = 3
  MaxFaults = 1
INVARIANTS
  PartsTypeOK FoldersAreDatasets ListsAreTables ChosenIsListed
  CursorCovers ClosedHasAll OneRowPerStep
  RepliesAreOwn ChatIsCurrent SplitIsKept RelationsConsistent
CHECK_DEADLOCK FALSE
