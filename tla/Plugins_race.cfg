SPECIFICATION UpdatesSpec
CONSTANTS
  Names <- MCNames
  Classes <- MCClasses
  NoClass = NoClass
  NameOf <- MCNameOf
  Compatible <- MCCompatible
  Packages <- MCPackages
  Core <- MCCore
  ComponentsOf <- ConflictingComponentsOf
  NoPackage = NoPackage
  MaxVersion = 1
  MaxRequests = 3
  MaxFaults = 0
INVARIANTS ConsumerUpToDate
\* Nothing is left to do once the requests are used up: UpdatesSpec has no restart.
CHECK_DEADLOCK FALSE
