SPECIFICATION Spec
CONSTANTS
  Names <- MCNames
  Classes <- MCClasses
  NoClass = NoClass
  NameOf <- MCNameOf
  Compatible <- MCCompatible
  Packages <- MCPackages
  Core <- MCCore
  ComponentsOf <- MCComponentsOf
  NoPackage = NoPackage
  MaxVersion = 2
  MaxRequests = 3
  MaxFaults = 1
INVARIANTS ApiUpToDate ConsumerUpToDate UnregisterFinds InstalledIsInstalled
