SPECIFICATION Spec
CONSTANTS
  Names <- MCNames
  Classes <- MCClasses
  NoClass = NoClass
  NameOf <- MCNameOf
  Compatible <- MCCompatible
  Packages <- MCPackages
  Core <- MCCore
  ComponentsOf <- MCComponentsOf
  NoPackage = NoPackage
  MaxVersion = 2
  MaxRequests = 2
  MaxFaults = 0
PROPERTIES UpgradeRecorded
