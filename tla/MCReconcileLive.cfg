\* Convergence over many cycles, after changes, lost calls and crashes.
CONSTANTS
  Config <- MCConfigChained
  Rows <- MCRows
  Trim <- MCTrim
  Fold <- MCFold
  DomainOf <- MCDomainOf
  Emails = {"a", "b"}
  Serials = {"s1"}
  LocationMatches <- MCLocationMatches
  SkipMatches <- MCSkipChained
  UserRecords <- MCUserRecords
  DeviceRecords <- MCDeviceRecords
  AccountRecords <- MCAccountRecords
  AssetRecords <- MCAssetRecords
  Worlds <- MCWorlds
  MaxChanges = 1
  MaxFaults = 2
SPECIFICATION Spec
PROPERTIES
  Converges
