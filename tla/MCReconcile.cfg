\* What one cycle may and must do while the world changes.
CONSTANTS
  Config <- MCConfig
  Rows <- MCRows
  Trim <- MCTrim
  Fold <- MCFold
  DomainOf <- MCDomainOf
  Emails = {"a", "b"}
  Serials = {"s1"}
  LocationMatches <- MCLocationMatches
  SkipMatches <- MCSkipMatches
  UserRecords <- MCUserRecords
  DeviceRecords <- MCDeviceRecords
  AccountRecords <- MCAccountRecords
  AssetRecords <- MCAssetRecords
  Worlds <- MCWorlds
  MaxChanges = 2
  MaxFaults = 1
SPECIFICATION Spec
INVARIANTS
  TypeOK
PROPERTIES
  NoNeedlessWrite
  OneCycleSuffices
