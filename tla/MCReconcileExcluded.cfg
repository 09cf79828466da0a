\* A user whom the source lists and users.include_when excludes.
CONSTANTS
  Config <- MCConfig
  Rows <- MCRows
  Trim <- MCTrim
  Fold <- MCFold
  DomainOf <- MCDomainOf
  Emails = {"a", "b"}
  Serials = {"s1"}
  LocationMatches <- MCLocationMatches
  SkipMatches <- MCSkipMatches
  UserRecords <- MCUserRecords
  DeviceRecords <- MCDeviceRecords
  AccountRecords <- MCAccountRecords
  AssetRecords <- MCAssetRecords
  Worlds <- MCWorlds
  MaxChanges = 1
  MaxFaults = 0
SPECIFICATION Spec
PROPERTIES
  MovesOnlyAbsentUsers
