\* A promotion target that is not among the writable statuses.
CONSTANTS
  Config <- MCConfigBlocking
  Rows <- MCRows
  Trim <- MCTrim
  Fold <- MCFold
  DomainOf <- MCDomainOf
  Emails = {"a", "b"}
  Serials = {"s1"}
  LocationMatches <- MCLocationMatches
  SkipMatches <- MCSkipMatches
  UserRecords <- MCUserRecords
  DeviceRecords <- MCDeviceRecords
  AccountRecords <- MCAccountRecords
  AssetRecords <- MCAssetRecords
  Worlds <- MCWorlds
  MaxChanges = 0
  MaxFaults = 0
SPECIFICATION Spec
PROPERTIES
  PromotionUnblocks
