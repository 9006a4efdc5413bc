SPECIFICATION Spec
CONSTANTS
  Names = {a, b}
  NotListed = NotListed
  NoId = NoId
  NoKeys = NoKeys
  ByName = ByName
  Remotes = {TRUE, FALSE}
  KeyDrivers = {"file", "pgsql"}
  FileIds = {"same", "other"}
  MaxRuns = 2
  MaxFaults = 2
INVARIANT KeysFollowVendor
PROPERTIES NothingMoved UpgradeCompletes
CHECK_DEADLOCK FALSE
