SPECIFICATION Spec
CONSTANTS
  Names = {a, b}
  NotListed = NotListed
  NoId = NoId
  NoKeys = NoKeys
  ByName = ByName
  Remotes = {FALSE}
  KeyDrivers = {"file", "pgsql"}
  FileIds = {"missing"}
  MaxRuns = 1
  MaxFaults = 0
INVARIANT KeysFollowVendor
CHECK_DEADLOCK FALSE
