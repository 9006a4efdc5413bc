SPECIFICATION FairSpec
CONSTANTS
  Ids = {v1, v2}
  Names = {a, b}
  Keys = {k1}
  UnknownKey = UnknownKey
  NotConfigured = NotConfigured
  NoVendor = NoVendor
  MaxFaults = 1
PROPERTY OrphansCleaned
