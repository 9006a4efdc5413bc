SPECIFICATION FairSpec
CONSTANTS
  Keys = {k1, k2}
  NoRecord = NoRecord
  MaxVersion = 2
  NoUpdate = NoUpdate
  NoCall = NoCall
  MaxUpdates = 3
  CallKinds = {"delete", "deleteVendor", "append", "replace"}
  Failing = {"worker", "caller", "reconcile"}
PROPERTIES PendingDrained CloseEnds
CHECK_DEADLOCK FALSE
