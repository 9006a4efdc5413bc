SPECIFICATION FairSpec
CONSTANTS
  Keys = {k1}
  NoRecord = NoRecord
  MaxVersion = 4
  NoUpdate = NoUpdate
  NoCall = NoCall
  MaxUpdates = 4
  CallKinds = {"set", "delete", "deleteVendor", "append", "replace"}
  Failing = {"worker", "caller"}
PROPERTIES FlushNeverResurrects ReplacePreservesPending PendingDrained CloseEnds
CHECK_DEADLOCK FALSE
