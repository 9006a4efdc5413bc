SPECIFICATION Spec
CONSTANTS
  Keys = {k1, k2}
  NoRecord = NoRecord
  MaxVersion = 3
  NoUpdate = NoUpdate
  NoCall = NoCall
  MaxUpdates = 3
  CallKinds = {"set", "delete", "deleteVendor", "append", "replace"}
  Failing = {"worker", "caller"}
SYMMETRY Symmetry
PROPERTIES FlushNeverResurrects ReplacePreservesPending
CHECK_DEADLOCK FALSE
