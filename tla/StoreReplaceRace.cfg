SPECIFICATION Spec
CONSTANTS
  Keys = {k1}
  NoRecord = NoRecord
  MaxVersion = 3
  NoUpdate = NoUpdate
  NoCall = NoCall
  MaxUpdates = 4
  CallKinds = {"replace"}
  Failing = {}
SYMMETRY Symmetry
PROPERTIES ReplaceKeepsDisabled
CHECK_DEADLOCK FALSE
