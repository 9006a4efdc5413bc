SPECIFICATION Spec
CONSTANTS
  Keys = {k1}
  Requests = {r1}
  NoRecord = NoRecord
  NoState = NoState
  NoAttempt = NoAttempt
  NoUpdate = NoUpdate
  NoCall = NoCall
  NoOp = NoOp
  MaxVersion = 4
  MaxIncarnations = 1
  MaxFailures = 0
  MaxLevel = 0
  MaxDuration = 0
  BaseCooldowns = {0}
  MaxUpdates = 4
  Failing = {}
  AdminOps = {"recover"}
SYMMETRY Symmetry
INVARIANTS StoreDisablesServed
CHECK_DEADLOCK FALSE
