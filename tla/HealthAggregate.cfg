SPECIFICATION Spec
CONSTANTS
  Keys = {k1}
  Requests = {r1, r2}
  NoRecord = NoRecord
  NoState = NoState
  NoAttempt = NoAttempt
  NoUpdate = NoUpdate
  NoCall = NoCall
  NoOp = NoOp
  MaxVersion = 3
  MaxIncarnations = 2
  MaxFailures = 0
  MaxLevel = 0
  MaxDuration = 0
  BaseCooldowns = {0}
  MaxUpdates = 3
  Failing = {"worker", "caller", "config"}
  AdminOps = {"disable", "config", "aggregate"}
SYMMETRY Symmetry
INVARIANTS DisablesReachStore
PROPERTIES ManualDisableEffective ImplementsPool
CHECK_DEADLOCK FALSE
