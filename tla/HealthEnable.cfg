SPECIFICATION Spec
CONSTANTS
  Keys = {k1}
  Requests = {r1, r2}
  NoRecord = NoRecord
  NoState = NoState
  NoAttempt = NoAttempt
  NoUpdate = NoUpdate
  NoCall = NoCall
  NoOp = NoOp
  MaxVersion = 4
  MaxIncarnations = 1
  MaxFailures = 0
  MaxLevel = 0
  MaxDuration = 0
  BaseCooldowns = {0}
  MaxUpdates = 4
  Failing = {"worker", "caller", "config"}
  AdminOps = {"enable", "disable", "recover", "append", "config"}
SYMMETRY Symmetry
PROPERTIES ManualDisableEffective OnlyAdminEnables
CHECK_DEADLOCK FALSE
