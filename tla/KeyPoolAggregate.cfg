SPECIFICATION Spec
CONSTANTS
  Keys = {k1}
  Requests = {r1}
  NoRecord = NoRecord
  NoState = NoState
  NoAttempt = NoAttempt
  MaxVersion = 1
  MaxIncarnations = 2
  MaxFailures = 0
  MaxLevel = 0
  MaxDuration = 0
  BaseCooldowns = {0}
SYMMETRY Symmetry
PROPERTIES OldRoutersAgree
