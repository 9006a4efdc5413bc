SPECIFICATION Spec
CONSTANTS
  Keys = {k1}
  Requests = {r1, r2}
  NoRecord = NoRecord
  NoState = NoState
  NoAttempt = NoAttempt
  MaxVersion = 2
  MaxIncarnations = 2
  MaxFailures = 2
  MaxLevel = 2
  MaxDuration = 3
  BaseCooldowns = {2}
SYMMETRY Symmetry
INVARIANTS TypeOK InflightConserved RetiredMatchesPlan
PROPERTIES StaleStaysStale NoResurrection CooldownHonoured
