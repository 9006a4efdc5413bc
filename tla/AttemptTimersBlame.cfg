SPECIFICATION TimersSpec
CONSTANTS
  Timeout = 1
  LiveBodies = {TRUE}
INVARIANT ClientFailureKept
CHECK_DEADLOCK FALSE
