SPECIFICATION TimersSpec
CONSTANTS
  Timeout = 3
  LiveBodies = {TRUE, FALSE}
INVARIANTS VerdictNamesWaiter
PROPERTIES ImplementsReadDeadline UploadedNotCancelled UploadEnds
CHECK_DEADLOCK FALSE
