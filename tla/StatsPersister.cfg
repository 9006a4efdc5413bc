SPECIFICATION Spec
CONSTANTS
  Keys = {k1, k2}
  None = None
  MaxCount = 2
  MaxFaults = 2
  Configs = {TRUE}
SYMMETRY Symmetry
INVARIANTS NothingLost NothingInvented
PROPERTIES FinalFlushComplete
