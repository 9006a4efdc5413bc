SPECIFICATION Spec
CONSTANTS
  Keys = {k1}
  None = None
  MaxCount = 3
  MaxFaults = 2
  Configs = {TRUE, FALSE}
INVARIANTS NothingInvented
