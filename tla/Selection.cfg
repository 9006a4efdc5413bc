SPECIFICATION Spec
CONSTANTS
  Pickers = {"weighted", "round_robin", "performance"}
  Size <- MCSize
  Weight <- MCWeight
  Priority <- MCPriority
  explorationInterval = 3
  sampleFreshness = 2
  MaxFailed = 2
  MaxInflight = 1
  MaxChanges = 1
INVARIANT BoundedUnfairness
PROPERTY KeptInRotation
