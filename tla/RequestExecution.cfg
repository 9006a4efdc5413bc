SPECIFICATION Spec
CONSTANTS
  Vendors = {"A", "P"}
  Managed = {"A"}
  Keys = {"a1", "a2"}
  VendorKeys <- MCVendorKeys
  ClientKey = "client"
  Children = {"c1", "c2", "c3", "c4"}
  None = None
  ChildVendor <- MCChildVendor
  ChildKeys <- MCChildKeys
  AllKeys = AllKeys
  Priority <- MCPriority
  Aggregate = "agg"
  Configs <- MCConfigs
  MaxLosses = 1
  Responses <- MCResponses
INVARIANTS
  NoTargetTwice WithinBudget ProcessedAtMostOnce ExactlyOneAnswer
  PromisedRetryHappens KeyHeldOnce VerdictByUpstream TruncationVisible
PROPERTIES InterimBeforeFinal RequestEnds
CHECK_DEADLOCK FALSE
