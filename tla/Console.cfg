SPECIFICATION Spec
CONSTANTS
  Ids = {v1, v2, v3}
  Names = {a, b}
  Keys = {k1}
  UnknownKey = UnknownKey
  NotConfigured = NotConfigured
  NoVendor = NoVendor
  MaxFaults = 2
SYMMETRY Symmetry
INVARIANTS SuccessConverges NoForeignKeys ChildrenExist
