SPECIFICATION OrgSpec
CONSTANTS
  Users = {ann, ben}
  Txns = {c1, c2}
  MaxCalls = 3
  NoRow = NoRow
  Kinds <- ClosureKinds
CHECK_DEADLOCK FALSE
INVARIANTS
  OperatingHasOwner
