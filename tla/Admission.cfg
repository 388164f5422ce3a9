SPECIFICATION AdmissionSpec
CONSTANTS
  org = org
  student = student
  profile = profile
  NULL = NULL
  NumRequests = 2
  NumAccounts = 1
  NumMonths = 1
  INPUT_BOUND = 2
  OutputBounds = {1}
  PerMillion = 2
  Budgets <- MCOneBudget
  Covers <- MCOneCovers
  Profiles <- MCProfiles
  ProfileOf <- MCProfileOf
  Prices <- MCPricesWithFree
  Settings <- MCSettings
  Usages <- MCMixedUsage
  Models = {"m1", "m2"}
  Levels = {"off", "high"}
  Supports <- MCSupports
  Unlimited = Unlimited
  Governance <- MCGovernance
  AccessCalls = {1, 2}
  MaxChanges = 1
CHECK_DEADLOCK FALSE
INVARIANTS
  AdmissionInv
  
  RequestsAreGranted
  PreflightGivesUpNothing
PROPERTIES
  
  RequestsAnswered
