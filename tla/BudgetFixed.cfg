SPECIFICATION FixedSpec
CONSTANTS
  org = org
  student = student
  profile = profile
  NULL = NULL
  NumRequests = 2
  NumAccounts = 2
  NumMonths = 2
  INPUT_BOUND = 2
  OutputBounds = {1, 2}
  PerMillion = 2
  Budgets <- MCBudgets
  Covers <- MCCovers
  Profiles <- MCProfiles
  ProfileOf <- MCProfileOf
  Prices <- MCPrices
  Settings <- MCOneSetting
  Usages <- MCUsages
CHECK_DEADLOCK FALSE
INVARIANTS
  WithinLimits
  TutoringReserveKept
  ModelWorkIsBooked
  DailyMatchesLedger
  HonestUsageSettles
PROPERTIES
  HeldUntilSettled
  ImplementsPromise
