SPECIFICATION PublishingSpec
CONSTANTS
  Publications = {p1, p2}
  Callers = {"bridge"}
  MaxRepositories = 2
  MaxCommits = 2
  NoRepository = none
CHECK_DEADLOCK FALSE
INVARIANTS
  SavedIsOrigin
