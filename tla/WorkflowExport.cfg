SPECIFICATION Spec
CONSTANTS
  Updates <- MCUpdates
  LearnModes = {TRUE}
  Reflection = TRUE
  MaxSteps = 1
  MaxPending = 2
CHECK_DEADLOCK FALSE
PROPERTY SavesAreVerified
