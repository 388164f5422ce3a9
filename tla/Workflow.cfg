SPECIFICATION SessionSpec
CONSTANTS
  Updates <- MCUpdates
  LearnModes = {TRUE}
  Reflection = TRUE
  MaxSteps = 2
  MaxPending = 2
  AskStages = {"plan", "implement"}
  Intents = {"BUILD"}
  Prompts = {1, 2, 3}
  NoIntent = "none"
  Required = {1, 3}
  StageQuestions <- MCStageQuestions
  IntentQuestions <- MCIntentQuestions
  MaxRounds = 2
  MaxQuestions = 2
CHECK_DEADLOCK FALSE
INVARIANTS
  
  RoundsEnd
PROPERTIES
  EditsFollowApproval
  SavesFollowAPass
  PracticeIsReadOnly
