SPECIFICATION LaneSpec
CONSTANTS
  Stages = {"plan", "implement"}
  Tools = {"read", "write"}
  Allowed <- MCAllowed
  SchoolTool = "school"
  TurnLimit = 2
  TutoringLimit = 1
  NoTools = NoTools
INVARIANTS
  TutoringIsToolFree
