SPECIFICATION ClientSpec
CONSTANTS
  Calls = {1, 2}
  Contexts <- MCContexts
  Backends = {"krun", "qemu"}
  Machines = {1, 2, 3}
  MaxUnclosed = 1
  NoConfig = NoConfig
  NoMachine = 0
  Codes = {"k1"}
  Runs = {"r1", "r2"}
  Earlier = "earlier"
  NoCode = "none"
  Classes = {"a", "b"}
  Projects = {"p1", "p2", "p3"}
  ClassOf <- MCClassOf
  Nothing = "none"
  Stages = {"plan", "implement"}
  Tools = {"read", "write"}
  Allowed <- MCAllowed
  SchoolTool = "school"
  TurnLimit = 2
  TutoringLimit = 1
  NoTools = NoTools
  Files = {1}
  Contents = {1, 2}
  Steps = {"x", "y"}
  ChatSessions = {s1}
  NoStep = none
  Workspaces = {a, b}
  MapSteps = {x}
  NoWorkspace = none
  NoMapStep = none
  MaxRequests = 3
  MaxRevisions = 3
  Spots = {u, v}
  CompletionModels = {m, n}
  MinuteTicks = 1
  MinuteLimit = 1
  DayTicks = 3
  DayLimit = 2
  MaxTime = 3
  MaxClears = 2
  MaxSuggests = 2
  NoSpot = none
  Presses = {1, 2, 3}
  NoPress = 0
CHECK_DEADLOCK FALSE
INVARIANTS
  ClientInv
  SandboxAgrees
  
  SelectionAgrees
  AllowanceKept
  
  PanelIsAnswered
  QuotaKept
PROPERTIES
  AuthenticatedIsConfirmed
  CloudOnlyAsAgreed
