SPECIFICATION WorkspaceSpec
CONSTANTS
  Surfaces = {"bridge", "chat"}
  MaxEmitted <- MCMaxEmitted
  MaxPending = 1
  MaxForgets <- MCMaxForgets
  MaxLines = 1
  EventLimit = 3
  SeenLimit = 2
  SeenKept = 1
  Scopes <- MCScopes
  ToolCalls = {1, 2}
  MaxBindings = 2
  NoScope = NoScope
  Publications = {p1}
  Callers = {"bridge", "command"}
  MaxRepositories = 2
  MaxCommits = 2
  NoRepository = none
  Procs = {session}
  Students = {eva, fay}
  MaxSessions = 1
  MaxVersion = 2
  NULL = NULL
  Files = {f}
  KindSets <- MCKindSets
  Foreign = {"file.changed"}
  Gaps = {0, 3}
  MaxEvents = 4
  Debounce = 1
  EDIT_GROUP = 3
  RELATED = 4
  IdOrder <- MCIdOrder
  MAX_REFERENCES = 2
  MAX_EVIDENCE = 6
  Refreshes = {1, 2}
  Projections <- MCProjections
  Answered = {"repeated_failures"}
  Required = TRUE
  Users = {ann, ben}
  Txns = {c1, c2}
  MaxCalls = 4
  NoRow = NoRow
  Kinds <- AllKinds
SYMMETRY Symmetric
CHECK_DEADLOCK FALSE
INVARIANTS
  WorkspaceInv
  ActivityKept
  EvidenceIsMeant
  ProjectOnRecord
  MembershipKept
PROPERTIES
  
  QueueKept
  OwnerLostOnlyUnseen
