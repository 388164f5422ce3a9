SPECIFICATION ProgressSpec
CONSTANTS
  Calls = {1, 2}
  Contexts <- MCContexts
  Backends = {"krun", "qemu"}
  Machines = {1, 2}
  MaxUnclosed = 0
  NoConfig = NoConfig
  NoMachine = 0
  Procs = {session}
  Students = {ann}
  MaxSessions = 2
  MaxVersion = 1
  NULL = NULL
  Providers = {"ollama", "openai", "codex"}
  Kind <- MCKind
  Offers <- MCOffers
  NoModel = NoModel
CHECK_DEADLOCK FALSE
 
PROPERTIES
  SandboxCallsEnd
  SavedReachesServer
  TerminalEnds
