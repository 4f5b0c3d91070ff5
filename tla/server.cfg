SPECIFICATION Spec
CONSTANTS
  Blocked = {"bad"}
  EnvHosts = {"h3"}
  EnvCommands = {}
  AllowAny = FALSE
  Any = Any
  Bare = "none"
  Registries <- MCRegistries
  Contents = {c1, c2}
  Missing = Missing
  MaxTicks = 3
  Calls <- MCCalls
  Plans <- MCPlans
  Scenarios <- MCScenarios
  NoPolicy = NoPolicy
  NoName = NoName
  MaxFaults = 1
INVARIANTS
  AuditTruthful
  
  PinsFresh
PROPERTIES
  ClosedAtEnd
CHECK_DEADLOCK FALSE
