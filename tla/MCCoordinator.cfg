SPECIFICATION FairSpec
CONSTANTS
  s1 = s1
  s2 = s2
  Sessions <- OneOfEach
  Recovered <- OnlyFirst
  ProcessCtx <- OnlyFirst
  MaxConcurrent = 1
  MaxRetries = 1
  HeartbeatInterval = 1
  HeartbeatTimeout = 2
  BusFaults = TRUE
  SandboxFaults = FALSE
INVARIANTS
  TypeOK
  AgentOnlyWhileRunning
  HeartbeatLossIsCrash
  RetryBudget
  NoSandboxLeak
  NoSlotLeak
  FirstRunIsCounted
  CompletionNeedsApproval
  NoAbandonedSession
PROPERTIES
  TerminalStartsNothing
  DrainedMeansOver
  EverySessionSettles
