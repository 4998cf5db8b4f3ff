SPECIFICATION Spec
CONSTANTS
  s1 = s1
  s2 = s2
  Sessions <- OneOfEach
  Recovered <- None
  ProcessCtx <- None
  MaxConcurrent = 1
  MaxRetries = 1
  HeartbeatInterval = 1
  HeartbeatTimeout = 2
  BusFaults = FALSE
  SandboxFaults = FALSE
INVARIANTS
  OnlyMaxConcurrentRun
