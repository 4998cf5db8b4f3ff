CONSTANTS
  s1 = s1
  s2 = s2
  b1 = b1
  b2 = b2
  None = None
  Sessions <- TwoSessions
  Boxes <- TwoBoxes
  MaxConcurrent = 1
  StoreFaults = TRUE
  BusFaults = TRUE
  SandboxFaults = TRUE
SPECIFICATION FairSpec
INVARIANTS
  HalfDoneIsAttended
  NoOrphanContainer
PROPERTIES
  TerminalNotRevived
  HalfDoneResolves
