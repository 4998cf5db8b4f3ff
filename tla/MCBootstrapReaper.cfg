CONSTANTS
  s1 = s1
  s2 = s2
  b1 = b1
  b2 = b2
  None = None
  Sessions <- OneSession
  Boxes <- TwoBoxes
  MaxConcurrent = 1
  StoreFaults = FALSE
  BusFaults = FALSE
  SandboxFaults = FALSE
SPECIFICATION Spec
PROPERTIES
  ActiveContainersSpared
