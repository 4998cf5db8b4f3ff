SPECIFICATION Spec
CONSTANTS
  Sessions = {s1, s2}
  Callers = {c1, c2}
  None = None
  MaxCheckpoints = 1
  StoreFaults = TRUE
  BusFaults = TRUE
SYMMETRY Symmetry
INVARIANTS
  StoreInStep
  PublishedIsDurable
  CheckpointRefsExist
PROPERTIES
  DurableForward
  TerminalEventIsFinal
