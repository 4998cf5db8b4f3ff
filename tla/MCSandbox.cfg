SPECIFICATION FairSpec
CONSTANTS
  Calls = {c1, c2}
  Names = {n1}
  None = None
  EventBuffer = 1
  MaxLines = 2
INVARIANTS
  ContainerIsKnown
  EntryHasContainer
  ReaderIsGone
PROPERTIES
  OnlyDestroyRemoves
  CancelledReturns
