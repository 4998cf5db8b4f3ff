SPECIFICATION FairGateSpec
CONSTANTS
  slack = slack
  discord = discord
  other = other
  Sessions <- TwoSessions
  Answerers <- AllAnswerers
  Publishers <- AllPublishers
  Front <- Fronts
  Handlers <- AllHandlers
  Exclusive <- Topics
  Patterns <- AllPatterns
  SubjectNames <- AllSubjects
  Policies <- OnOutput
  Glob <- Globs
  Adapter <- Adapters
  Outputs <- Printed
INVARIANTS
  ClosedIsUnreachable
  RestrictedNeedsGrant
PROPERTIES
  BusSpec
  ContractSpec
  AnswersReturn
