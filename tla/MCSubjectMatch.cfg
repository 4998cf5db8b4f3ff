SPECIFICATION Spec
CONSTANTS
  Patterns <- AllPatterns
  SubjectNames <- AllSubjects
INVARIANTS
  LoopIsFormula
  AgreesWithNats
