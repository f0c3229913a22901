SPECIFICATION Spec
CONSTANTS
  Tools <- MCTools
  SpecOf <- MCSpecOf
  MaxAttempts = 2
INVARIANTS
  CycleTypeOK
  ExecutionJudged
  RetriesBounded
  CallFailuresRetried
  
  SpansTellTheTruth
PROPERTIES
  RewriteConverges
\* A cycle that finished, gave up or raised is over.
CHECK_DEADLOCK FALSE
