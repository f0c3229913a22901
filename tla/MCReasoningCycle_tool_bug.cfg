SPECIFICATION Spec
CONSTANTS
  Tools <- MCTools
  SpecOf <- MCSpecOf
  MaxAttempts = 2
INVARIANTS
  ToolBugsContained
\* A cycle that finished, gave up or raised is over.
CHECK_DEADLOCK FALSE
