SPECIFICATION Spec
CONSTANTS
  p1 = p1
  p2 = p2
  Processes <- MCProcesses
  MaxSaves = 3
  Splitting <- MCSplitting
PROPERTIES
  EventsAppendOnly
\* Nobody has to save once more.
CHECK_DEADLOCK FALSE
