SPECIFICATION Spec
CONSTANTS
  p1 = p1
  p2 = p2
  Processes <- MCProcesses
  MaxSaves = 3
  Splitting <- MCSplitting
INVARIANTS
  StorageTypeOK
  FilesWhole
  NoStrayTemps
PROPERTIES
  CheckpointAtomic
  EventsAtomicAlone
\* Nobody has to save once more.
CHECK_DEADLOCK FALSE
