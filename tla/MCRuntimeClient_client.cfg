SPECIFICATION Spec
CONSTANTS
  MaxMissions = 2
  MaxRequests = 2
  MaxObjects = 3
  MaxCycles = 2
  MaxCalls = 7
INVARIANTS
  ClientTypeOK
  OnceUnlessStale
  EventsStoredOnce
  ListMatchesLog
  OwnObservationsOnly
PROPERTIES
  StoredCheckpointFrozen
\* The client need not call anything more.
CHECK_DEADLOCK FALSE
