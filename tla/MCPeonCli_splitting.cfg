SPECIFICATION Spec
CONSTANTS
  MaxMissions = 1
  MaxRequests = 0
  Limits = {2}
  Texts = {"plain", "splitting"}
  CrashPoints <- NoStage
INVARIANTS
  EventLogStaysReadable
