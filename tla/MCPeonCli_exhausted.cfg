SPECIFICATION Spec
CONSTANTS
  MaxMissions = 1
  MaxRequests = 0
  Limits = {1}
  Texts = {"plain"}
  CrashPoints <- NoStage
PROPERTIES
  FinalStateSaved
