SPECIFICATION FairSpec
CONSTANTS
  MaxMissions = 2
  MaxRequests = 2
  Limits = {2}
  Texts = {"plain"}
  CrashPoints <- AnyStage
PROPERTIES
  EveryCommandEnds
