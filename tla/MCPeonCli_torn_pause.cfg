SPECIFICATION Spec
CONSTANTS
  MaxMissions = 2
  MaxRequests = 1
  Limits = {2}
  Texts = {"plain"}
  CrashPoints <- WhilePausing
INVARIANTS
  ContextFaithful
