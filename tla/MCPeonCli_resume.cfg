SPECIFICATION Spec
CONSTANTS
  MaxMissions = 2
  MaxRequests = 3
  Limits = {1, 2}
  Texts = {"plain", "splitting"}
  CrashPoints <- OutsideSaving
INVARIANTS
  ContextFaithful
  JournalChained
  SnapshotMatchesJournal
