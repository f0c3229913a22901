SPECIFICATION Spec
CONSTANTS
  MaxMissions = 2
  MaxRequests = 2
  Limits = {1, 2}
  Texts = {"plain", "splitting"}
  CrashPoints <- AnyStage
INVARIANTS
  TypeOK
  AtMostOnce
  ConsumedBeforeExecution
  AnswerSavedFirst
  DecideBudget
  AwaitingHasRequest
  ObservationsMirrorLog
PROPERTIES
  CheckpointMonotone
  DecidedEndSaved
  EveryStepSpends
  RefinesConfirmedOnce
