---------------------------- MODULE PeonCliProofs ----------------------------
(***************************************************************************)
(* Proofs about PeonCli for every number of missions and of requests, every *)
(* set of limits and every set of crash points.                            *)
(***************************************************************************)
EXTENDS PeonCli, SequenceTheorems, TLAPS

-----------------------------------------------------------------------------
(* The inductive invariant *)

\* At every stage the mission is in the status the code there relies on.
StatusByStage ==
  /\ stage \in {"reasoning", "deciding", "outcome_checkpoint", "outcome_events"}
       => mission.status = "REASONING"
  /\ stage \in {"consume_checkpoint", "consume_events", "executing"}
       => mission.status = "EXECUTING"
  /\ stage \in {"pause_events", "asking"} => mission.status = "AWAITING_CONFIRMATION"
  /\ stage = "returned" => mission.status \in TerminalStates \cup {"AWAITING_CONFIRMATION"}
  /\ stage \in {"final_events", "done"} => mission.status \in TerminalStates
  /\ stage \in Idle => mission = NoMission /\ pending = NoRequest /\ current = NoRequest
  /\ stage \in Busy => mission.id \in Missions

\* A request is pending exactly while its mission awaits the answer, in memory
\* and on disk.
PendingWhileAwaiting(m, request) ==
  /\ m.status = "AWAITING_CONFIRMATION" <=> request # NoRequest
  /\ request # NoRequest => /\ request.id \in Requests
                            /\ request.mission = m.id
                            /\ m.id \in Missions

Control ==
  /\ StatusByStage
  /\ PendingWhileAwaiting(mission, pending)
  /\ PendingWhileAwaiting(checkpoint.mission, checkpoint.pending)
  /\ current # NoRequest
       => /\ current.id \in Requests
          /\ stage \in {"consume_checkpoint", "consume_events", "executing"}
  /\ stage \in {"consume_checkpoint", "consume_events"} => current # NoRequest

TypeInv == TypeOK /\ Control

\* A request that memory or disk still knows of has been issued, and not run.
Unspent(request) ==
  request # NoRequest => request.id <= issued /\ executions[request.id] = 0

Bookkeeping ==
  /\ \A r \in Requests : r > issued => executions[r] = 0
  /\ Unspent(pending)
  /\ Unspent(current)
  /\ Unspent(checkpoint.pending)
  /\ stage \in {"consume_events", "executing"} /\ current # NoRequest
       => checkpoint.pending = NoRequest

ExecutionInv == TypeInv /\ Bookkeeping /\ AtMostOnce

\* The reasoner has not been asked more often than the mission's own count, or
\* its limit, allows.
WithinBudget(m) == decided[m.id] <= m.iteration /\ decided[m.id] <= m.limit

(***************************************************************************)
(* The mission in memory is within budget, and so is the mission on disk   *)
(* as long as it can be resumed: while the reasoner may be asked again,    *)
(* the checkpoint no longer offers an older count of the same mission.     *)
(***************************************************************************)
Accounting ==
  /\ checkpoint.mission.id <= started
  /\ mission.id <= started
  /\ \A m \in Missions : m > started => decided[m] = 0
  /\ mission.id # 0 => WithinBudget(mission)
  /\ checkpoint.pending # NoRequest => WithinBudget(checkpoint.mission)
  /\ stage \in {"reasoning", "deciding", "executing", "consume_events", "outcome_events"}
       /\ checkpoint.mission.id = mission.id
     => checkpoint.pending = NoRequest

BudgetInv == TypeInv /\ Accounting

-----------------------------------------------------------------------------

\* What the state machine does with each event the runtime sends, in the status
\* the runtime sends it in.
LEMMA TransitionFacts ==
  /\ Transition("CREATED", Simple("mission_created")) = "REASONING"
  /\ Transition("REASONING", Simple("mission_succeeded")) = "SUCCEEDED"
  /\ Transition("REASONING", Simple("mission_failed")) = "FAILED"
  /\ Transition("REASONING", Simple("max_iterations_reached")) = "MAX_ITERATIONS"
  /\ Transition("AWAITING_CONFIRMATION", Simple("confirmation_granted")) = "EXECUTING"
  /\ Transition("AWAITING_CONFIRMATION", Simple("confirmation_denied")) = "REASONING"
  /\ Transition("EXECUTING", Simple("tool_execution_finished")) = "REASONING"
  /\ Transition("REASONING", PolicyEvaluated("ALLOWED")) = "EXECUTING"
  /\ Transition("REASONING", PolicyEvaluated("REQUIRES_CONFIRMATION")) = "AWAITING_CONFIRMATION"
  /\ \A verdict \in {"DENIED", "REWRITE"} :
       Transition("REASONING", PolicyEvaluated(verdict)) = "REASONING"
BY DEF Transition, Simple, PolicyEvaluated, SimpleTransition, VerdictTransition

-----------------------------------------------------------------------------
(* Type correctness *)

\* What a mission keeps and gains when its status, or its count, is set.
LEMMA Advanced ==
  ASSUME NEW m \in Mission, NEW event, NEW s \in MissionStatus, Transition(m.status, event) = s
  PROVE  /\ Advance(m, event) \in Mission
         /\ Advance(m, event).status = s
         /\ Advance(m, event).id = m.id
BY DEF Mission, Advance

\* The iteration count may grow by one, past the limit as well.
LEMMA WithNextIteration ==
  ASSUME NEW m \in Mission
  PROVE  LET n == [m EXCEPT !.iteration = @ + 1]
         IN  n \in Mission /\ n.status = m.status /\ n.id = m.id
BY DEF Mission

\* The values of a process that holds nothing are of the right types.
LEMMA NothingYet ==
  /\ NoMission \in Mission
  /\ NoMission.status = "CREATED"
  /\ NoRequest \in ConfirmationRequest
  /\ NoCheckpoint \in Checkpoint
  /\ NoCheckpoint.mission = NoMission
  /\ NoCheckpoint.pending = NoRequest
BY DEF NoMission, NoRequest, NoCheckpoint, Mission, MissionStatus, ConfirmationRequest, Checkpoint

\* The invariant holds before the first command.
LEMMA TypeInit == Init => TypeInv
BY NothingYet, EmptySeq, MissionsAssumption, RequestsAssumption
   DEF Init, TypeInv, TypeOK, ControlTypes, JournalTypes, Control, StatusByStage, PendingWhileAwaiting, Stages, Idle, Busy,
       CheckpointStages, EventStages, RuntimeStages, CliStages


\* Control, step by step.  One case per action of Next.
LEMMA ControlStep == TypeInv /\ [Next]_vars => ControlTypes' /\ Control'
<1> SUFFICES ASSUME TypeInv, [Next]_vars PROVE ControlTypes' /\ Control'
  OBVIOUS
<1> USE DEF TypeInv, TypeOK, ControlTypes, Control, StatusByStage, PendingWhileAwaiting, Stages,
            Idle, Busy, CheckpointStages, EventStages, RuntimeStages, CliStages, disk, counters, memory
<1>1. ASSUME NEW limit \in Limits, RunCommand(limit) PROVE ControlTypes' /\ Control'
  <2> DEFINE new == [id |-> started + 1, status |-> "CREATED", iteration |-> 0, limit |-> limit]
  <2>1. new \in Mission /\ new.status = "CREATED" /\ new.id \in Missions
    BY <1>1, MissionsAssumption DEF RunCommand, Run, Mission, Missions, MissionStatus
  <2>2. /\ mission' = Advance(new, Simple("mission_created"))
        /\ stage' = LoopHead(mission')
        /\ pending' = NoRequest
        /\ started' = started + 1 /\ started < MaxMissions
        /\ UNCHANGED <<current, checkpoint, issued, executions, decided>>
        /\ stage \in Idle
    BY <1>1 DEF RunCommand, Run
  <2>3. mission' \in Mission /\ mission'.status = "REASONING" /\ mission'.id \in Missions
    BY <2>1, <2>2, Advanced, TransitionFacts DEF MissionStatus
  <2>4. stage' = "reasoning"
    BY <2>2, <2>3 DEF LoopHead
  <2> HIDE DEF new
  <2>5. started' \in 0..MaxMissions
    BY <2>2, MissionsAssumption
  <2> QED
    BY <2>2, <2>3, <2>4, <2>5, NothingYet
<1>2. CASE BeginCycle
  BY <1>2, WithNextIteration DEF BeginCycle
<1>3. CASE ExhaustIterations
  <2> DEFINE over == Advance(mission, Simple("max_iterations_reached"))
  <2>1. over \in Mission /\ over.status = "MAX_ITERATIONS" /\ over.id = mission.id
    BY <1>3, Advanced, TransitionFacts DEF ExhaustIterations, MissionStatus
  <2>2. mission' = [over EXCEPT !.iteration = @ + 1]
    BY <1>3 DEF ExhaustIterations
  <2> HIDE DEF over
  <2>3. mission' \in Mission /\ mission'.status = "MAX_ITERATIONS" /\ mission'.id = mission.id
    BY <2>1, <2>2, WithNextIteration
  <2>4. stage' = "returned"
    BY <1>3, <2>3 DEF ExhaustIterations, LoopHead
  <2> QED
    BY <1>3, <2>3, <2>4 DEF ExhaustIterations, TerminalStates
<1>4. CASE FailOnReasoningError \/ FinishFailure
  <2>1. mission' \in Mission /\ mission'.status = "FAILED" /\ mission'.id = mission.id
    BY <1>4, Advanced, TransitionFacts
       DEF FailOnReasoningError, FinishFailure, FinishMission, MissionStatus
  <2>2. stage' = "returned"
    BY <1>4, <2>1 DEF FailOnReasoningError, FinishFailure, FinishMission, LoopHead
  <2> QED
    BY <1>4, <2>1, <2>2 DEF FailOnReasoningError, FinishFailure, FinishMission, TerminalStates
<1>5. CASE FinishSuccess
  <2>1. mission' \in Mission /\ mission'.status = "SUCCEEDED" /\ mission'.id = mission.id
    BY <1>5, Advanced, TransitionFacts DEF FinishSuccess, FinishMission, MissionStatus
  <2>2. stage' = "returned"
    BY <1>5, <2>1 DEF FinishSuccess, FinishMission, LoopHead
  <2> QED
    BY <1>5, <2>1, <2>2 DEF FinishSuccess, FinishMission, TerminalStates
<1>6. CASE DecideRaises
  BY <1>6, NothingYet DEF DecideRaises, Raise, ForgetMemory
<1>7. ASSUME NEW verdict \in {"DENIED", "REWRITE"}, NEW reason \in Texts, RejectAction(verdict, reason)
      PROVE  ControlTypes' /\ Control'
  <2>1. mission' \in Mission /\ mission'.status = "REASONING" /\ mission'.id = mission.id
    BY <1>7, Advanced, TransitionFacts DEF RejectAction, MissionStatus
  <2>2. stage' = "reasoning"
    BY <1>7, <2>1 DEF RejectAction, LoopHead
  <2> QED
    BY <1>7, <2>1, <2>2 DEF RejectAction
<1>8. CASE AllowAction
  <2>1. mission' \in Mission /\ mission'.status = "EXECUTING" /\ mission'.id = mission.id
    BY <1>8, Advanced, TransitionFacts DEF AllowAction, MissionStatus
  <2> QED
    BY <1>8, <2>1 DEF AllowAction
<1>9. CASE RequestConfirmation
  <2>1. mission' \in Mission /\ mission'.status = "AWAITING_CONFIRMATION" /\ mission'.id = mission.id
    BY <1>9, Advanced, TransitionFacts DEF RequestConfirmation, MissionStatus
  <2>2. issued' \in 0..MaxRequests /\ issued' \in Requests
    BY <1>9, RequestsAssumption DEF RequestConfirmation, Requests
  <2>3. /\ pending' \in ConfirmationRequest /\ pending' # NoRequest
        /\ pending'.id \in Requests /\ pending'.mission = mission.id
    BY <1>9, <2>2 DEF RequestConfirmation, ConfirmationRequest, NoRequest, Requests
  <2>4. stage' = "returned"
    BY <1>9, <2>1 DEF RequestConfirmation, LoopHead
  <2> QED
    BY <1>9, <2>1, <2>2, <2>3, <2>4 DEF RequestConfirmation
<1>10. ASSUME NEW type, NEW kind, NEW text, ExecuteAction(type, kind, text)
       PROVE  ControlTypes' /\ Control'
  <2>1. mission' \in Mission /\ mission'.status = "REASONING" /\ mission'.id = mission.id
    BY <1>10, Advanced, TransitionFacts DEF ExecuteAction, MissionStatus
  <2>2. stage' \in {"reasoning", "outcome_checkpoint"}
    BY <1>10, <2>1 DEF ExecuteAction, LoopHead
  <2>3. executions' \in [Requests -> Nat]
    BY <1>10 DEF ExecuteAction, CountExecution
  <2> QED
    BY <1>10, <2>1, <2>2, <2>3, NothingYet DEF ExecuteAction
<1>11. CASE ExecutionRaises \/ CrashAfterEffect
  <2>1. executions' \in [Requests -> Nat]
    BY <1>11 DEF ExecutionRaises, CrashAfterEffect, CountExecution
  <2> QED
    BY <1>11, <2>1, NothingYet DEF ExecutionRaises, CrashAfterEffect, Raise, ForgetMemory
<1>12. CASE WriteCheckpoint
  <2>1. /\ checkpoint' \in Checkpoint
        /\ checkpoint'.mission = mission
        /\ checkpoint'.pending = pending
    BY <1>12 DEF WriteCheckpoint, SaveCheckpoint, StoreCheckpoint, Checkpoint
  <2>2. /\ stage \in CheckpointStages
        /\ stage' = AfterCheckpoint(stage)
        /\ UNCHANGED <<mission, pending, current, counters>>
    BY <1>12 DEF WriteCheckpoint, SaveCheckpoint, StoreCheckpoint, memory
  <2>3. CASE stage = "consume_checkpoint"
    BY <2>1, <2>2, <2>3 DEF AfterCheckpoint
  <2>4. CASE stage = "outcome_checkpoint"
    BY <2>1, <2>2, <2>4 DEF AfterCheckpoint
  <2>5. CASE stage = "returned"
    BY <2>1, <2>2, <2>5 DEF AfterCheckpoint, TerminalStates
  <2> QED
    BY <2>2, <2>3, <2>4, <2>5
<1>13. CASE WriteCheckpointRefused \/ WriteEventsRefused
  BY <1>13, NothingYet DEF WriteCheckpointRefused, SaveCheckpointRefused, WriteEventsRefused,
                           PersistEventsRefused, Raise, ForgetMemory
<1>14. CASE WriteEvents
  <2>1. /\ stage \in EventStages
        /\ stage' = AfterEvents(stage)
        /\ UNCHANGED <<mission, pending, current, checkpoint, counters>>
    BY <1>14 DEF WriteEvents, PersistEvents
  <2>2. CASE stage = "consume_events"
    BY <2>1, <2>2 DEF AfterEvents
  <2>3. CASE stage = "outcome_events"
    BY <2>1, <2>3 DEF AfterEvents, LoopHead
  <2>4. CASE stage = "pause_events"
    BY <2>1, <2>4 DEF AfterEvents
  <2>5. CASE stage = "final_events"
    BY <2>1, <2>5 DEF AfterEvents
  <2> QED
    BY <2>1, <2>2, <2>3, <2>4, <2>5
<1>15. CASE Grant
  <2>1. mission' \in Mission /\ mission'.status = "EXECUTING" /\ mission'.id = mission.id
    BY <1>15, Advanced, TransitionFacts DEF Grant, ConfirmationGranted, GrantTo, MissionStatus
  <2> QED
    BY <1>15, <2>1, NothingYet DEF Grant, ConfirmationGranted, GrantTo, Answerable
<1>16. CASE Deny
  <2>1. mission' \in Mission /\ mission'.status = "REASONING" /\ mission'.id = mission.id
    BY <1>16, Advanced, TransitionFacts DEF Deny, ConfirmationDenied, DenyTo, MissionStatus
  <2> QED
    BY <1>16, <2>1, NothingYet DEF Deny, ConfirmationDenied, DenyTo
<1>17. CASE Exit \/ Crash
  BY <1>17, NothingYet DEF Exit, Crash, ForgetMemory
<1>18. CASE \/ RunRefused \/ ResumeRefused \/ ResumeWithoutCheckpoint
            \/ ResumeCorruptedEventLog \/ ResumeNotPending
  BY <1>18 DEF RunRefused, ResumeRefused, ResumeWithoutCheckpoint, ResumeCorruptedEventLog,
               ResumeNotPending, Leave
<1>19. CASE ResumeAndAsk
  BY <1>19 DEF ResumeAndAsk, ResumeMission, ResumedMission, Checkpoint
<1>20. CASE UNCHANGED vars
  BY <1>20 DEF vars
<1> QED
  BY <1>1, <1>2, <1>3, <1>4, <1>5, <1>6, <1>7, <1>8, <1>9, <1>10, <1>11, <1>12, <1>13, <1>14,
     <1>15, <1>16, <1>17, <1>18, <1>19, <1>20
     DEF Next, Proceed, Command, Decide, Execute, ExecutionSucceeds, ExecutionFails

(***************************************************************************)
(* The event logs, in memory and on file, hold events and nothing else.    *)
(***************************************************************************)
\* An event that only has its type is an event of the log.
LEMMA PlainEvent == \A type \in PlainType : Event(type) \in LoggedEvent
BY DEF Event, LoggedEvent

\* So is a transition that the state machine accepts.
LEMMA TransitionEvent ==
  ASSUME NEW m \in Mission, NEW event, NEW s \in MissionStatus, Transition(m.status, event) = s
  PROVE  Transitioned(m, event) \in LoggedEvent
BY DEF Transitioned, LoggedEvent, Mission

\* So are the three events that come with every verdict.
LEMMA VerdictLogged ==
  ASSUME NEW event, Transitioned(mission, event) \in LoggedEvent
  PROVE  VerdictEvents(event) \in Seq(LoggedEvent)
BY PlainEvent DEF VerdictEvents, PlainType

\* Logging events and no observation keeps the logs well typed.
LEMMA JournalExtended ==
  ASSUME JournalTypes, NEW events \in Seq(LoggedEvent), NothingRecorded(events),
         UNCHANGED <<persisted, eventsFile, savedHistory>>
  PROVE  JournalTypes'
BY ConcatProperties DEF JournalTypes, NothingRecorded

\* Recording an observation, in memory and in the log, keeps them well typed.
LEMMA JournalObserved ==
  ASSUME JournalTypes, NEW events \in Seq(LoggedEvent), NEW observation \in Observation,
         RecordObservation(observation, events),
         UNCHANGED <<persisted, eventsFile, savedHistory>>
  PROVE  JournalTypes'
<1>1. Produced(observation) \in LoggedEvent
  BY DEF Produced, LoggedEvent
<1>2. Append(events, Produced(observation)) \in Seq(LoggedEvent)
  BY <1>1
<1> QED
  BY <1>2, ConcatProperties DEF JournalTypes, RecordObservation

\* Every step keeps them well typed.  One case per action of Next.
LEMMA JournalStep == TypeInv /\ [Next]_vars => JournalTypes'
<1> SUFFICES ASSUME TypeInv, [Next]_vars PROVE JournalTypes'
  OBVIOUS
<1> USE DEF TypeInv, TypeOK, ControlTypes, Control, StatusByStage, disk
<1>1. ASSUME NEW limit \in Limits, RunCommand(limit) PROVE JournalTypes'
  <2> DEFINE new == [id |-> started + 1, status |-> "CREATED", iteration |-> 0, limit |-> limit]
             entry == <<Event("MISSION_CREATED"), Transitioned(new, Simple("mission_created"))>>
  <2>1. new \in Mission /\ new.status = "CREATED"
    BY <1>1, MissionsAssumption DEF RunCommand, Run, Mission, Missions, MissionStatus
  <2>2. Transitioned(new, Simple("mission_created")) \in LoggedEvent
    BY <2>1, TransitionEvent, TransitionFacts DEF MissionStatus
  <2>3. entry \in Seq(LoggedEvent)
    BY <2>2, PlainEvent DEF PlainType
  <2>4. log' = log \o entry /\ history' = <<>> /\ UNCHANGED <<persisted, eventsFile, savedHistory>>
    BY <1>1 DEF RunCommand, Run
  <2> HIDE DEF entry
  <2> QED
    BY <2>3, <2>4, ConcatProperties, EmptySeq DEF JournalTypes
<1>2. CASE BeginCycle
  <2>1. <<Event("CONTEXT_BUILT")>> \in Seq(LoggedEvent)
    BY PlainEvent DEF PlainType
  <2> QED
    BY <1>2, <2>1, JournalExtended DEF BeginCycle
<1>3. CASE ExhaustIterations
  <2> DEFINE event == Simple("max_iterations_reached")
  <2>1. Transitioned(mission, event) \in LoggedEvent
    BY <1>3, TransitionEvent, TransitionFacts DEF ExhaustIterations, MissionStatus
  <2>2. <<Event("MAX_ITERATIONS_REACHED"), Transitioned(mission, event)>> \in Seq(LoggedEvent)
    BY <2>1, PlainEvent DEF PlainType
  <2> QED
    BY <1>3, <2>2, JournalExtended DEF ExhaustIterations
<1>4. CASE FailOnReasoningError
  <2> DEFINE event == Simple("mission_failed")
  <2>1. Transitioned(mission, event) \in LoggedEvent
    BY <1>4, TransitionEvent, TransitionFacts DEF FailOnReasoningError, MissionStatus
  <2>2. <<Event("MISSION_FAILED"), Transitioned(mission, event)>> \in Seq(LoggedEvent)
    BY <2>1, PlainEvent DEF PlainType
  <2> QED
    BY <1>4, <2>2, JournalExtended DEF FailOnReasoningError
<1>5. ASSUME NEW kind, NEW s \in MissionStatus, NEW type \in PlainType,
             Transition("REASONING", Simple(kind)) = s, FinishMission(Simple(kind), type)
      PROVE  JournalTypes'
  <2> DEFINE event == Simple(kind)
  <2>1. Transitioned(mission, event) \in LoggedEvent
    BY <1>5, TransitionEvent DEF FinishMission
  <2>2. <<Event("DECISION_RECEIVED"), Event(type), Transitioned(mission, event)>> \in Seq(LoggedEvent)
    BY <2>1, PlainEvent DEF PlainType
  <2> QED
    BY <1>5, <2>2, JournalExtended DEF FinishMission
<1>6. CASE FinishSuccess
  BY <1>5, <1>6, TransitionFacts DEF FinishSuccess, MissionStatus, PlainType
<1>7. CASE FinishFailure
  BY <1>5, <1>7, TransitionFacts DEF FinishFailure, MissionStatus, PlainType
<1>8. ASSUME NEW verdict \in {"DENIED", "REWRITE"}, NEW reason \in Texts, RejectAction(verdict, reason)
      PROVE  JournalTypes'
  <2>1. VerdictEvents(PolicyEvaluated(verdict)) \in Seq(LoggedEvent)
    BY <1>8, TransitionEvent, TransitionFacts, VerdictLogged DEF RejectAction, MissionStatus
  <2>2. NewObservation("POLICY_REJECTION", reason) \in Observation
    BY <1>8 DEF RejectAction, NewObservation, Observation, ObservationKind, Mission, Busy, RuntimeStages
  <2> QED
    BY <1>8, <2>1, <2>2, JournalObserved DEF RejectAction
<1>9. CASE AllowAction
  <2>1. VerdictEvents(PolicyEvaluated("ALLOWED")) \in Seq(LoggedEvent)
    BY <1>9, TransitionEvent, TransitionFacts, VerdictLogged DEF AllowAction, MissionStatus
  <2> QED
    BY <1>9, <2>1, JournalExtended DEF AllowAction
<1>10. CASE RequestConfirmation
  <2> DEFINE events == VerdictEvents(PolicyEvaluated("REQUIRES_CONFIRMATION"))
  <2>1. events \in Seq(LoggedEvent)
    BY <1>10, TransitionEvent, TransitionFacts, VerdictLogged DEF RequestConfirmation, MissionStatus
  <2>2. Event("CONFIRMATION_REQUESTED") \in LoggedEvent
    BY PlainEvent DEF PlainType
  <2>3. Append(events, Event("CONFIRMATION_REQUESTED")) \in Seq(LoggedEvent)
    BY <2>1, <2>2
  <2> QED
    BY <1>10, <2>3, JournalExtended DEF RequestConfirmation
<1>11. ASSUME NEW type \in PlainType, NEW kind \in ObservationKind, NEW text \in Texts,
              ExecuteAction(type, kind, text)
       PROVE  JournalTypes'
  <2> DEFINE event == Simple("tool_execution_finished")
  <2>1. Transitioned(mission, event) \in LoggedEvent
    BY <1>11, TransitionEvent, TransitionFacts DEF ExecuteAction, MissionStatus
  <2>2. <<Event(type), Transitioned(mission, event)>> \in Seq(LoggedEvent)
    BY <2>1, PlainEvent
  <2>3. NewObservation(kind, text) \in Observation
    BY <1>11 DEF ExecuteAction, NewObservation, Observation, Mission, Busy, RuntimeStages
  <2> QED
    BY <1>11, <2>2, <2>3, JournalObserved DEF ExecuteAction
<1>12. CASE \E text \in Texts : ExecutionSucceeds(text) \/ ExecutionFails(text)
  BY <1>11, <1>12 DEF ExecutionSucceeds, ExecutionFails, PlainType, ObservationKind
<1>13. CASE \/ DecideRaises \/ ExecutionRaises \/ WriteCheckpointRefused
            \/ WriteEventsRefused \/ Exit \/ Crash \/ CrashAfterEffect
  <2>1. log' = <<>> /\ persisted' = 0 /\ history' = <<>> /\ UNCHANGED <<eventsFile, savedHistory>>
    BY <1>13 DEF DecideRaises, ExecutionRaises, WriteCheckpointRefused, SaveCheckpointRefused,
       WriteEventsRefused, PersistEventsRefused, Raise, Exit, Crash, CrashAfterEffect, ForgetMemory
  <2> QED
    BY <2>1, EmptySeq DEF JournalTypes
<1>14. CASE WriteCheckpoint
  BY <1>14 DEF JournalTypes, WriteCheckpoint, SaveCheckpoint, StoreCheckpoint, memory
<1>15. CASE WriteEvents
  <2> DEFINE new == NewEvents(log, persisted)
  <2>1. \A i \in persisted + 1 .. Len(log) : log[i] \in LoggedEvent
    BY DEF JournalTypes
  <2>2. new \in Seq(LoggedEvent)
    BY <2>1, SubSeqProperties, LenProperties DEF NewEvents, JournalTypes
  <2>3. /\ eventsFile' = eventsFile \o new
        /\ persisted' = Len(log)
        /\ UNCHANGED <<log, history, savedHistory>>
    BY <1>15 DEF WriteEvents, PersistEvents, SavedEvents
  <2> HIDE DEF new
  <2> QED
    BY <2>2, <2>3, ConcatProperties, LenProperties DEF JournalTypes
<1>16. CASE Grant
  <2> DEFINE event == Simple("confirmation_granted")
  <2>1. Transitioned(mission, event) \in LoggedEvent
    BY <1>16, TransitionEvent, TransitionFacts DEF Grant, MissionStatus
  <2>2. <<Event("CONFIRMATION_GRANTED"), Transitioned(mission, event)>> \in Seq(LoggedEvent)
    BY <2>1, PlainEvent DEF PlainType
  <2> QED
    BY <1>16, <2>2, JournalExtended DEF Grant, ConfirmationGranted, GrantTo
<1>17. CASE Deny
  <2> DEFINE event == Simple("confirmation_denied")
  <2>1. Transitioned(mission, event) \in LoggedEvent
    BY <1>17, TransitionEvent, TransitionFacts DEF Deny, MissionStatus
  <2>2. <<Event("CONFIRMATION_DENIED"), Transitioned(mission, event)>> \in Seq(LoggedEvent)
    BY <2>1, PlainEvent DEF PlainType
  <2>3. NewObservation("CONFIRMATION_DENIED", "plain") \in Observation
    BY <1>17 DEF Deny, NewObservation, Observation, ObservationKind, Mission, Busy, CliStages
  <2> QED
    BY <1>17, <2>2, <2>3, JournalObserved DEF Deny, ConfirmationDenied, DenyTo
<1>18. CASE \/ RunRefused \/ ResumeRefused \/ ResumeWithoutCheckpoint
            \/ ResumeCorruptedEventLog \/ ResumeNotPending
  BY <1>18 DEF JournalTypes, RunRefused, ResumeRefused, ResumeWithoutCheckpoint,
     ResumeCorruptedEventLog, ResumeNotPending, Leave, memory
<1>19. CASE ResumeAndAsk
  BY <1>19, LenProperties DEF JournalTypes, ResumeAndAsk, ResumeMission
<1>20. CASE UNCHANGED vars
  BY <1>20 DEF JournalTypes, vars, memory
<1> QED
  BY <1>1, <1>2, <1>3, <1>4, <1>6, <1>7, <1>8, <1>9, <1>10, <1>12, <1>13, <1>14, <1>15, <1>16,
     <1>17, <1>18, <1>19, <1>20
     DEF Next, Proceed, Command, Decide, Execute

\* The type invariant and the control invariant hold for ever.
LEMMA TypeInvariance == Spec => []TypeInv
<1>1. TypeInv /\ [Next]_vars => TypeInv'
  BY ControlStep, JournalStep DEF TypeInv, TypeOK
<1> QED
  BY TypeInit, <1>1, PTL DEF Spec

\* Every variable keeps to its type; in particular no transition that the CLI
\* can provoke is refused by the state machine.
THEOREM TypeCorrect == Spec => []TypeOK
<1>1. TypeInv => TypeOK
  BY DEF TypeInv
<1> QED
  BY TypeInvariance, <1>1, PTL

-----------------------------------------------------------------------------
(* No action is run twice *)

\* Nothing is issued and nothing is run before the first command.
LEMMA ExecutionInit == Init => Bookkeeping /\ AtMostOnce
BY NothingYet DEF Init, Bookkeeping, Unspent, AtMostOnce

\* The step that runs a confirmed action: its request is by then neither
\* pending in memory nor on disk, so no other part of Bookkeeping mentions it.
LEMMA ExecutionCounted ==
  ASSUME ExecutionInv, stage = "executing", CountExecution, UNCHANGED <<issued, checkpoint>>,
         current' = NoRequest, pending' = NoRequest
  PROVE  Bookkeeping' /\ AtMostOnce'
<1> USE DEF ExecutionInv, TypeInv, TypeOK, ControlTypes, Control
<1>1. CASE current = NoRequest
  BY <1>1 DEF CountExecution, Bookkeeping, Unspent, AtMostOnce
<1>2. CASE current # NoRequest
  <2>1. /\ current.id \in Requests /\ current.id <= issued /\ executions[current.id] = 0
        /\ checkpoint.pending = NoRequest
    BY <1>2 DEF Bookkeeping, Unspent
  <2>2. executions' = [executions EXCEPT ![current.id] = 1]
    BY <1>2, <2>1 DEF CountExecution
  <2> QED
    BY <2>1, <2>2 DEF Bookkeeping, Unspent, AtMostOnce, Requests
<1> QED
  BY <1>1, <1>2

\* No step runs a request that is not unspent.  One case per action of Next.
LEMMA ExecutionStep == ExecutionInv /\ [Next]_vars => Bookkeeping' /\ AtMostOnce'
<1> SUFFICES ASSUME ExecutionInv, [Next]_vars PROVE Bookkeeping' /\ AtMostOnce'
  OBVIOUS
<1> USE DEF ExecutionInv, TypeInv, TypeOK, ControlTypes, Control, StatusByStage,
            PendingWhileAwaiting, Bookkeeping, Unspent, AtMostOnce, disk, counters, memory
<1>1. ASSUME NEW limit \in Limits, RunCommand(limit) PROVE Bookkeeping' /\ AtMostOnce'
  BY <1>1 DEF RunCommand, Run, LoopHead
<1>2. CASE BeginCycle \/ ExhaustIterations \/ FailOnReasoningError \/ FinishSuccess \/ FinishFailure
  BY <1>2 DEF BeginCycle, ExhaustIterations, FailOnReasoningError, FinishSuccess, FinishFailure,
     FinishMission, LoopHead
<1>3. ASSUME NEW verdict, NEW reason, RejectAction(verdict, reason) PROVE Bookkeeping' /\ AtMostOnce'
  BY <1>3 DEF RejectAction, LoopHead
<1>4. CASE AllowAction
  BY <1>4 DEF AllowAction
<1>5. CASE RequestConfirmation
  <2>1. /\ issued' = issued + 1 /\ issued' \in Requests /\ issued \in Nat
        /\ pending'.id = issued'
        /\ UNCHANGED <<current, checkpoint, executions>>
        /\ stage' \notin {"consume_events", "executing"}
    BY <1>5, RequestsAssumption DEF RequestConfirmation, LoopHead, Requests
  <2>2. executions[issued'] = 0
    BY <2>1
  <2>3. \A request \in ConfirmationRequest :
          request # NoRequest /\ request.id <= issued => request.id <= issued'
    BY <2>1 DEF ConfirmationRequest, Requests
  <2>4. Unspent(current)' /\ Unspent(checkpoint.pending)'
    BY <2>1, <2>3 DEF Checkpoint
  <2>5. \A r \in Requests : r > issued' => executions'[r] = 0
    BY <2>1 DEF Requests
  <2> QED
    BY <2>1, <2>2, <2>4, <2>5
<1>6. ASSUME NEW type, NEW kind, NEW text, ExecuteAction(type, kind, text)
      PROVE  Bookkeeping' /\ AtMostOnce'
  BY <1>6, ExecutionCounted DEF ExecuteAction
<1>7. CASE ExecutionRaises \/ CrashAfterEffect
  BY <1>7, ExecutionCounted DEF ExecutionRaises, CrashAfterEffect, Raise, ForgetMemory
<1>8. CASE WriteCheckpoint
  <2>1. /\ checkpoint'.pending = pending
        /\ UNCHANGED <<mission, pending, current, issued, executions>>
        /\ stage \in CheckpointStages
    BY <1>8 DEF WriteCheckpoint, SaveCheckpoint, StoreCheckpoint, memory
  <2>2. current # NoRequest => pending = NoRequest
    BY <2>1 DEF CheckpointStages
  <2> QED
    BY <2>1, <2>2
<1>9. CASE WriteEvents
  <2>1. /\ UNCHANGED <<pending, current, checkpoint, issued, executions>>
        /\ stage \in EventStages
    BY <1>9 DEF WriteEvents, PersistEvents
  <2>2. current # NoRequest => checkpoint.pending = NoRequest
    BY <2>1 DEF EventStages
  <2> QED
    BY <2>1, <2>2
<1>10. CASE WriteCheckpointRefused \/ WriteEventsRefused \/ DecideRaises \/ Exit \/ Crash
  BY <1>10 DEF WriteCheckpointRefused, SaveCheckpointRefused, WriteEventsRefused,
     PersistEventsRefused, DecideRaises, Raise, Exit, Crash, ForgetMemory
<1>11. CASE Grant
  BY <1>11 DEF Grant, ConfirmationGranted, GrantTo
<1>12. CASE Deny
  BY <1>12 DEF Deny, ConfirmationDenied, DenyTo
<1>13. CASE \/ RunRefused \/ ResumeRefused \/ ResumeWithoutCheckpoint
            \/ ResumeCorruptedEventLog \/ ResumeNotPending
  BY <1>13 DEF RunRefused, ResumeRefused, ResumeWithoutCheckpoint, ResumeCorruptedEventLog,
     ResumeNotPending, Leave
<1>14. CASE ResumeAndAsk
  BY <1>14 DEF ResumeAndAsk, ResumeMission
<1>15. CASE UNCHANGED vars
  BY <1>15 DEF vars
<1> QED
  BY <1>1, <1>2, <1>3, <1>4, <1>5, <1>6, <1>7, <1>8, <1>9, <1>10, <1>11, <1>12, <1>13, <1>14, <1>15
     DEF Next, Proceed, Command, Decide, Execute, ExecutionSucceeds, ExecutionFails

\* The bookkeeping of requests holds for ever.
LEMMA ExecutionInvariance == Spec => []ExecutionInv
<1>1. Init => ExecutionInv
  BY TypeInit, ExecutionInit DEF ExecutionInv
<1>2. ExecutionInv /\ [Next]_vars => ExecutionInv'
  BY ControlStep, JournalStep, ExecutionStep DEF ExecutionInv, TypeInv, TypeOK
<1> QED
  BY <1>1, <1>2, PTL DEF Spec

\* The action behind a confirmation request is run at most once, however many
\* processes crash and resume, wherever they are killed.
THEOREM NeverTwice == Spec => []AtMostOnce
<1>1. ExecutionInv => AtMostOnce
  BY DEF ExecutionInv
<1> QED
  BY ExecutionInvariance, <1>1, PTL

\* Once its action has been run, a request is no longer in the checkpoint that
\* `peon resume` would load.
THEOREM ConsumedOnDisk == Spec => []ConsumedBeforeExecution
<1>1. ExecutionInv => ConsumedBeforeExecution
  <2> SUFFICES ASSUME ExecutionInv, NEW r \in Requests, executions[r] > 0, checkpoint.pending.id = r
               PROVE  FALSE
    BY DEF ConsumedBeforeExecution
  <2>1. checkpoint.pending # NoRequest
    BY RequestsAssumption DEF NoRequest, Requests
  <2> QED
    BY <2>1 DEF ExecutionInv, Bookkeeping, Unspent
<1> QED
  BY ExecutionInvariance, <1>1, PTL

\* Whoever saves a paused mission, or asks about it, has its request.
THEOREM RequestAtHand == Spec => []AwaitingHasRequest
<1>1. TypeInv => AwaitingHasRequest
  BY DEF TypeInv, Control, StatusByStage, PendingWhileAwaiting, AwaitingHasRequest
<1> QED
  BY TypeInvariance, <1>1, PTL

-----------------------------------------------------------------------------
(* The reasoner is asked no more than max_iterations times *)

\* Nobody is asked before the first command.
LEMMA BudgetInit == Init => Accounting
BY NothingYet DEF Init, Accounting, WithinBudget, NoMission

\* A handler that leaves the counts and the disk alone leaves them within budget.
LEMMA BudgetKept ==
  ASSUME BudgetInv,
         mission'.id = mission.id, mission'.limit = mission.limit,
         mission'.iteration \in {mission.iteration, mission.iteration + 1},
         UNCHANGED <<checkpoint, started, decided>>,
         stage' \in {"reasoning", "deciding", "executing", "consume_events", "outcome_events"}
           => stage \in {"reasoning", "deciding", "executing", "consume_events", "outcome_events"}
  PROVE  Accounting'
BY DEF BudgetInv, TypeInv, TypeOK, ControlTypes, Mission, Accounting, WithinBudget

\* Advancing a mission touches its status only.
LEMMA AdvanceKeeps ==
  ASSUME NEW m \in Mission, NEW event
  PROVE  /\ Advance(m, event).id = m.id
         /\ Advance(m, event).limit = m.limit
         /\ Advance(m, event).iteration = m.iteration
BY DEF Advance, Mission

\* A process that ends leaves the disk to the next one.
LEMMA BudgetForgotten ==
  ASSUME BudgetInv, ForgetMemory, UNCHANGED <<checkpoint, started, decided>>, stage' \in Idle
  PROVE  Accounting'
BY DEF BudgetInv, TypeInv, TypeOK, ControlTypes, Accounting, WithinBudget, ForgetMemory,
       NoMission, Idle

\* No step spends more than the budget.  One case per action of Next.
LEMMA BudgetStep == BudgetInv /\ [Next]_vars => Accounting'
<1> SUFFICES ASSUME BudgetInv, [Next]_vars PROVE Accounting'
  OBVIOUS
<1> USE DEF BudgetInv, TypeInv, TypeOK, ControlTypes, disk, counters
<1>1. ASSUME NEW limit \in Limits, RunCommand(limit) PROVE Accounting'
  <2> DEFINE new == [id |-> started + 1, status |-> "CREATED", iteration |-> 0, limit |-> limit]
  <2>1. new \in Mission /\ new.id = started + 1 /\ new.iteration = 0 /\ new.limit \in Nat
    BY <1>1, MissionsAssumption, LimitsAssumption DEF RunCommand, Run, Mission, Missions, MissionStatus
  <2>2. mission' = Advance(new, Simple("mission_created"))
    BY <1>1 DEF RunCommand, Run
  <2> HIDE DEF new
  <2>3. mission'.id = started + 1 /\ mission'.iteration = 0 /\ mission'.limit \in Nat
    BY <2>1, <2>2, AdvanceKeeps
  <2>4. started' = started + 1 /\ started < MaxMissions /\ UNCHANGED <<checkpoint, decided>>
    BY <1>1 DEF RunCommand, Run
  <2>5. decided[started + 1] = 0
    BY <2>4, MissionsAssumption DEF Accounting, Missions
  <2>6. checkpoint.mission.id \in Nat
    BY MissionsAssumption DEF Checkpoint, Mission, Missions
  <2> QED
    BY <2>3, <2>4, <2>5, <2>6, MissionsAssumption DEF Accounting, WithinBudget, Missions
<1>2. CASE BeginCycle
  <2>1. /\ mission'.id = mission.id /\ mission'.limit = mission.limit
        /\ mission'.iteration = mission.iteration + 1
        /\ mission.id \in Missions /\ mission.iteration \in Nat /\ mission.limit \in Nat
        /\ mission.iteration < mission.limit
    BY <1>2, LimitsAssumption DEF BeginCycle, Mission, Control, StatusByStage, Busy, RuntimeStages
  <2>2. /\ decided' = [decided EXCEPT ![mission.id] = @ + 1]
        /\ stage = "reasoning" /\ stage' = "deciding"
        /\ UNCHANGED <<checkpoint, started>>
    BY <1>2 DEF BeginCycle
  <2>3. decided[mission.id] \in Nat /\ decided'[mission.id] = decided[mission.id] + 1
    BY <2>1, <2>2
  <2>4. WithinBudget(mission)
    BY <2>1, MissionsAssumption DEF Accounting, Missions
  <2>5. WithinBudget(mission)'
    BY <2>1, <2>3, <2>4 DEF WithinBudget
  <2>6. checkpoint.pending # NoRequest => WithinBudget(checkpoint.mission)'
    BY <2>1, <2>2 DEF Accounting, WithinBudget
  <2>7. \A m \in Missions : m > started' => decided'[m] = 0
    BY <2>1, <2>2, MissionsAssumption DEF Accounting, Missions
  <2> QED
    BY <2>1, <2>2, <2>5, <2>6, <2>7 DEF Accounting
<1>3. CASE ExhaustIterations
  <2> DEFINE over == Advance(mission, Simple("max_iterations_reached"))
  <2>1. mission' = [over EXCEPT !.iteration = @ + 1]
    BY <1>3 DEF ExhaustIterations
  <2>2. over \in Mission
    BY <1>3, Advanced, TransitionFacts
       DEF ExhaustIterations, Control, StatusByStage, MissionStatus
  <2>3. over.id = mission.id /\ over.limit = mission.limit /\ over.iteration = mission.iteration
    BY AdvanceKeeps
  <2> HIDE DEF over
  <2>4. /\ mission'.id = mission.id /\ mission'.limit = mission.limit
        /\ mission'.iteration = mission.iteration + 1
    BY <2>1, <2>2, <2>3 DEF Mission
  <2>5. stage = "reasoning" /\ UNCHANGED <<checkpoint, started, decided>>
    BY <1>3 DEF ExhaustIterations
  <2> QED
    BY <2>4, <2>5, BudgetKept
<1>4. CASE FailOnReasoningError \/ FinishSuccess \/ FinishFailure
  BY <1>4, BudgetKept, AdvanceKeeps
     DEF FailOnReasoningError, FinishSuccess, FinishFailure, FinishMission
<1>5. ASSUME NEW verdict, NEW reason, RejectAction(verdict, reason) PROVE Accounting'
  BY <1>5, BudgetKept, AdvanceKeeps DEF RejectAction
<1>6. CASE AllowAction
  BY <1>6, BudgetKept, AdvanceKeeps DEF AllowAction
<1>7. CASE RequestConfirmation
  BY <1>7, BudgetKept, AdvanceKeeps DEF RequestConfirmation
<1>8. ASSUME NEW type, NEW kind, NEW text, ExecuteAction(type, kind, text) PROVE Accounting'
  BY <1>8, BudgetKept, AdvanceKeeps DEF ExecuteAction
<1>9. CASE WriteCheckpoint
  <2>1. /\ checkpoint'.mission = mission /\ checkpoint'.pending = pending
        /\ UNCHANGED <<mission, started, decided>>
        /\ stage \in CheckpointStages /\ stage' = AfterCheckpoint(stage)
    BY <1>9 DEF WriteCheckpoint, SaveCheckpoint, StoreCheckpoint, memory
  <2>2. mission.id \in Missions /\ mission.id # 0
    BY <2>1 DEF Control, StatusByStage, Busy, Missions
  <2>3. stage' \in {"consume_events", "outcome_events"} => pending = NoRequest
    BY <2>1 DEF CheckpointStages, AfterCheckpoint, Control, StatusByStage, PendingWhileAwaiting
  <2>4. stage' \in {"consume_events", "outcome_events", "pause_events", "final_events"}
    BY <2>1 DEF CheckpointStages, AfterCheckpoint
  <2> QED
    BY <2>1, <2>2, <2>3, <2>4 DEF Accounting, WithinBudget
<1>10. CASE WriteEvents
  <2>1. /\ UNCHANGED <<mission, checkpoint, started, decided>>
        /\ stage \in EventStages /\ stage' = AfterEvents(stage)
    BY <1>10 DEF WriteEvents, PersistEvents
  <2>2. stage' \in {"reasoning", "executing"} => stage \in {"consume_events", "outcome_events"}
    BY <2>1 DEF EventStages, AfterEvents
  <2>3. stage' \in {"reasoning", "returned", "executing", "asking", "done"}
    BY <2>1 DEF EventStages, AfterEvents, LoopHead
  <2>4. mission.iteration \in Nat
    BY DEF Mission
  <2> QED
    BY <2>1, <2>2, <2>3, <2>4, BudgetKept
<1>11. CASE \/ DecideRaises \/ ExecutionRaises \/ WriteCheckpointRefused
            \/ WriteEventsRefused \/ Exit \/ Crash \/ CrashAfterEffect
  BY <1>11, BudgetForgotten DEF DecideRaises, WriteCheckpointRefused, SaveCheckpointRefused,
     WriteEventsRefused, PersistEventsRefused, ExecutionRaises, Raise, Exit, Crash,
     CrashAfterEffect, Idle
<1>12. CASE Grant
  BY <1>12, BudgetKept, AdvanceKeeps DEF Grant, ConfirmationGranted, GrantTo
<1>13. CASE Deny
  BY <1>13, BudgetKept, AdvanceKeeps DEF Deny, ConfirmationDenied, DenyTo
<1>14. CASE \/ RunRefused \/ ResumeRefused \/ ResumeWithoutCheckpoint
            \/ ResumeCorruptedEventLog \/ ResumeNotPending
  BY <1>14, BudgetKept DEF RunRefused, ResumeRefused, ResumeWithoutCheckpoint,
     ResumeCorruptedEventLog, ResumeNotPending, Leave, memory, Mission
<1>15. CASE ResumeAndAsk
  <2>1. /\ mission' = checkpoint.mission /\ checkpoint.pending # NoRequest
        /\ UNCHANGED <<checkpoint, started, decided>> /\ stage' = "asking"
    BY <1>15 DEF ResumeAndAsk, ResumeMission, ResumedMission
  <2> QED
    BY <2>1 DEF Accounting, WithinBudget
<1>16. CASE UNCHANGED vars
  BY <1>16 DEF vars, memory, Accounting, WithinBudget
<1> QED
  BY <1>1, <1>2, <1>3, <1>4, <1>5, <1>6, <1>7, <1>8, <1>9, <1>10, <1>11, <1>12, <1>13, <1>14,
     <1>15, <1>16
     DEF Next, Proceed, Command, Decide, Execute, ExecutionSucceeds, ExecutionFails

\* The accounting of iterations holds for ever.
LEMMA BudgetInvariance == Spec => []BudgetInv
<1>1. Init => BudgetInv
  BY TypeInit, BudgetInit DEF BudgetInv
<1>2. BudgetInv /\ [Next]_vars => BudgetInv'
  BY ControlStep, JournalStep, BudgetStep DEF BudgetInv, TypeInv, TypeOK
<1> QED
  BY <1>1, <1>2, PTL DEF Spec

\* Over all the processes that drive a mission, the reasoner is asked at most
\* max_iterations times.
THEOREM BudgetRespected == Spec => []DecideBudget
<1>1. BudgetInv => DecideBudget
  BY DEF BudgetInv, Accounting, WithinBudget, DecideBudget
<1> QED
  BY BudgetInvariance, <1>1, PTL

\* Neither the model is asked nor a tool run for a mission while a checkpoint of
\* it on disk still asks the user something.
THEOREM AnswerIsSaved == Spec => []AnswerSavedFirst
<1>1. BudgetInv => AnswerSavedFirst
  BY DEF BudgetInv, Accounting, AnswerSavedFirst, RuntimeStages
<1> QED
  BY BudgetInvariance, <1>1, PTL
=============================================================================
