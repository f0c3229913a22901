------------------------------ MODULE Runtime -------------------------------
(***************************************************************************)
(* src/peon/runtime.py: the reasoning loop of a mission, the confirmation  *)
(* gate in front of high-risk actions, and the two things the runtime      *)
(* writes to storage, the checkpoint and the event log.                    *)
(*                                                                         *)
(* "stage" says where the one thread of the process is: at the head of the *)
(* reasoning loop, inside the call to the reasoner or to the executor,     *)
(* before one of the durable writes of _checkpoint_if_configured, or back  *)
(* in the caller ("returned", "raised").  A step is what runs between two  *)
(* such points, where the process can be killed or an exception escape.    *)
(***************************************************************************)
EXTENDS StateMachine, ContextBuilder

CONSTANTS
  MaxMissions,   \* bound: number of missions ever created
  MaxRequests,   \* bound: number of confirmation requests ever issued
  Limits,        \* the max_iterations a mission may be given
  Texts          \* text of a tool or of the model that ends up in an observation,
                 \* "plain" or "splitting" (LineSafe)

ASSUME MissionsAssumption == MaxMissions \in Nat
ASSUME RequestsAssumption == MaxRequests \in Nat
ASSUME LimitsAssumption   == Limits \subseteq Nat \ {0}

VARIABLES
  stage,         \* where the thread of the process is
  mission,       \* the Mission being driven
  pending,       \* Runtime._pending_confirmation
  current,       \* the request resume_confirmation is carrying out
  log,           \* the in-memory EventLog
  observations,  \* Runtime._observations
  persisted,     \* Runtime._persisted_event_count
  history,       \* ghost: the observations the mission has really gone through
  checkpoint,    \* disk: the checkpoint file
  savedHistory,  \* ghost: history when the checkpoint was written
  eventsFile,    \* disk: the events file
  started,       \* ghost: missions created so far
  issued,        \* ghost: requests issued so far
  executions,    \* ghost: per request, how often its action was run
  decided        \* ghost: per mission, how often the reasoner was asked

memory   == <<mission, pending, current, log, observations, persisted, history>>
disk     == <<checkpoint, savedHistory, eventsFile>>
counters == <<started, issued, executions, decided>>
vars     == <<stage, memory, disk, counters>>

-----------------------------------------------------------------------------
(* Data *)

NoMission    == [id |-> 0, status |-> "CREATED", iteration |-> 0, limit |-> 0]
NoRequest    == [id |-> 0, mission |-> 0]
NoCheckpoint == [mission |-> NoMission, pending |-> NoRequest]

Missions == 1..MaxMissions
Requests == 1..MaxRequests

Mission == [id : {0} \cup Missions, status : MissionStatus,
            iteration : Nat, limit : {0} \cup Limits]
ConfirmationRequest == [id : {0} \cup Requests, mission : {0} \cup Missions]
Checkpoint == [mission : Mission, pending : ConfirmationRequest]

ObservationKind == {"EXECUTION_RESULT", "EXECUTION_ERROR",
                    "POLICY_REJECTION", "CONFIRMATION_DENIED"}

\* The validator of Mission: a mission past its limit is refused when it is
\* built from stored JSON, and when a Checkpoint is built around it.
WithinLimit(m) == m.iteration <= m.limit

\* Text that FileStorage can write on one line and read back from that line.
LineSafe(text) == text # "splitting"

(***************************************************************************)
(* An events file is readable when every line of it is an event.  The file *)
(* is written as JSON Lines but split on every line boundary Python knows, *)
(* and JSON leaves U+2028, U+2029 and U+0085 as they are inside strings:   *)
(* an observation with "splitting" text comes back as two broken lines.    *)
(***************************************************************************)
Readable(events) ==
  \A i \in 1..Len(events) :
    IsObservation(events[i]) => LineSafe(events[i].observation.text)

-----------------------------------------------------------------------------
(* What the handlers log *)

PlainType == {"MISSION_CREATED", "CONTEXT_BUILT", "DECISION_RECEIVED", "POLICY_EVALUATED",
              "CONFIRMATION_REQUESTED", "CONFIRMATION_GRANTED", "CONFIRMATION_DENIED",
              "TOOL_EXECUTION_COMPLETED", "TOOL_EXECUTION_FAILED",
              "MISSION_SUCCEEDED", "MISSION_FAILED", "MAX_ITERATIONS_REACHED"}

Observation == [mission : Missions, cycle : Nat, kind : ObservationKind, text : Texts \cup {"plain"}]

LoggedEvent == [type : PlainType]
               \cup [type : {"STATE_TRANSITIONED"}, from : MissionStatus, to : MissionStatus]
               \cup [type : {"OBSERVATION_PRODUCED"}, observation : Observation]

Event(type) == [type |-> type]
Produced(observation) == [type |-> "OBSERVATION_PRODUCED", observation |-> observation]
Transitioned(m, event) ==
  [type |-> "STATE_TRANSITIONED", from |-> m.status, to |-> Transition(m.status, event)]

Advance(m, event) == [m EXCEPT !.status = Transition(m.status, event)]

NewObservation(kind, text) ==
  [mission |-> mission.id, cycle |-> mission.iteration, kind |-> kind, text |-> text]

\* _record_observation: the list in memory and the event log both get it.
RecordObservation(observation, events) ==
  /\ observations' = Append(observations, observation)
  /\ history' = Append(history, observation)
  /\ log' = log \o Append(events, Produced(observation))

NothingRecorded(events) ==
  /\ log' = log \o events
  /\ UNCHANGED <<observations, history>>

\* The condition of the reasoning loop, tested again after every cycle.
LoopHeadForever(m) == "reasoning"
LoopHead(m) == IF m.status = "REASONING" THEN "reasoning" ELSE "returned"

\* The process ends and takes its memory with it.
ForgetMemory ==
  /\ mission' = NoMission
  /\ pending' = NoRequest
  /\ current' = NoRequest
  /\ log' = <<>>
  /\ observations' = <<>>
  /\ persisted' = 0
  /\ history' = <<>>

Raise ==
  /\ stage' = "raised"
  /\ ForgetMemory

-----------------------------------------------------------------------------
(* run and the reasoning loop *)

\* run() up to the head of its loop.
Run(limit) ==
  LET created == [id |-> started + 1, status |-> "CREATED", iteration |-> 0, limit |-> limit]
      event   == Simple("mission_created")
  IN  /\ started < MaxMissions
      /\ started' = started + 1
      /\ mission' = Advance(created, event)
      /\ pending' = NoRequest
      /\ observations' = <<>>
      /\ history' = <<>>
      /\ log' = log \o <<Event("MISSION_CREATED"), Transitioned(created, event)>>
      /\ stage' = LoopHead(mission')
      /\ UNCHANGED <<current, persisted, disk, issued, executions, decided>>

\* A cycle up to the call of the reasoner, when the mission is within limits.
BeginCycle ==
  /\ stage = "reasoning"
  /\ mission.iteration < mission.limit
  /\ mission' = [mission EXCEPT !.iteration = @ + 1]
  /\ NothingRecorded(<<Event("CONTEXT_BUILT")>>)
  /\ decided' = [decided EXCEPT ![mission.id] = @ + 1]
  /\ stage' = "deciding"
  /\ UNCHANGED <<pending, current, persisted, disk, started, issued, executions>>

\* A cycle that finds the limit passed; the count has been raised by then.
ExhaustIterations ==
  LET event == Simple("max_iterations_reached")
  IN  /\ stage = "reasoning"
      /\ mission.iteration >= mission.limit
      /\ mission' = [Advance(mission, event) EXCEPT !.iteration = @ + 1]
      /\ NothingRecorded(<<Event("MAX_ITERATIONS_REACHED"), Transitioned(mission, event)>>)
      /\ stage' = LoopHead(mission')
      /\ UNCHANGED <<pending, current, persisted, disk, counters>>

\* The reasoner gives up with InvalidLLMResponseError: no decision is logged.
FailOnReasoningError ==
  LET event == Simple("mission_failed")
  IN  /\ stage = "deciding"
      /\ mission' = Advance(mission, event)
      /\ NothingRecorded(<<Event("MISSION_FAILED"), Transitioned(mission, event)>>)
      /\ stage' = LoopHead(mission')
      /\ UNCHANGED <<pending, current, persisted, disk, counters>>

\* Any other exception of the reasoner, or of the policy, leaves run().
DecideRaises ==
  /\ stage = "deciding"
  /\ Raise
  /\ UNCHANGED <<disk, counters>>

\* A FinishDecision with outcome "success" or "failure".
FinishMission(event, type) ==
  /\ stage = "deciding"
  /\ mission' = Advance(mission, event)
  /\ NothingRecorded(<<Event("DECISION_RECEIVED"), Event(type), Transitioned(mission, event)>>)
  /\ stage' = LoopHead(mission')
  /\ UNCHANGED <<pending, current, persisted, disk, counters>>

FinishSuccess == FinishMission(Simple("mission_succeeded"), "MISSION_SUCCEEDED")
FinishFailure == FinishMission(Simple("mission_failed"), "MISSION_FAILED")

-----------------------------------------------------------------------------
(* An ActionDecision: the verdict of the policy decides what becomes of it *)

VerdictEvents(event) ==
  <<Event("DECISION_RECEIVED"), Event("POLICY_EVALUATED"), Transitioned(mission, event)>>

\* DENIED and REWRITE: the action becomes an observation, nothing is run.
RejectAction(verdict, reason) ==
  LET event == PolicyEvaluated(verdict)
  IN  /\ stage = "deciding"
      /\ verdict \in {"DENIED", "REWRITE"}
      /\ mission' = Advance(mission, event)
      /\ RecordObservation(NewObservation("POLICY_REJECTION", reason), VerdictEvents(event))
      /\ stage' = LoopHead(mission')
      /\ UNCHANGED <<pending, current, persisted, disk, counters>>

\* ALLOWED: _execute_action follows at once.
AllowAction ==
  LET event == PolicyEvaluated("ALLOWED")
  IN  /\ stage = "deciding"
      /\ mission' = Advance(mission, event)
      /\ NothingRecorded(VerdictEvents(event))
      /\ stage' = "executing"
      /\ UNCHANGED <<pending, current, persisted, disk, counters>>

\* REQUIRES_CONFIRMATION: a fresh request is kept and the loop is left.
RequestConfirmationUnkept ==
  LET event == PolicyEvaluated("REQUIRES_CONFIRMATION")
  IN  /\ stage = "deciding"
      /\ issued < MaxRequests
      /\ issued' = issued + 1
      /\ mission' = Advance(mission, event)
      /\ NothingRecorded(Append(VerdictEvents(event), Event("CONFIRMATION_REQUESTED")))
      /\ stage' = LoopHead(mission')
      /\ UNCHANGED <<pending, current, persisted, disk, started, executions, decided>>
RequestConfirmation ==
  LET event == PolicyEvaluated("REQUIRES_CONFIRMATION")
  IN  /\ stage = "deciding"
      /\ issued < MaxRequests
      /\ issued' = issued + 1
      /\ mission' = Advance(mission, event)
      /\ pending' = [id |-> issued + 1, mission |-> mission.id]
      /\ NothingRecorded(Append(VerdictEvents(event), Event("CONFIRMATION_REQUESTED")))
      /\ stage' = LoopHead(mission')
      /\ UNCHANGED <<current, persisted, disk, started, executions, decided>>

-----------------------------------------------------------------------------
(* _execute_action, for an allowed action and for a confirmed one *)

CountExecution ==
  executions' = IF current = NoRequest THEN executions
                ELSE [executions EXCEPT ![current.id] = @ + 1]

\* The tool has run and returned a result, or an ExecutionError.
ExecuteAction(type, kind, text) ==
  LET event == Simple("tool_execution_finished")
  IN  /\ stage = "executing"
      /\ CountExecution
      /\ mission' = Advance(mission, event)
      /\ RecordObservation(NewObservation(kind, text), <<Event(type), Transitioned(mission, event)>>)
      /\ current' = NoRequest
      /\ stage' = IF current = NoRequest THEN LoopHead(mission') ELSE "outcome_checkpoint"
      /\ UNCHANGED <<pending, persisted, disk, started, issued, decided>>

ExecutionSucceeds(text) == ExecuteAction("TOOL_EXECUTION_COMPLETED", "EXECUTION_RESULT", text)
ExecutionFails(text)    == ExecuteAction("TOOL_EXECUTION_FAILED", "EXECUTION_ERROR", text)

(***************************************************************************)
(* The tool has run and an exception leaves executor.run or the building   *)
(* of the observation: an ExecutionError whose message would be blank, or  *)
(* an output that has no JSON form.                                        *)
(***************************************************************************)
ExecutionRaises ==
  /\ stage = "executing"
  /\ CountExecution
  /\ Raise
  /\ UNCHANGED <<disk, started, issued, decided>>

-----------------------------------------------------------------------------
(* resume_confirmation: the answer to the pending request *)

\* What the stages of resume_confirmation call when they start.
Answerable == pending # NoRequest /\ pending.mission = mission.id

GrantTo(next, kept) ==
  LET event == Simple("confirmation_granted")
  IN  /\ Answerable
      /\ mission' = Advance(mission, event)
      /\ pending' = kept
      /\ current' = pending
      /\ NothingRecorded(<<Event("CONFIRMATION_GRANTED"), Transitioned(mission, event)>>)
      /\ stage' = next
      /\ UNCHANGED <<persisted, disk, counters>>

ConfirmationGrantedUnsaved == GrantTo("executing", NoRequest)
ConfirmationGrantedStillPending == GrantTo("consume_checkpoint", pending)
ConfirmationGranted == GrantTo("consume_checkpoint", NoRequest)

DenyTo(next) ==
  LET event == Simple("confirmation_denied")
  IN  /\ Answerable
      /\ mission' = Advance(mission, event)
      /\ pending' = NoRequest
      /\ RecordObservation(NewObservation("CONFIRMATION_DENIED", "plain"),
                           <<Event("CONFIRMATION_DENIED"), Transitioned(mission, event)>>)
      /\ stage' = next
      /\ UNCHANGED <<current, persisted, disk, counters>>

ConfirmationDeniedUnsaved == DenyTo("reasoning")
ConfirmationDenied == DenyTo("outcome_checkpoint")

-----------------------------------------------------------------------------
(* save_checkpoint and persist_events, one durable write each *)

StoreCheckpointOfPauses(next) ==
  /\ checkpoint' = IF pending = NoRequest THEN checkpoint
                   ELSE [mission |-> mission, pending |-> pending]
  /\ savedHistory' = IF pending = NoRequest THEN savedHistory ELSE history
  /\ stage' = next
  /\ UNCHANGED <<memory, eventsFile, counters>>
StoreCheckpoint(next) ==
  /\ checkpoint' = [mission |-> mission, pending |-> pending]
  /\ savedHistory' = history
  /\ stage' = next
  /\ UNCHANGED <<memory, eventsFile, counters>>

SaveCheckpoint(next) == WithinLimit(mission) /\ StoreCheckpoint(next)

\* Past the limit Checkpoint(mission=...) raises: the validator of Mission runs
\* "after", hence on a mission that is passed as an object, too.
SaveCheckpointRefused ==
  /\ ~WithinLimit(mission)
  /\ Raise
  /\ UNCHANGED <<disk, counters>>

NewEventsAll(events, count) == events
NewEvents(events, count) == SubSeq(events, count + 1, Len(events))

\* save_events: the file is rewritten whole, old events first.
SavedEvents(file, new) == file \o new

PersistEvents(next) ==
  LET new == NewEvents(log, persisted)
  IN  /\ new # <<>> => Readable(eventsFile)
      /\ eventsFile' = SavedEvents(eventsFile, new)
      /\ persisted' = Len(log)
      /\ stage' = next
      /\ UNCHANGED <<mission, pending, current, log, observations, history,
                     checkpoint, savedHistory, counters>>

\* save_events reads the old file first, and it is no longer readable.
PersistEventsRefused ==
  /\ NewEvents(log, persisted) # <<>>
  /\ ~Readable(eventsFile)
  /\ Raise
  /\ UNCHANGED <<disk, counters>>

-----------------------------------------------------------------------------
(* load_event_log and resume_mission, on a fresh Runtime *)

ResumedMissionRestarted(saved) == [saved EXCEPT !.iteration = 0]
ResumedMission(saved) == saved

ResumeMissionWithoutHistory ==
  /\ mission' = ResumedMission(checkpoint.mission)
  /\ pending' = checkpoint.pending
  /\ log' = eventsFile
  /\ persisted' = Len(eventsFile)
  /\ observations' = <<>>
  /\ history' = savedHistory
  /\ UNCHANGED <<current, disk, counters>>
ResumeMission ==
  /\ mission' = ResumedMission(checkpoint.mission)
  /\ pending' = checkpoint.pending
  /\ log' = eventsFile
  /\ persisted' = Len(eventsFile)
  /\ observations' = BuildFromEventLog(eventsFile)
  /\ history' = savedHistory
  /\ UNCHANGED <<current, disk, counters>>
=============================================================================
