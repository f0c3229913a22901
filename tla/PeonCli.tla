------------------------------ MODULE PeonCli -------------------------------
(***************************************************************************)
(* src/peon/cli.py: the commands `peon run` and `peon resume`, each a      *)
(* process of its own that builds a fresh Runtime over the two files the   *)
(* processes share, and that can be killed at any of CrashPoints.  One     *)
(* process runs at a time, which is the documented use of the tool.        *)
(***************************************************************************)
EXTENDS Runtime

CONSTANT CrashPoints   \* the stages at which the process may be killed

\* No process is running: there never was one, or how the last one ended.
Idle == {"off", "exited", "raised", "killed"}

\* The two writes of save_checkpoint and persist_events, wherever called.
CheckpointStages == {"consume_checkpoint", "outcome_checkpoint", "returned"}
EventStages      == {"consume_events", "outcome_events", "pause_events", "final_events"}

RuntimeStages == {"reasoning", "deciding", "executing"}
CliStages     == {"asking", "done"}

Busy   == CheckpointStages \cup EventStages \cup RuntimeStages \cup CliStages
Stages == Idle \cup Busy

ASSUME CrashAssumption == CrashPoints \subseteq Busy

Init ==
  /\ stage = "off"
  /\ mission = NoMission
  /\ pending = NoRequest
  /\ current = NoRequest
  /\ log = <<>>
  /\ observations = <<>>
  /\ persisted = 0
  /\ history = <<>>
  /\ checkpoint = NoCheckpoint
  /\ savedHistory = <<>>
  /\ eventsFile = <<>>
  /\ started = 0
  /\ issued = 0
  /\ executions = [r \in Requests |-> 0]
  /\ decided = [m \in Missions |-> 0]

-----------------------------------------------------------------------------
(* peon run *)

RunCommand(limit) == stage \in Idle /\ Run(limit)

\* The command prints why it cannot go on and exits, the files as they were.
Leave ==
  /\ stage \in Idle
  /\ stage' = "exited"
  /\ UNCHANGED <<memory, disk, counters>>

\* The options make no OllamaConfig, or the goal and the limit no Mission.
RunRefused == Leave

-----------------------------------------------------------------------------
(* peon resume *)

ResumeWithoutCheckpoint == checkpoint = NoCheckpoint /\ Leave

ResumeCorruptedEventLog ==
  /\ checkpoint # NoCheckpoint
  /\ ~Readable(eventsFile)
  /\ Leave

\* Every checkpoint that save_checkpoint writes is one that load_checkpoint
\* takes: Checkpoint(...) has validated it before it was written.
Loadable ==
  /\ checkpoint # NoCheckpoint
  /\ Readable(eventsFile)

\* The options make no OllamaConfig.
ResumeRefused == Loadable /\ Leave

\* Only a pending confirmation is taken up again, whatever the status.
ResumeNotPending == Loadable /\ checkpoint.pending = NoRequest /\ Leave

ResumeAndAsk ==
  /\ stage \in Idle
  /\ Loadable
  /\ checkpoint.pending # NoRequest
  /\ ResumeMission
  /\ stage' = "asking"

-----------------------------------------------------------------------------
(* _drive_to_completion, and the checkpoints of resume_confirmation *)

\* What save_checkpoint is followed by, by the stage it is called at.
AfterCheckpointNoEvents(at) ==
  CASE at = "consume_checkpoint" -> "executing"
    [] at = "outcome_checkpoint" -> "outcome_events"
    [] at = "returned" -> IF mission.status = "AWAITING_CONFIRMATION"
                          THEN "pause_events" ELSE "final_events"
AfterCheckpoint(at) ==
  CASE at = "consume_checkpoint" -> "consume_events"
    [] at = "outcome_checkpoint" -> "outcome_events"
    [] at = "returned" -> IF mission.status = "AWAITING_CONFIRMATION"
                          THEN "pause_events" ELSE "final_events"

\* What persist_events is followed by.
AfterEventsUnasked(at) ==
  CASE at = "consume_events" -> "executing"
    [] at = "outcome_events" -> LoopHead(mission)
    [] at = "pause_events" -> "returned"
    [] at = "final_events" -> "done"
AfterEvents(at) ==
  CASE at = "consume_events" -> "executing"
    [] at = "outcome_events" -> LoopHead(mission)
    [] at = "pause_events" -> "asking"
    [] at = "final_events" -> "done"

WriteCheckpoint ==
  /\ stage \in CheckpointStages
  /\ SaveCheckpoint(AfterCheckpoint(stage))

WriteCheckpointRefused ==
  /\ stage \in CheckpointStages
  /\ SaveCheckpointRefused

WriteEvents ==
  /\ stage \in EventStages
  /\ PersistEvents(AfterEvents(stage))

WriteEventsRefused ==
  /\ stage \in EventStages
  /\ PersistEventsRefused

\* The user answers the question of _ask_confirmation.
Grant == stage = "asking" /\ ConfirmationGranted
Deny  == stage = "asking" /\ ConfirmationDenied

\* The final status is printed and the process ends.
Exit ==
  /\ stage = "done"
  /\ stage' = "exited"
  /\ ForgetMemory
  /\ UNCHANGED <<disk, counters>>

\* The process is killed, or the user aborts the question.
Crash ==
  /\ stage \in CrashPoints
  /\ stage' = "killed"
  /\ ForgetMemory
  /\ UNCHANGED <<disk, counters>>

\* The process is killed after the tool has had its effect, before anything is
\* recorded of it.
CrashAfterEffect ==
  /\ stage = "executing"
  /\ stage \in CrashPoints
  /\ stage' = "killed"
  /\ CountExecution
  /\ ForgetMemory
  /\ UNCHANGED <<disk, started, issued, decided>>

-----------------------------------------------------------------------------
(* The specification *)

Decide ==
  \/ FailOnReasoningError
  \/ DecideRaises
  \/ FinishSuccess
  \/ FinishFailure
  \/ \E verdict \in {"DENIED", "REWRITE"}, reason \in Texts : RejectAction(verdict, reason)
  \/ AllowAction
  \/ RequestConfirmation

Execute ==
  \/ \E text \in Texts : ExecutionSucceeds(text)
  \/ \E text \in Texts : ExecutionFails(text)
  \/ ExecutionRaises

\* What the process does once it is running, and while nothing kills it.
Proceed ==
  \/ BeginCycle
  \/ ExhaustIterations
  \/ Decide
  \/ Execute
  \/ WriteCheckpoint
  \/ WriteCheckpointRefused
  \/ WriteEvents
  \/ WriteEventsRefused
  \/ Grant
  \/ Deny
  \/ Exit

Command ==
  \/ \E limit \in Limits : RunCommand(limit)
  \/ RunRefused
  \/ ResumeRefused
  \/ ResumeWithoutCheckpoint
  \/ ResumeCorruptedEventLog
  \/ ResumeNotPending
  \/ ResumeAndAsk

Next == Proceed \/ Command \/ Crash \/ CrashAfterEffect

Spec == Init /\ [][Next]_vars

(***************************************************************************)
(* A running process goes on: the calls it makes return, the one to the    *)
(* model by its HTTP timeout, and the user answers or aborts.  Nobody is   *)
(* obliged to type another command.                                        *)
(***************************************************************************)
FairSpec == Spec /\ WF_vars(Proceed)

-----------------------------------------------------------------------------
(* Invariants *)

Terminal(m) == m.status \in TerminalStates

ControlTypes ==
  /\ stage \in Stages
  /\ mission \in Mission
  /\ pending \in ConfirmationRequest
  /\ current \in ConfirmationRequest
  /\ checkpoint \in Checkpoint
  /\ started \in 0..MaxMissions
  /\ issued \in 0..MaxRequests
  /\ executions \in [Requests -> Nat]
  /\ decided \in [Missions -> Nat]

JournalTypes ==
  /\ log \in Seq(LoggedEvent)
  /\ persisted \in Nat
  /\ history \in Seq(Observation)
  /\ eventsFile \in Seq(LoggedEvent)
  /\ savedHistory \in Seq(Observation)

\* Type correctness.  mission.status is never InvalidTransition, so no call
\* the CLI makes ends in InvalidTransitionError.  (observations is a list of
\* what log holds: ObservationsMirrorLog.)
TypeOK == ControlTypes /\ JournalTypes

\* The action of a confirmation request is never run twice, through every
\* crash and every `peon resume` (_checkpoint_if_configured before and after
\* _execute_action, final save of _drive_to_completion).
AtMostOnce == \A r \in Requests : executions[r] <= 1

\* Once the action of a request has been run, the checkpoint on disk no longer
\* offers that request: `peon resume` cannot ask about it again.
ConsumedBeforeExecution ==
  \A r \in Requests : executions[r] > 0 => checkpoint.pending.id # r

\* While the model is asked or a tool runs for a mission, no checkpoint of that
\* mission on disk still asks the user something: the answer given, yes or no, is
\* on disk before anything follows from it.  So the model is never told of a
\* denial that a kill and a `peon resume` could turn into a consent
\* (the two checkpoints of resume_confirmation).
AnswerSavedFirst ==
  (stage \in RuntimeStages /\ checkpoint.mission.id = mission.id)
    => checkpoint.pending = NoRequest

\* A mission never asks the reasoner more often than its max_iterations, counted
\* over all the processes that drive it: iteration_count survives in the
\* checkpoint, and no restart gives an already spent iteration back.
DecideBudget ==
  mission.id # 0 => decided[mission.id] <= mission.limit

\* Whoever saves a paused mission or asks about it has its request at hand
\* (the assertion of _drive_to_completion), and the request is the mission's
\* own (resume_confirmation raises neither of its two errors).
AwaitingHasRequest ==
  (stage \in {"pause_events", "asking"} \/ mission.status = "AWAITING_CONFIRMATION")
    => /\ mission.status = "AWAITING_CONFIRMATION"
       /\ pending # NoRequest
       /\ pending.mission = mission.id

\* The two copies of the observations never part: Runtime.observations is what
\* the context builder reads from the event log, across resume as well.
ObservationsMirrorLog ==
  stage \in Busy => observations = BuildFromEventLog(log)

\* The context given to the reasoner holds the observations the mission has
\* really gone through, no other mission's, none missing, none twice: a resumed
\* process sees what the process that wrote the checkpoint would have seen
\* (cli.py:124-126).
ContextFaithful ==
  stage = "deciding" => BuildFromEventLog(log) = history

\* What the log says of a mission's status: that it begins, and every change.
IsTransition(event) == event.type = "STATE_TRANSITIONED"
IsStatusEvent(event) == IsMissionStart(event) \/ IsTransition(event)
StatusTold(event) == IF IsMissionStart(event) THEN "CREATED" ELSE event.to

\* The last such event before position i is at position j.
TellsLast(events, j, i) ==
  /\ j < i
  /\ IsStatusEvent(events[j])
  /\ \A k \in (j + 1)..(i - 1) : ~IsStatusEvent(events[k])

\* The events file tells every mission's life without a gap or a repetition:
\* no mission begins twice, after MISSION_CREATED comes the transition from
\* CREATED, and any other transition starts at the state the one before it led
\* to (the delta of persist_events, across all processes).
Chained(events) ==
  \A i \in 1..Len(events) :
    IsTransition(events[i]) =>
      \E j \in 1..Len(events) :
        TellsLast(events, j, i) /\ StatusTold(events[j]) = events[i].from
JournalChained ==
  Cardinality(MissionStarts(eventsFile)) <= started /\ Chained(eventsFile)

\* Outside the moment between save_checkpoint and persist_events, the two files
\* agree as long as both can be read: the last transition on file led to the
\* status in the checkpoint.
EndsIn(events, status) ==
  \E j \in 1..Len(events) :
    TellsLast(events, j, Len(events) + 1) /\ IsTransition(events[j]) /\ events[j].to = status
SnapshotMatchesJournal ==
  (stage \notin EventStages /\ checkpoint # NoCheckpoint /\ Readable(eventsFile))
    => EndsIn(eventsFile, checkpoint.mission.status)

\* FileStorage can read back the events file it has written (storage.py:62-64,
\* "JSON Lines, un evenement par ligne").
EventLogStaysReadable == Readable(eventsFile)

-----------------------------------------------------------------------------
(* Action properties *)

\* The checkpoint on disk only moves forward: never back to an earlier mission,
\* never back to an earlier iteration, and a finished mission stays as it ended
\* until another one replaces it.
Forward(old, new) ==
  /\ old.id <= new.id
  /\ old.id = new.id => /\ old.iteration <= new.iteration
                        /\ Terminal(old) => new = old
CheckpointMonotone == [][Forward(checkpoint.mission, checkpoint'.mission)]_checkpoint

\* A process that has driven its mission to an end, and is not killed, leaves
\* that end in the checkpoint (cli.py:131-138).
FinalStateSaved ==
  [][(mission.status \in TerminalStates /\ stage' \in Idle \ {"killed"})
       => /\ checkpoint'.mission = mission
          /\ WithinLimit(checkpoint'.mission)]_vars

\* How many steps a cycle may still take from a stage on.
StepsLeft(at) ==
  CASE at = "deciding" -> 10
    [] at = "returned" -> 9
    [] at \in {"pause_events", "final_events"} -> 8
    [] at \in {"asking", "done"} -> 7
    [] at = "consume_checkpoint" -> 6
    [] at = "consume_events" -> 5
    [] at = "executing" -> 4
    [] at = "outcome_checkpoint" -> 3
    [] at = "outcome_events" -> 2
    [] at = "reasoning" -> 1

Remaining == 10 * (mission.limit + 1 - mission.iteration) + StepsLeft(stage)

\* Whatever is decided, confirmed or denied, a step ends the process or leaves it
\* with fewer steps: no sequence of pauses, rejections and answers goes round
\* without spending an iteration, and there is at most one cycle past the limit
\* (runtime.py:236-242, cli.py:117-141).
EveryStepSpends ==
  [][(stage \in Busy) => \/ stage' \in Idle
                         \/ 0 <= Remaining' /\ Remaining' < Remaining]_vars

\* The same for every end but MAX_ITERATIONS.
DecidedEndSaved ==
  [][(mission.status \in {"SUCCEEDED", "FAILED"} /\ stage' \in Idle \ {"killed"})
       => /\ checkpoint'.mission = mission
          /\ WithinLimit(checkpoint'.mission)]_vars

-----------------------------------------------------------------------------
(* Liveness and refinement *)

\* A process that runs comes to an end: reasoning, confirming and saving cannot
\* go round for ever, since every cycle spends an iteration.
EveryCommandEnds == stage \in Busy ~> stage \in Idle

\* Where a request stands, from what memory and disk still know of it.
RequestPhase(r) ==
  CASE r > issued -> "unissued"
    [] r <= issued /\ executions[r] > 0 -> "executed"
    [] r <= issued /\ executions[r] = 0 /\ current.id = r -> "granted"
    [] r <= issued /\ executions[r] = 0 /\ current.id # r
         /\ r \in {pending.id, checkpoint.pending.id} -> "open"
    [] OTHER -> "dropped"

Gate == INSTANCE ConfirmedOnce WITH phase <- [r \in Requests |-> RequestPhase(r)]

\* Every behaviour of the CLI, crashes included, is one the confirmation gate
\* promises (ConfirmedOnce).
RefinesConfirmedOnce == Gate!Spec
=============================================================================
