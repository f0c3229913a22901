--------------------------- MODULE RuntimeClient ----------------------------
(***************************************************************************)
(* src/peon/runtime.py and InMemoryStorage of src/peon/storage.py, as a    *)
(* program that embeds them finds them: the public calls of Runtime in any *)
(* order, in a process that outlives an exception, which the commands of   *)
(* PeonCli never do.  A Mission is a mutable object and a Checkpoint holds *)
(* a reference to one, so the missions live in "objects", by slot, and the *)
(* rest of the state refers to them.                                       *)
(*                                                                         *)
(* Of the event log it keeps what a later call can tell apart: where a     *)
(* mission starts, the answers to requests and the observations.           *)
(***************************************************************************)
EXTENDS StateMachine, ContextBuilder

CONSTANTS
  MaxMissions,  \* bound: missions ever created
  MaxRequests,  \* bound: confirmation requests ever issued
  MaxObjects,   \* bound: Mission objects in the hands of the client
  MaxCycles,    \* max_iterations of every mission
  MaxCalls      \* bound: calls the client ever makes

ASSUME ClientAssumption ==
  /\ {MaxMissions, MaxRequests, MaxObjects, MaxCalls} \subseteq Nat
  /\ MaxCycles \in Nat \ {0}

VARIABLES
  stage,        \* "client" has control, or where the call under way is
  objects,      \* the Mission objects, by slot
  used,         \* slots in use
  driven,       \* slot of the mission the call under way drives
  current,      \* the request resume_confirmation is carrying out
  pending,      \* Runtime._pending_confirmation
  log,          \* the EventLog of the Runtime
  observations, \* Runtime._observations
  persisted,    \* Runtime._persisted_event_count
  stored,       \* Storage: the checkpoint
  storedEvents, \* Storage: the events
  kept,         \* the Checkpoint object in the client's hands
  started,      \* ghost: missions created so far
  calls,        \* ghost: calls made so far
  issued,       \* ghost: requests issued so far
  executions,   \* ghost: per request, how often its action was run
  base,         \* ghost: stored events that the Runtime did not load
  stale,        \* ghost: a checkpoint was resumed that storage no longer holds
  mixed,        \* ghost: a mission was resumed after a later one had started, or
                \* on a log with events, the last mission of which is not known to be it
  apart,        \* ghost: recording an observation has raised half-way, or the
                \* Runtime is new and has not resumed what its log tells
  doubted       \* ghost: save_events has raised after it had its effect

runtime == <<pending, log, observations, persisted>>
storage == <<stored, storedEvents>>
heap    == <<objects, used>>
marks   == <<base, stale, mixed, apart, doubted>>
clientVars ==
  <<stage, heap, driven, current, runtime, storage, kept, calls, started, issued,
    executions, marks>>

Missions == 1..MaxMissions
Requests == 1..MaxRequests
Handles  == 1..MaxObjects

\* Where storage keeps its copy of the mission it was given last.
StorageSlot == MaxObjects + 1
Slots       == Handles \cup {StorageSlot}
NoSlot      == 0

NoMission    == [id |-> 0, status |-> "CREATED", iteration |-> 0]
NoRequest    == [id |-> 0, mission |-> 0]
NoCheckpoint == [mission |-> NoSlot, pending |-> NoRequest]

Init ==
  /\ stage = "client"
  /\ objects = [s \in Slots |-> NoMission]
  /\ used = 0
  /\ driven = NoSlot
  /\ current = NoRequest
  /\ pending = NoRequest
  /\ log = <<>> /\ observations = <<>> /\ persisted = 0
  /\ stored = NoCheckpoint /\ storedEvents = <<>>
  /\ kept = NoCheckpoint
  /\ calls = 0 /\ started = 0 /\ issued = 0
  /\ executions = [r \in Requests |-> 0]
  /\ base = <<>>
  /\ stale = FALSE /\ mixed = FALSE /\ apart = FALSE /\ doubted = FALSE

-----------------------------------------------------------------------------
(* run, up to its loop *)

InClient == stage = "client"

\* The call ends, with or without an exception.
Back == stage' = "client" /\ driven' = NoSlot /\ current' = NoRequest

Advanced(m, kind) == [m EXCEPT !.status = Transition(m.status, Simple(kind))]

RunLeaving(request) ==
  /\ InClient
  /\ started < MaxMissions /\ used < MaxObjects
  /\ started' = started + 1
  /\ used' = used + 1
  /\ objects' = [objects EXCEPT ![used + 1] =
                   Advanced([id |-> started + 1, status |-> "CREATED", iteration |-> 0],
                            "mission_created")]
  /\ driven' = used + 1
  /\ log' = Append(log, [type |-> "MISSION_CREATED", mission |-> started + 1])
  /\ observations' = <<>>
  /\ pending' = request
  /\ apart' = FALSE
  /\ stage' = "looping"
  /\ UNCHANGED <<persisted, storage, kept, current, issued, executions,
                 base, stale, mixed, doubted>>

RunKeepingPending == RunLeaving(pending)
Run == RunLeaving(NoRequest)

-----------------------------------------------------------------------------
(* The reasoning loop, a cycle at a time *)

\* The mission as a cycle that ends in a status leaves it.
Cycled(status) ==
  objects' = [objects EXCEPT ![driven].iteration = @ + 1, ![driven].status = status]

InCycle == stage = "looping" /\ objects[driven].iteration < MaxCycles

NewObservation == [mission |-> objects[driven].id, cycle |-> objects[driven].iteration]
Produced(observation) == [type |-> "OBSERVATION_PRODUCED", observation |-> observation]

\* _record_observation, after the events that come before it.
RecordObservation(before) ==
  /\ observations' = Append(observations, NewObservation)
  /\ log' = log \o Append(before, Produced(NewObservation))
  /\ UNCHANGED apart

\* _record_observation, when the observation has no JSON form: model_dump
\* raises after the list has been extended and before the log is.
RecordRaises ==
  /\ observations' = Append(observations, NewObservation)
  /\ apart' = TRUE
  /\ UNCHANGED log

\* An action is run, or rejected by the policy.
Observe ==
  /\ InCycle
  /\ Cycled("REASONING")
  /\ RecordObservation(<<>>)
  /\ UNCHANGED <<stage, used, driven, current, pending, persisted, storage, kept,
                 started, issued, executions, base, stale, mixed, doubted>>

ObserveRaises ==
  /\ InCycle
  /\ Cycled("REASONING")
  /\ RecordRaises
  /\ Back
  /\ UNCHANGED <<used, pending, persisted, storage, kept,
                 started, issued, executions, base, stale, mixed, doubted>>

\* Any other exception leaves the mission REASONING, or EXECUTING, which no
\* later call tells apart, with nobody to go on.
CycleRaises ==
  /\ InCycle
  /\ Cycled("REASONING")
  /\ Back
  /\ UNCHANGED <<used, runtime, storage, kept, started, issued, executions, marks>>

Pause ==
  /\ InCycle
  /\ issued < MaxRequests
  /\ issued' = issued + 1
  /\ Cycled("AWAITING_CONFIRMATION")
  /\ pending' = [id |-> issued + 1, mission |-> objects[driven].id]
  /\ Back
  /\ UNCHANGED <<used, log, observations, persisted, storage, kept, started,
                 executions, marks>>

\* SUCCEEDED, or FAILED, which no later call tells apart.
Finish ==
  /\ InCycle
  /\ Cycled("SUCCEEDED")
  /\ Back
  /\ UNCHANGED <<used, runtime, storage, kept, started, issued, executions, marks>>

Exhaust ==
  /\ stage = "looping"
  /\ objects[driven].iteration >= MaxCycles
  /\ Cycled("MAX_ITERATIONS")
  /\ Back
  /\ UNCHANGED <<used, runtime, storage, kept, started, issued, executions, marks>>

-----------------------------------------------------------------------------
(* save_checkpoint and persist_events, and the two writing places inside    *)
(* resume_confirmation                                                      *)

\* Storage keeps a deep copy, in a slot of its own.
StoreByReference(m) ==
  /\ stored' = [mission |-> m, pending |-> pending]
  /\ UNCHANGED objects
Store(m) ==
  /\ stored' = [mission |-> StorageSlot, pending |-> pending]
  /\ objects' = [objects EXCEPT ![StorageSlot] = objects[m]]

NewEvents == SubSeq(log, persisted + 1, Len(log))

\* A storage may raise before it has had its effect, or after.
PersistUncounted(raised) ==
  /\ storedEvents' = storedEvents \o NewEvents
  /\ doubted' = (doubted \/ (raised /\ NewEvents # <<>>))
  /\ UNCHANGED persisted
Persist(raised) ==
  /\ storedEvents' = storedEvents \o NewEvents
  /\ persisted' = IF raised THEN persisted ELSE Len(log)
  /\ doubted' = (doubted \/ (raised /\ NewEvents # <<>>))

\* save_checkpoint: the object it returns refers to the mission itself.  The
\* client may keep it in place of the one it had.
SaveCheckpoint(m) ==
  /\ InClient
  /\ Store(m)
  /\ kept' \in {kept, [mission |-> m, pending |-> pending]}
  /\ UNCHANGED <<stage, used, driven, current, runtime, storedEvents,
                 started, issued, executions, marks>>

\* The client may call it again whenever a call of it has raised.
PersistEvents(raised) ==
  /\ InClient
  /\ Persist(raised)
  /\ UNCHANGED <<stage, heap, driven, current, pending, log, observations, stored, kept,
                 started, issued, executions, base, stale, mixed, apart>>

Saving == {"consuming", "concluding"}

\* _checkpoint_if_configured, all of it.
CheckpointIfConfigured ==
  /\ stage \in Saving
  /\ Store(driven)
  /\ Persist(FALSE)
  /\ stage' = IF stage = "consuming" THEN "executing" ELSE "looping"
  /\ UNCHANGED <<used, driven, current, pending, log, observations, kept,
                 started, issued, executions, base, stale, mixed, apart>>

\* It raises before, between or after the two writes.
CheckpointRaises ==
  /\ stage \in Saving
  /\ \/ UNCHANGED <<objects, storage, persisted, doubted>>
     \/ Store(driven) /\ UNCHANGED <<storedEvents, persisted, doubted>>
     \/ Store(driven) /\ Persist(TRUE)
  /\ Back
  /\ UNCHANGED <<used, pending, log, observations, kept,
                 started, issued, executions, base, stale, mixed, apart>>

-----------------------------------------------------------------------------
(* resume_confirmation *)

\* The response names the pending request and the mission is the request's.
\* Any other answer raises and changes nothing.
AcceptsAnyMission(m) == pending # NoRequest
Accepts(m) == pending # NoRequest /\ pending.mission = objects[m].id

\* The status of the object allows it.
AwaitsUnchecked(m) == TRUE
Awaits(m) == objects[m].status = "AWAITING_CONFIRMATION"

GrantTo(next, m) ==
  /\ InClient
  /\ Accepts(m) /\ Awaits(m)
  /\ pending' = NoRequest
  /\ current' = pending
  /\ driven' = m
  /\ log' = Append(log, [type |-> "CONFIRMATION_GRANTED"])
  /\ objects' = [objects EXCEPT ![m] = Advanced(@, "confirmation_granted")]
  /\ stage' = next
  /\ UNCHANGED <<used, observations, persisted, storage, kept, started, issued,
                 executions, marks>>

GrantUnsaved(m) == GrantTo("executing", m)
Grant(m) == GrantTo("consuming", m)

Deny(m) ==
  LET denied == [type |-> "CONFIRMATION_DENIED"]
      observation == [mission |-> objects[m].id, cycle |-> objects[m].iteration]
  IN  /\ InClient
      /\ Accepts(m) /\ Awaits(m)
      /\ pending' = NoRequest
      /\ driven' = m
      /\ objects' = [objects EXCEPT ![m] = Advanced(@, "confirmation_denied")]
      /\ observations' = Append(observations, observation)
      /\ log' = log \o <<denied, Produced(observation)>>
      /\ stage' = "concluding"
      /\ UNCHANGED <<used, current, persisted, storage, kept, started, issued,
                     executions, marks>>

\* Another object of the same mission, in a status that takes no answer:
\* InvalidTransitionError, once the request is consumed and the answer logged.
AnswerInvalid(m) ==
  /\ InClient
  /\ Accepts(m) /\ ~Awaits(m)
  /\ pending' = NoRequest
  /\ \E type \in {"CONFIRMATION_GRANTED", "CONFIRMATION_DENIED"} :
       log' = Append(log, [type |-> type])
  /\ UNCHANGED <<stage, heap, driven, current, observations, persisted, storage, kept,
                 started, issued, executions, marks>>

CountExecution == executions' = [executions EXCEPT ![current.id] = @ + 1]

Concluded ==
  objects' = [objects EXCEPT ![driven] = Advanced(@, "tool_execution_finished")]

\* _execute_action for the confirmed action.
Execute ==
  /\ stage = "executing"
  /\ CountExecution
  /\ Concluded
  /\ RecordObservation(<<>>)
  /\ current' = NoRequest
  /\ stage' = "concluding"
  /\ UNCHANGED <<used, driven, pending, persisted, storage, kept, started, issued,
                 base, stale, mixed, doubted>>

ExecuteRecordRaises ==
  /\ stage = "executing"
  /\ CountExecution
  /\ Concluded
  /\ RecordRaises
  /\ Back
  /\ UNCHANGED <<used, pending, persisted, storage, kept, started, issued,
                 base, stale, mixed, doubted>>

\* The executor raises, the tool having had its effect.
ExecuteRaises ==
  /\ stage = "executing"
  /\ CountExecution
  /\ Back
  /\ UNCHANGED <<heap, runtime, storage, kept, started, issued, marks>>

-----------------------------------------------------------------------------
(* load_checkpoint, resume_mission, and a new Runtime over the storage *)

\* load_checkpoint returns a deep copy.
LoadCheckpoint ==
  /\ InClient
  /\ stored # NoCheckpoint
  /\ used < MaxObjects
  /\ used' = used + 1
  /\ objects' = [objects EXCEPT ![used + 1] = objects[stored.mission]]
  /\ kept' = [mission |-> used + 1, pending |-> stored.pending]
  /\ UNCHANGED <<stage, driven, current, runtime, storage, started, issued, executions, marks>>

\* The mission whose events the context builder would take the log's last for.
LastStarted(events) ==
  LET starts == MissionStarts(events)
  IN  IF starts = {} THEN 0
      ELSE events[CHOOSE i \in starts : \A j \in starts : j <= i].mission

ResumeWith(restored) ==
  /\ InClient
  /\ kept # NoCheckpoint
  /\ pending' = kept.pending
  /\ observations' = restored
  /\ apart' = FALSE
  /\ stale' = (stale \/ kept.pending # stored.pending)
  /\ mixed' = (mixed \/ objects[kept.mission].id # started
                    \/ (log # <<>> /\ LastStarted(log) # started))
  /\ UNCHANGED <<stage, heap, driven, current, log, persisted, storage, kept,
                 started, issued, executions, base, doubted>>

ResumeMissionWithoutHistory == ResumeWith(<<>>)
ResumeMission == ResumeWith(BuildFromEventLog(log))

\* Runtime.__init__, with the log that load_event_log returns or an empty one;
\* the old Runtime is let go.
NewRuntime(events) ==
  /\ InClient
  /\ events \in {<<>>, storedEvents}
  /\ log' = events
  /\ persisted' = Len(events)
  /\ observations' = <<>>
  /\ pending' = NoRequest
  /\ base' = IF events = <<>> THEN storedEvents ELSE <<>>
  /\ apart' = (BuildFromEventLog(events) # <<>>)
  /\ UNCHANGED <<stage, heap, driven, current, storage, kept, started, issued,
                 executions, stale, mixed, doubted>>

-----------------------------------------------------------------------------

Reasoning == Observe \/ ObserveRaises \/ CycleRaises \/ Pause \/ Finish \/ Exhaust

Confirming == Execute \/ ExecuteRecordRaises \/ ExecuteRaises
              \/ CheckpointIfConfigured \/ CheckpointRaises

Called ==
  \/ Run
  \/ \E m \in 1..used : Grant(m) \/ Deny(m) \/ AnswerInvalid(m) \/ SaveCheckpoint(m)
  \/ \E raised \in BOOLEAN : PersistEvents(raised)
  \/ LoadCheckpoint
  \/ ResumeMission
  \/ \E events \in {<<>>, storedEvents} : NewRuntime(events)

Next ==
  \/ Reasoning /\ UNCHANGED calls
  \/ Confirming /\ UNCHANGED calls
  \/ calls < MaxCalls /\ calls' = calls + 1 /\ Called

Spec == Init /\ [][Next]_clientVars

-----------------------------------------------------------------------------
(* Properties *)

MissionObject == [id : {0} \cup Missions, status : MissionStatus, iteration : Nat]
Request       == [id : {0} \cup Requests, mission : {0} \cup Missions]

\* Type correctness; in particular no accepted answer leaves an object in a
\* status that the state machine does not know.
ClientTypeOK ==
  /\ stage \in {"client", "looping", "executing"} \cup Saving
  /\ objects \in [Slots -> MissionObject]
  /\ used \in 0..MaxObjects
  /\ driven \in {NoSlot} \cup Handles
  /\ {pending, current, stored.pending, kept.pending} \subseteq Request
  /\ kept.mission \in {NoSlot} \cup Handles
  /\ persisted \in 0..Len(log)
  /\ executions \in [Requests -> Nat]

\* Whatever the client calls, and whatever raises on the way, the action of a
\* request is run once, as long as resume_mission is only given what storage
\* holds at that moment (runtime.py:171-177).
OnceUnlessStale == ~stale => \A r \in Requests : executions[r] <= 1

\* Storage holds every event once and in order, whichever calls of
\* persist_events have raised before they had an effect and have been repeated
\* (runtime.py:84-97).
EventsStoredOnce == ~doubted => storedEvents = base \o SubSeq(log, 1, persisted)

\* Runtime.observations is what the next context is built from, unless a
\* recording has raised half-way or a new Runtime has not resumed yet; and the
\* next run or resume_mission puts that right.
ListMatchesLog == ~apart => observations = BuildFromEventLog(log)

\* A mission reasons about its own observations only, as long as the mission
\* resumed is the last one started, on a log that is empty or says so
\* (context_builder.py:57-69; without a MISSION_CREATED the builder takes every
\* event for the mission's): run drops the pending request of the mission
\* before, and no answer reaches another mission than the request's.
OwnObservationsOnly ==
  (stage = "looping" /\ ~mixed) =>
    \A i \in 1..Len(BuildFromEventLog(log)) :
      BuildFromEventLog(log)[i].mission = objects[driven].id

\* The checkpoint in storage changes when it is saved and at no other time,
\* whatever happens to the mission it was made from or to the copies that were
\* loaded (storage.py:37-50).
StoredCheckpointFrozen ==
  [][(stored # NoCheckpoint /\ (objects[stored.mission])' # objects[stored.mission])
       => (InClient /\ stage' = "client") \/ stage \in Saving]_clientVars
=============================================================================
