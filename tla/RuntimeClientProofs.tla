------------------------ MODULE RuntimeClientProofs -------------------------
(***************************************************************************)
(* Proofs about RuntimeClient, for any bounds: whatever a client calls, in *)
(* whatever order, and whatever raises on the way, the types hold, a       *)
(* request is carried out once, storage holds each event once, the         *)
(* checkpoint in storage changes only when it is saved, and the            *)
(* observations a mission reasons on are those of its log, and its own.    *)
(***************************************************************************)
EXTENDS RuntimeClient, ContextBuilderProofs, TLAPS

-----------------------------------------------------------------------------
(* The missions, the slots and the requests *)

\* The requests that have been issued, or none.
Asked(n) == {NoRequest} \cup [id : 1..n, mission : {0} \cup Missions]

\* The counters and the missions.  Whoever drives a mission has it in a slot of
\* the client, and the one whose action is granted is EXECUTING.
Heap ==
  /\ stage \in {"client", "looping", "executing"} \cup Saving
  /\ used \in 0..MaxObjects /\ started \in 0..MaxMissions
  /\ objects \in [Slots -> MissionObject]
  /\ driven \in {NoSlot} \cup Handles
  /\ stage # "client" => driven \in Handles
  /\ stage \in {"consuming", "executing"} => objects[driven].status = "EXECUTING"
  /\ kept.mission \in {NoSlot} \cup Handles
  /\ stored = NoCheckpoint \/ stored.mission = StorageSlot

LEMMA SlotFacts ==
  /\ Handles \subseteq Slots /\ StorageSlot \in Slots \ Handles /\ NoSlot \notin Slots
  /\ \A n \in 0..MaxObjects : \A m \in 1..n : m \in Handles
  /\ \A n \in 0..MaxObjects : n < MaxObjects => n + 1 \in Handles /\ n + 1 \in 0..MaxObjects
BY ClientAssumption DEF Handles, Slots, StorageSlot, NoSlot

\* What an answer, or the end of a tool, makes of a mission it applies to.
LEMMA AdvancedFacts ==
  ASSUME NEW m \in MissionObject, NEW kind \in SimpleKinds,
         \/ m.status = "CREATED" /\ kind = "mission_created"
         \/ m.status = "AWAITING_CONFIRMATION" /\ kind \in {"confirmation_granted", "confirmation_denied"}
         \/ m.status = "EXECUTING" /\ kind = "tool_execution_finished"
  PROVE  /\ Advanced(m, kind) \in MissionObject
         /\ Advanced(m, kind).id = m.id /\ Advanced(m, kind).iteration = m.iteration
         /\ kind = "confirmation_granted" => Advanced(m, kind).status = "EXECUTING"
<1>1. Transition(m.status, Simple(kind)) = SimpleTransition(m.status, kind)
  BY DEF Transition, Simple, SimpleKinds
<1>2. /\ SimpleTransition(m.status, kind) \in MissionStatus
      /\ kind = "confirmation_granted" => SimpleTransition(m.status, kind) = "EXECUTING"
  BY DEF SimpleTransition, MissionStatus
<1> QED
  BY <1>1, <1>2 DEF Advanced, MissionObject

\* A slot gets another mission, and the call under way goes on as it may.
LEMMA SlotSet ==
  ASSUME Heap, NEW slot \in Slots, NEW m \in MissionObject,
         objects' = [objects EXCEPT ![slot] = m],
         used' \in 0..MaxObjects, started' \in 0..MaxMissions,
         stage' \in {"client", "looping", "executing"} \cup Saving,
         driven' \in {NoSlot} \cup Handles, stage' # "client" => driven' \in Handles,
         stage' \in {"consuming", "executing"} => objects'[driven'].status = "EXECUTING",
         kept'.mission \in {NoSlot} \cup Handles,
         stored' = NoCheckpoint \/ stored'.mission = StorageSlot
  PROVE  Heap'
BY DEF Heap

LEMMA StoreFacts ==
  ASSUME Heap, NEW m \in Handles, Store(m)
  PROVE  /\ stored'.mission = StorageSlot /\ stored'.pending = pending
         /\ objects' = [objects EXCEPT ![StorageSlot] = objects[m]]
         /\ objects' \in [Slots -> MissionObject]
         /\ \A s \in Handles : objects'[s] = objects[s]
BY SlotFacts DEF Store, Heap

LEMMA CycledFacts ==
  ASSUME Heap, stage = "looping", NEW status \in MissionStatus, Cycled(status)
  PROVE  objects' \in [Slots -> MissionObject]
<1>1. driven \in Slots /\ objects[driven] \in MissionObject
  BY SlotFacts DEF Heap
<1> DEFINE n == [objects[driven] EXCEPT !.iteration = @ + 1]
           m == [n EXCEPT !.status = status]
<1>2. m \in MissionObject
  <2>1. n \in MissionObject
    BY <1>1 DEF MissionObject
  <2> HIDE DEF n
  <2> QED
    BY <2>1 DEF MissionObject
<1>3. objects' = [objects EXCEPT ![driven] = m]
  BY <1>1 DEF Heap, Cycled
<1> HIDE DEF n, m
<1> QED
  BY <1>1, <1>2, <1>3 DEF Heap

LEMMA HeapStep == Heap /\ [Next]_clientVars => Heap'
<1> SUFFICES ASSUME Heap, [Next]_clientVars PROVE Heap'
  OBVIOUS
<1>0. MissionStatus # {} /\ {"REASONING", "AWAITING_CONFIRMATION", "SUCCEEDED", "MAX_ITERATIONS"} \subseteq MissionStatus
  BY DEF MissionStatus
<1>1. CASE Run
  <2> DEFINE new == [id |-> started + 1, status |-> "CREATED", iteration |-> 0]
  <2>1. /\ started + 1 \in Missions /\ started + 1 \in 0..MaxMissions
        /\ used + 1 \in Handles /\ used + 1 \in 0..MaxObjects
    BY <1>1, ClientAssumption, SlotFacts DEF Run, RunLeaving, Heap, Missions
  <2>2. new \in MissionObject /\ new.status = "CREATED" /\ "mission_created" \in SimpleKinds
    BY <2>1 DEF MissionObject, MissionStatus, SimpleKinds
  <2>3. /\ objects' = [objects EXCEPT ![used + 1] = Advanced(new, "mission_created")]
        /\ used' = used + 1 /\ started' = started + 1 /\ driven' = used + 1 /\ stage' = "looping"
        /\ UNCHANGED <<kept, stored>>
    BY <1>1 DEF Run, RunLeaving, storage
  <2> HIDE DEF new
  <2>4. Advanced(new, "mission_created") \in MissionObject
    BY <2>2, AdvancedFacts
  <2> QED
    BY <2>1, <2>3, <2>4, SlotFacts, SlotSet DEF Heap
<1>2. CASE Reasoning
  <2>1. \E status \in MissionStatus : Cycled(status)
    BY <1>0, <1>2 DEF Reasoning, Observe, ObserveRaises, CycleRaises, Pause, Finish, Exhaust
  <2>2. /\ stage = "looping" /\ UNCHANGED <<used, started, kept, stored>>
        /\ (stage' = "client" /\ driven' = NoSlot) \/ UNCHANGED <<stage, driven>>
    BY <1>2 DEF Reasoning, Observe, ObserveRaises, CycleRaises, Pause, Finish, Exhaust, InCycle, Back,
                storage
  <2>3. objects' \in [Slots -> MissionObject]
    BY <2>1, <2>2, CycledFacts
  <2> QED
    BY <2>2, <2>3 DEF Heap
<1>3. ASSUME NEW m \in 1..used, Grant(m) \/ Deny(m) PROVE Heap'
  <2>1. m \in Handles /\ m \in Slots
    BY SlotFacts DEF Heap
  <2>2. objects[m] \in MissionObject /\ objects[m].status = "AWAITING_CONFIRMATION"
    BY <1>3, <2>1 DEF Heap, Grant, GrantTo, Deny, Awaits
  <2>3. {"confirmation_granted", "confirmation_denied"} \subseteq SimpleKinds
    BY DEF SimpleKinds
  <2>4. driven' = m /\ UNCHANGED <<used, started, kept, stored>>
    BY <1>3 DEF Grant, GrantTo, Deny, storage
  <2>5. CASE Grant(m)
    <3>1. /\ objects' = [objects EXCEPT ![m] = Advanced(objects[m], "confirmation_granted")]
          /\ stage' = "consuming"
      BY <2>5 DEF Grant, GrantTo
    <3>2. /\ Advanced(objects[m], "confirmation_granted") \in MissionObject
          /\ Advanced(objects[m], "confirmation_granted").status = "EXECUTING"
      BY <2>2, <2>3, AdvancedFacts
    <3>3. objects'[m].status = "EXECUTING"
      BY <2>1, <3>1, <3>2 DEF Heap
    <3> QED
      BY <2>1, <2>4, <3>1, <3>2, <3>3, SlotSet DEF Heap, Saving
  <2>6. CASE Deny(m)
    <3>1. /\ objects' = [objects EXCEPT ![m] = Advanced(objects[m], "confirmation_denied")]
          /\ stage' = "concluding"
      BY <2>6 DEF Deny
    <3>2. Advanced(objects[m], "confirmation_denied") \in MissionObject
      BY <2>2, <2>3, AdvancedFacts
    <3> QED
      BY <2>1, <2>4, <3>1, <3>2, SlotSet DEF Heap, Saving
  <2> QED
    BY <1>3, <2>5, <2>6
<1>4. CASE CheckpointIfConfigured
  <2>1. /\ stage \in Saving /\ Store(driven) /\ UNCHANGED <<used, started, kept, driven>>
        /\ stage' = IF stage = "consuming" THEN "executing" ELSE "looping"
    BY <1>4 DEF CheckpointIfConfigured
  <2>2. driven \in Handles
    BY <2>1 DEF Heap, Saving
  <2> QED
    BY <2>1, <2>2, StoreFacts DEF Heap, Saving
<1>5. CASE CheckpointRaises
  <2>1. /\ stage \in Saving /\ UNCHANGED <<used, started, kept>> /\ stage' = "client" /\ driven' = NoSlot
        /\ UNCHANGED <<objects, stored>> \/ Store(driven)
    BY <1>5 DEF CheckpointRaises, Back, storage
  <2>2. driven \in Handles
    BY <2>1 DEF Heap, Saving
  <2> QED
    BY <2>1, <2>2, StoreFacts DEF Heap
<1>6. ASSUME NEW m \in 1..used, SaveCheckpoint(m) PROVE Heap'
  <2>1. /\ InClient /\ Store(m) /\ UNCHANGED <<stage, used, driven, started>>
        /\ kept'.mission \in {kept.mission, m}
    BY <1>6 DEF SaveCheckpoint
  <2>2. m \in Handles
    BY SlotFacts DEF Heap
  <2> QED
    BY <2>1, <2>2, StoreFacts DEF Heap, InClient
<1>7. CASE Execute \/ ExecuteRecordRaises
  <2>1. /\ stage = "executing" /\ Concluded /\ UNCHANGED <<used, started, kept, stored>>
        /\ \/ stage' = "concluding" /\ driven' = driven
           \/ stage' = "client" /\ driven' = NoSlot
    BY <1>7 DEF Execute, ExecuteRecordRaises, Back, storage
  <2>2. /\ driven \in Handles /\ driven \in Slots
        /\ objects[driven] \in MissionObject /\ objects[driven].status = "EXECUTING"
    BY <2>1, SlotFacts DEF Heap
  <2>3. Advanced(objects[driven], "tool_execution_finished") \in MissionObject
    BY <2>2, AdvancedFacts DEF SimpleKinds
  <2> QED
    BY <2>1, <2>2, <2>3, SlotSet DEF Heap, Saving, Concluded
<1>8. CASE LoadCheckpoint
  <2>1. /\ InClient /\ stored # NoCheckpoint /\ used < MaxObjects /\ used' = used + 1
        /\ objects' = [objects EXCEPT ![used + 1] = objects[stored.mission]]
        /\ kept'.mission = used + 1 /\ UNCHANGED <<stage, driven, started, stored>>
    BY <1>8 DEF LoadCheckpoint, storage
  <2>2. /\ used + 1 \in Handles /\ used + 1 \in Slots /\ used + 1 \in 0..MaxObjects
        /\ stored.mission \in Slots
    BY <2>1, SlotFacts DEF Heap
  <2>3. objects[stored.mission] \in MissionObject
    BY <2>2 DEF Heap
  <2> QED
    BY <2>1, <2>2, <2>3, SlotSet DEF Heap, InClient
<1>9. CASE ExecuteRaises \/ (\E m \in 1..used : AnswerInvalid(m))
           \/ (\E raised \in BOOLEAN : PersistEvents(raised)) \/ ResumeMission
           \/ (\E events \in {<<>>, storedEvents} : NewRuntime(events)) \/ UNCHANGED clientVars
  <2>1. /\ UNCHANGED <<used, started, objects, kept, stored>>
        /\ (stage' = "client" /\ driven' = NoSlot) \/ UNCHANGED <<stage, driven>>
    BY <1>9 DEF ExecuteRaises, AnswerInvalid, PersistEvents, ResumeMission, ResumeWith, NewRuntime,
                Back, heap, storage, clientVars
  <2> QED
    BY <2>1 DEF Heap
<1> QED
  BY <1>1, <1>2, <1>3, <1>4, <1>5, <1>6, <1>7, <1>8, <1>9 DEF Next, Confirming, Called

LEMMA HeapAlways == Spec => []Heap
<1>1. Init => Heap
  <2>1. NoMission \in MissionObject
    BY DEF NoMission, MissionObject, MissionStatus
  <2> QED
    BY <2>1, ClientAssumption DEF Init, Heap, NoCheckpoint
<1> QED
  BY <1>1, HeapStep, PTL DEF Spec

\* The checkpoint in storage changes when it is saved and at no other time,
\* whatever happens to the missions in the client's hands.
THEOREM StoredIsFrozen == Spec => StoredCheckpointFrozen
<1>1. Heap /\ [Next]_clientVars =>
        [(stored # NoCheckpoint /\ (objects[stored.mission])' # objects[stored.mission])
           => (InClient /\ stage' = "client") \/ stage \in Saving]_clientVars
  <2> SUFFICES ASSUME Heap, Next, stored # NoCheckpoint,
                      ~(InClient /\ stage' = "client"), stage \notin Saving
               PROVE  (objects[stored.mission])' = objects[stored.mission]
    OBVIOUS
  <2>1. stored.mission = StorageSlot /\ StorageSlot \in Slots \ Handles
    BY SlotFacts DEF Heap
  <2>2. CASE Run
    <3>1. used + 1 \in Handles /\ UNCHANGED stored
      BY <2>2, SlotFacts DEF Run, RunLeaving, Heap, storage
    <3> QED
      BY <2>1, <2>2, <3>1 DEF Run, RunLeaving, Heap
  <2>3. ASSUME NEW m \in 1..used, Grant(m) \/ Deny(m)
        PROVE  (objects[stored.mission])' = objects[stored.mission]
    <3>1. m \in Handles
      BY SlotFacts DEF Heap
    <3> QED
      BY <2>1, <2>3, <3>1 DEF Grant, GrantTo, Deny, Heap, storage
  <2>4. CASE Reasoning
    <3>1. /\ driven \in Handles /\ UNCHANGED stored
          /\ \E status \in MissionStatus : Cycled(status)
      BY <2>4 DEF Reasoning, Observe, ObserveRaises, CycleRaises, Pause, Finish, Exhaust, InCycle,
                  Heap, storage, MissionStatus
    <3> QED
      BY <2>1, <3>1 DEF Cycled, Heap
  <2>5. CASE Execute \/ ExecuteRecordRaises
    <3>1. driven \in Handles /\ UNCHANGED stored /\ Concluded
      BY <2>5 DEF Execute, ExecuteRecordRaises, Heap, storage
    <3> QED
      BY <2>1, <3>1 DEF Concluded, Heap
  <2>6. CASE ExecuteRaises
    BY <2>6 DEF ExecuteRaises, heap, storage
  <2>7. CASE CheckpointIfConfigured \/ CheckpointRaises
    BY <2>7 DEF CheckpointIfConfigured, CheckpointRaises
  <2>8. CASE (\E m \in 1..used : AnswerInvalid(m) \/ SaveCheckpoint(m))
             \/ (\E raised \in BOOLEAN : PersistEvents(raised)) \/ LoadCheckpoint \/ ResumeMission
             \/ (\E events \in {<<>>, storedEvents} : NewRuntime(events))
    BY <2>8 DEF AnswerInvalid, SaveCheckpoint, PersistEvents, LoadCheckpoint, ResumeMission, ResumeWith,
                NewRuntime, InClient
  <2> QED
    BY <2>2, <2>3, <2>4, <2>5, <2>6, <2>7, <2>8 DEF Next, Confirming, Called
<1> QED
  BY <1>1, HeapAlways, PTL DEF Spec, StoredCheckpointFrozen

-----------------------------------------------------------------------------
(* The requests *)

\* Where a request can be, and that only one whose action has not been run is
\* there, as long as no old checkpoint has been resumed.
Requested ==
  /\ issued \in 0..MaxRequests
  /\ {pending, current, stored.pending, kept.pending} \subseteq Asked(issued)
  /\ executions \in [Requests -> Nat]
  /\ stage \in {"consuming", "executing"} => current # NoRequest /\ pending = NoRequest
  /\ stage = "executing" => stored.pending = NoRequest

Unrun(request) == request # NoRequest => executions[request.id] = 0

Unspent ==
  ~stale =>
    /\ OnceUnlessStale
    /\ \A r \in Requests : r > issued => executions[r] = 0
    /\ Unrun(pending) /\ Unrun(stored.pending)
    /\ stage \in {"consuming", "executing"} => Unrun(current)

Answerable == Requested /\ Unspent

LEMMA AskedFacts ==
  ASSUME NEW n \in 0..MaxRequests, NEW request \in Asked(n), request # NoRequest
  PROVE  request.id \in 1..n /\ request.id \in Requests
BY ClientAssumption DEF Asked, Requests

\* The requests move about, and no action is run.
LEMMA NothingRun ==
  ASSUME Heap, Answerable, UNCHANGED <<issued, executions, stale>>,
         {pending', current', stored.pending', kept.pending'}
           \subseteq {pending, current, stored.pending, kept.pending, NoRequest},
         ~stale => pending' \in {pending, stored.pending, NoRequest},
         stored'.pending \in {stored.pending, pending},
         stage' = "consuming" =>
           /\ pending' = NoRequest /\ current' # NoRequest
           /\ current' = pending \/ (stage = "consuming" /\ current' = current),
         stage' = "executing" =>
           /\ stage = "consuming" /\ current' = current /\ pending' = NoRequest
           /\ stored'.pending = NoRequest
  PROVE  Answerable'
<1>1. NoRequest \in Asked(issued)
  BY DEF Asked
<1>2. Requested'
  BY <1>1 DEF Answerable, Requested
<1>3. Unspent'
  BY DEF Answerable, Requested, Unspent, OnceUnlessStale, Unrun
<1> QED
  BY <1>2, <1>3 DEF Answerable

\* The confirmed action is run.
LEMMA CurrentRun ==
  ASSUME Answerable, stage = "executing", CountExecution, current' = NoRequest,
         UNCHANGED <<issued, pending, stored, kept, stale>>, stage' \in {"client", "concluding"}
  PROVE  Answerable'
<1>1. current \in Asked(issued) /\ current # NoRequest /\ issued \in 0..MaxRequests
  BY DEF Answerable, Requested
<1>2. current.id \in 1..issued /\ current.id \in Requests
  BY <1>1, AskedFacts
<1>3. /\ executions' \in [Requests -> Nat]
      /\ \A r \in Requests : executions'[r] = IF r = current.id THEN executions[r] + 1 ELSE executions[r]
  BY <1>2 DEF CountExecution, Answerable, Requested
<1>4. pending = NoRequest /\ stored.pending = NoRequest
  BY DEF Answerable, Requested
<1>5. Requested'
  BY <1>3 DEF Answerable, Requested, Asked
<1>6. ~stale => executions[current.id] = 0
  BY <1>1 DEF Answerable, Unspent, Unrun
<1>7. Unspent'
  BY <1>1, <1>2, <1>3, <1>4, <1>6 DEF Answerable, Unspent, OnceUnlessStale, Unrun, Requests
<1> QED
  BY <1>5, <1>7 DEF Answerable

\* A request is issued.
LEMMA PauseKeeps ==
  ASSUME Heap, Answerable, Pause
  PROVE  Answerable'
<1>1. /\ issued \in 0..MaxRequests /\ issued + 1 \in Requests /\ issued' = issued + 1
      /\ issued' \in 0..MaxRequests
  BY ClientAssumption DEF Pause, Answerable, Requested, Requests
<1>2. /\ pending' = [id |-> issued + 1, mission |-> objects[driven].id]
      /\ current' = NoRequest /\ stage' = "client"
      /\ UNCHANGED <<stored, kept, executions, stale>>
  BY DEF Pause, Back, storage, marks
<1>3. objects[driven].id \in {0} \cup Missions
  BY SlotFacts DEF Pause, InCycle, Heap, MissionObject
<1>4. \A request \in Asked(issued) : request \in Asked(issued')
  BY <1>1 DEF Asked
<1>5. pending' \in Asked(issued') /\ NoRequest \in Asked(issued') /\ pending'.id = issued + 1
  BY <1>1, <1>2, <1>3 DEF Asked
<1>6. Requested'
  BY <1>1, <1>2, <1>4, <1>5 DEF Answerable, Requested
<1>7. Unspent'
  BY <1>1, <1>2, <1>5 DEF Answerable, Unspent, OnceUnlessStale, Unrun, Requests
<1> QED
  BY <1>6, <1>7 DEF Answerable

LEMMA AnswerableStep == Heap /\ Answerable /\ [Next]_clientVars => Answerable'
<1> SUFFICES ASSUME Heap, Answerable, [Next]_clientVars PROVE Answerable'
  OBVIOUS
<1>1. CASE Run
  BY <1>1, NothingRun DEF Run, RunLeaving, storage
<1>2. CASE Reasoning
  <2>1. CASE Pause
    BY <2>1, PauseKeeps
  <2>2. CASE ~Pause
    <3>1. /\ UNCHANGED <<issued, executions, stale, pending, stored, kept>>
          /\ current' \in {current, NoRequest} /\ stage' \in {"looping", "client"}
      BY <1>2, <2>2 DEF Reasoning, Observe, ObserveRaises, CycleRaises, Finish, Exhaust, InCycle, Back,
                  runtime, storage, marks
    <3> QED
      BY <3>1, NothingRun
  <2> QED
    BY <2>1, <2>2
<1>3. ASSUME NEW m \in 1..used, Grant(m) PROVE Answerable'
  BY <1>3, NothingRun DEF Grant, GrantTo, Accepts, storage, marks
<1>4. ASSUME NEW m \in 1..used, Deny(m) PROVE Answerable'
  BY <1>4, NothingRun DEF Deny, storage, marks
<1>5. CASE CheckpointIfConfigured
  <2>1. /\ stage \in Saving /\ stored'.pending = pending
        /\ stage' = IF stage = "consuming" THEN "executing" ELSE "looping"
        /\ UNCHANGED <<issued, executions, stale, pending, current, kept>>
    BY <1>5 DEF CheckpointIfConfigured, Store
  <2>2. stage = "consuming" => current # NoRequest /\ pending = NoRequest
    BY DEF Answerable, Requested
  <2> QED
    BY <2>1, <2>2, NothingRun DEF Saving
<1>6. CASE CheckpointRaises
  <2>1. /\ stored'.pending \in {pending, stored.pending} /\ stage' = "client" /\ current' = NoRequest
        /\ UNCHANGED <<issued, executions, stale, pending, kept>>
    <3>1. /\ stage' = "client" /\ current' = NoRequest
          /\ UNCHANGED <<issued, executions, stale, pending, kept>>
      BY <1>6 DEF CheckpointRaises, Back
    <3>2. UNCHANGED stored \/ Store(driven)
      BY <1>6 DEF CheckpointRaises, storage
    <3> QED
      BY <3>1, <3>2 DEF Store
  <2> QED
    BY <2>1, NothingRun
<1>7. ASSUME NEW m \in 1..used, SaveCheckpoint(m) PROVE Answerable'
  <2>1. /\ stored'.pending = pending /\ kept'.pending \in {kept.pending, pending}
        /\ UNCHANGED <<issued, executions, stale, pending, current>> /\ stage' = "client"
    BY <1>7 DEF SaveCheckpoint, Store, InClient, runtime, marks
  <2> QED
    BY <2>1, NothingRun
<1>8. CASE Execute \/ ExecuteRecordRaises \/ ExecuteRaises
  BY <1>8, CurrentRun DEF Execute, ExecuteRecordRaises, ExecuteRaises, Back, runtime, storage, marks
<1>9. CASE LoadCheckpoint
  BY <1>9, NothingRun DEF LoadCheckpoint, InClient, runtime, storage, marks
<1>10. CASE ResumeMission
  <2>1. /\ pending' = kept.pending /\ stage' = "client"
        /\ UNCHANGED <<issued, executions, current, stored, kept>>
        /\ ~stale' => ~stale /\ kept.pending = stored.pending
    <3>1. /\ pending' = kept.pending /\ stage' = "client"
          /\ UNCHANGED <<issued, executions, current, stored, kept>>
      BY <1>10 DEF ResumeMission, ResumeWith, InClient, storage
    <3>2. ~stale' => ~stale /\ kept.pending = stored.pending
      BY <1>10, ZenonT(30) DEF ResumeMission, ResumeWith
    <3> QED
      BY <3>1, <3>2
  <2>2. Requested'
    BY <2>1 DEF Answerable, Requested
  <2>3. Unspent'
    BY <2>1 DEF Answerable, Unspent, OnceUnlessStale, Unrun
  <2> QED
    BY <2>2, <2>3 DEF Answerable
<1>11. ASSUME NEW events, NewRuntime(events) PROVE Answerable'
  BY <1>11, NothingRun DEF NewRuntime, InClient, storage
<1>12. CASE (\E m \in 1..used : AnswerInvalid(m)) \/ (\E raised \in BOOLEAN : PersistEvents(raised))
  <2>1. /\ UNCHANGED <<issued, executions, stale, current, stored, kept>> /\ stage' = "client"
        /\ pending' \in {pending, NoRequest}
    <3>1. CASE \E m \in 1..used : AnswerInvalid(m)
      BY <3>1 DEF AnswerInvalid, InClient, storage, marks
    <3>2. CASE \E raised \in BOOLEAN : PersistEvents(raised)
      BY <3>2 DEF PersistEvents, InClient
    <3> QED
      BY <1>12, <3>1, <3>2
  <2> QED
    BY <2>1, NothingRun
<1>13. CASE UNCHANGED clientVars
  BY <1>13 DEF clientVars, runtime, storage, marks, Answerable, Requested, Unspent, OnceUnlessStale, Unrun
<1> QED
  BY <1>1, <1>2, <1>3, <1>4, <1>5, <1>6, <1>7, <1>8, <1>9, <1>10, <1>11, <1>12, <1>13
  DEF Next, Confirming, Called

LEMMA AnswerableAlways == Spec => []Answerable
<1>1. Init => Answerable
  BY ClientAssumption DEF Init, Answerable, Requested, Unspent, OnceUnlessStale, Unrun, Asked,
     NoCheckpoint
<1> QED
  BY <1>1, HeapAlways, AnswerableStep, PTL DEF Spec

\* The action of a request is run once, whatever is called and whatever raises,
\* unless a checkpoint was resumed that storage no longer held.
THEOREM RunOnceUnlessStale == Spec => []OnceUnlessStale
<1>1. Answerable => OnceUnlessStale
  BY DEF Answerable, Unspent, OnceUnlessStale
<1> QED
  BY <1>1, AnswerableAlways, PTL

-----------------------------------------------------------------------------
(* The events *)

Seen == [mission : {0} \cup Missions, cycle : Nat]
Recorded == [type : {"MISSION_CREATED"}, mission : Missions]
            \cup [type : {"CONFIRMATION_GRANTED", "CONFIRMATION_DENIED"}]
            \cup [type : {"OBSERVATION_PRODUCED"}, observation : Seen]

Journal ==
  /\ {log, storedEvents, base} \subseteq Seq(Recorded)
  /\ persisted \in 0..Len(log)
  /\ EventsStoredOnce

\* The log grows, and what has been persisted of it does not.
LEMMA LogExtended ==
  ASSUME Journal, NEW more \in Seq(Recorded), log' = log \o more,
         UNCHANGED <<persisted, storedEvents, base, doubted>>
  PROVE  Journal'
<1>1. log \in Seq(Recorded) /\ persisted \in 0..Len(log)
  BY DEF Journal
<1>2. /\ log' \in Seq(Recorded) /\ Len(log') = Len(log) + Len(more)
      /\ Len(more) \in Nat /\ Len(log) \in Nat
  BY <1>1, ConcatProperties, LenProperties
<1>3. persisted' \in 0..Len(log')
  BY <1>1, <1>2
<1>4. SubSeq(log', 1, persisted) = SubSeq(log, 1, persisted)
  BY <1>1, SubSeqOfConcat1
<1> QED
  BY <1>2, <1>3, <1>4 DEF Journal, EventsStoredOnce

\* The log grows by one event.
LEMMA LogAppended ==
  ASSUME Journal, NEW event \in Recorded, log' = Append(log, event),
         UNCHANGED <<persisted, storedEvents, base, doubted>>
  PROVE  Journal'
<1>1. <<event>> \in Seq(Recorded) /\ log' = log \o <<event>>
  BY AppendIsConcat DEF Journal
<1> QED
  BY <1>1, LogExtended

LEMMA Regrouped ==
  \A s, t, u \in Seq(Recorded) : (s \o t) \o u = s \o (t \o u)
BY ConcatAssociative

\* Storage gets the events that it does not have, and the Runtime counts them
\* unless the call has raised.
LEMMA Persisted ==
  ASSUME Journal, NEW raised \in BOOLEAN, Persist(raised), UNCHANGED <<log, base>>
  PROVE  Journal'
<1>1. /\ log \in Seq(Recorded) /\ storedEvents \in Seq(Recorded) /\ base \in Seq(Recorded)
      /\ persisted \in 0..Len(log) /\ Len(log) \in Nat
  BY LenProperties DEF Journal
<1> DEFINE old == SubSeq(log, 1, persisted)
<1>2. /\ old \in Seq(Recorded) /\ NewEvents \in Seq(Recorded) /\ old \o NewEvents = log
  <2>1. \A i \in 1..Len(log) : log[i] \in Recorded
    BY <1>1, ElementOfSeq
  <2>2. old \in Seq(Recorded) /\ NewEvents \in Seq(Recorded)
    BY <1>1, <2>1, SubSeqProperties DEF NewEvents
  <2>3. old \o NewEvents = SubSeq(log, 1, Len(log))
    <3>1. 1 \in 1..(Len(log) + 1) /\ persisted \in (1 - 1)..Len(log) /\ Len(log) \in persisted..Len(log)
      BY <1>1
    <3> QED
      BY <1>1, <3>1, ConcatAdjacentSubSeq DEF NewEvents
  <2> QED
    BY <1>1, <2>2, <2>3, SubSeqFull
<1>3. storedEvents' = storedEvents \o NewEvents /\ storedEvents' \in Seq(Recorded)
  BY <1>1, <1>2, ConcatProperties DEF Persist
<1>4. persisted' = IF raised THEN persisted ELSE Len(log)
  BY DEF Persist
<1>5. ~doubted' => ~doubted /\ (raised => NewEvents = <<>>)
  BY ZenonT(30) DEF Persist
<1>6. ASSUME ~doubted' PROVE storedEvents' = base \o SubSeq(log, 1, persisted')
  <2>1. storedEvents = base \o old
    BY <1>5, <1>6 DEF Journal, EventsStoredOnce
  <2>2. CASE raised
    <3>1. storedEvents' = storedEvents
      BY <1>1, <1>3, <1>5, <1>6, <2>2, ConcatEmptySeq
    <3> QED
      BY <1>4, <2>1, <2>2, <3>1
  <2>3. CASE ~raised
    <3>1. storedEvents' = base \o (old \o NewEvents)
      <4> HIDE DEF old
      <4>1. storedEvents' = (base \o old) \o NewEvents
        BY <1>3, <2>1
      <4>2. (base \o old) \o NewEvents = base \o (old \o NewEvents)
        BY <1>1, <1>2, Regrouped
      <4> QED
        BY <4>1, <4>2
    <3> QED
      BY <1>1, <1>2, <1>4, <2>3, <3>1, SubSeqFull
  <2> QED
    BY <2>2, <2>3
<1>7. persisted' \in 0..Len(log)
  BY <1>1, <1>4
<1> QED
  BY <1>1, <1>3, <1>6, <1>7 DEF Journal, EventsStoredOnce

\* A Runtime begins with the events of storage, or with none.
LEMMA Begun ==
  ASSUME Journal, NEW events, NewRuntime(events)
  PROVE  Journal'
<1>1. /\ storedEvents \in Seq(Recorded) /\ storedEvents' = storedEvents
      /\ events \in {<<>>, storedEvents} /\ log' = events /\ persisted' = Len(events)
      /\ base' = IF events = <<>> THEN storedEvents ELSE <<>>
  BY DEF NewRuntime, Journal, storage
<1>2. <<>> \in Seq(Recorded) /\ events \in Seq(Recorded) /\ Len(events) \in Nat
  BY <1>1, EmptySeq, LenProperties
<1>3. SubSeq(events, 1, Len(events)) = events
  BY <1>2, SubSeqFull
<1>4. storedEvents = base' \o events
  BY <1>1, <1>2, ConcatEmptySeq
<1>5. base' \in Seq(Recorded) /\ persisted' \in 0..Len(log')
  BY <1>1, <1>2
<1>6. storedEvents' = base' \o SubSeq(log', 1, persisted')
  BY <1>1, <1>3, <1>4
<1> QED
  BY <1>1, <1>2, <1>5, <1>6 DEF Journal, EventsStoredOnce

\* The observation of a mission of the client's.
LEMMA SeenFacts ==
  ASSUME Heap, NEW m \in Handles
  PROVE  Produced([mission |-> objects[m].id, cycle |-> objects[m].iteration]) \in Recorded
<1>1. objects[m].id \in {0} \cup Missions /\ objects[m].iteration \in Nat
  BY SlotFacts DEF Heap, MissionObject
<1> QED
  BY <1>1 DEF Produced, Recorded, Seen

LEMMA JournalStep == Heap /\ Journal /\ [Next]_clientVars => Journal'
<1> SUFFICES ASSUME Heap, Journal, [Next]_clientVars PROVE Journal'
  OBVIOUS
<1>1. CASE Run
  <2>1. [type |-> "MISSION_CREATED", mission |-> started + 1] \in Recorded
    BY <1>1, ClientAssumption DEF Run, RunLeaving, Heap, Missions, Recorded
  <2> QED
    BY <1>1, <2>1, LogAppended DEF Run, RunLeaving, storage
<1>2. CASE Observe \/ Execute
  <2>1. driven \in Handles /\ RecordObservation(<<>>)
        /\ UNCHANGED <<persisted, storedEvents, base, doubted>>
    BY <1>2 DEF Observe, Execute, InCycle, Heap, storage
  <2>2. Produced(NewObservation) \in Recorded
    BY <2>1, SeenFacts DEF NewObservation
  <2>3. log' = log \o <<Produced(NewObservation)>>
    BY <2>1 DEF RecordObservation
  <2>4. <<Produced(NewObservation)>> \in Seq(Recorded)
    BY <2>2
  <2> QED
    BY <2>1, <2>3, <2>4, LogExtended
<1>3. ASSUME NEW m \in 1..used, Grant(m) \/ AnswerInvalid(m) PROVE Journal'
  <2>1. \E event \in Recorded : log' = Append(log, event)
    <3>1. \A type \in {"CONFIRMATION_GRANTED", "CONFIRMATION_DENIED"} : [type |-> type] \in Recorded
      BY DEF Recorded
    <3> QED
      BY <1>3, <3>1 DEF Grant, GrantTo, AnswerInvalid
  <2>2. UNCHANGED <<persisted, storedEvents, base, doubted>>
    BY <1>3 DEF Grant, GrantTo, AnswerInvalid, storage, marks
  <2> QED
    BY <2>1, <2>2, LogAppended
<1>4. ASSUME NEW m \in 1..used, Deny(m) PROVE Journal'
  <2> DEFINE denied == [type |-> "CONFIRMATION_DENIED"]
             produced == Produced([mission |-> objects[m].id, cycle |-> objects[m].iteration])
  <2>1. denied \in Recorded /\ produced \in Recorded
    BY SlotFacts, SeenFacts DEF Heap, Recorded
  <2>2. log' = log \o <<denied, produced>> /\ UNCHANGED <<persisted, storedEvents, base, doubted>>
    BY <1>4 DEF Deny, storage, marks
  <2> HIDE DEF denied, produced
  <2>3. <<denied, produced>> \in Seq(Recorded)
    BY <2>1
  <2> QED
    BY <2>2, <2>3, LogExtended
<1>5. CASE CheckpointIfConfigured
  BY <1>5, Persisted DEF CheckpointIfConfigured
<1>6. CASE CheckpointRaises
  <2>1. UNCHANGED <<log, base>>
    BY <1>6 DEF CheckpointRaises
  <2>2. Persist(TRUE) \/ UNCHANGED <<storedEvents, persisted, doubted>>
    BY <1>6 DEF CheckpointRaises, storage
  <2>3. CASE Persist(TRUE)
    BY <2>1, <2>3, Persisted
  <2>4. CASE UNCHANGED <<storedEvents, persisted, doubted>>
    BY <2>1, <2>4 DEF Journal, EventsStoredOnce
  <2> QED
    BY <2>2, <2>3, <2>4
<1>7. ASSUME NEW raised \in BOOLEAN, PersistEvents(raised) PROVE Journal'
  BY <1>7, Persisted DEF PersistEvents
<1>8. ASSUME NEW events, NewRuntime(events) PROVE Journal'
  BY <1>8, Begun
<1>9. CASE ObserveRaises \/ CycleRaises \/ Pause \/ Finish \/ Exhaust \/ ExecuteRecordRaises
           \/ ExecuteRaises \/ LoadCheckpoint \/ ResumeMission
           \/ (\E m \in 1..used : SaveCheckpoint(m)) \/ UNCHANGED clientVars
  <2>1. UNCHANGED <<log, persisted, storedEvents, base, doubted>>
    BY <1>9 DEF ObserveRaises, CycleRaises, Pause, Finish, Exhaust, ExecuteRecordRaises, ExecuteRaises,
                LoadCheckpoint, ResumeMission, ResumeWith, SaveCheckpoint, RecordRaises, runtime,
                storage, marks, clientVars
  <2> QED
    BY <2>1 DEF Journal, EventsStoredOnce
<1> QED
  BY <1>1, <1>2, <1>3, <1>4, <1>5, <1>6, <1>7, <1>8, <1>9 DEF Next, Reasoning, Confirming, Called

LEMMA JournalAlways == Spec => []Journal
<1>1. Init => Journal
  <2>1. <<>> \in Seq(Recorded) /\ Len(<<>>) = 0 /\ SubSeq(<<>>, 1, 0) = <<>> /\ <<>> \o <<>> = <<>>
    BY EmptySeq, SubSeqFull, ConcatEmptySeq
  <2> QED
    BY <2>1 DEF Init, Journal, EventsStoredOnce
<1> QED
  BY <1>1, HeapAlways, JournalStep, PTL DEF Spec

\* Storage holds each event once and in order, unless a storage has raised after
\* it had saved them.
THEOREM StoredOnce == Spec => []EventsStoredOnce
<1>1. Journal => EventsStoredOnce
  BY DEF Journal
<1> QED
  BY <1>1, JournalAlways, PTL

\* Type correctness, the status of every mission included.
THEOREM ClientTypes == Spec => []ClientTypeOK
<1>1. Heap /\ Answerable /\ Journal => ClientTypeOK
  <2> SUFFICES ASSUME Heap, Answerable, Journal PROVE ClientTypeOK
    OBVIOUS
  <2>1. Asked(issued) \subseteq Request
    BY ClientAssumption DEF Asked, Request, Requests, NoRequest, Answerable, Requested
  <2> QED
    BY <2>1 DEF ClientTypeOK, Heap, Answerable, Requested, Journal
<1> QED
  BY <1>1, HeapAlways, AnswerableAlways, JournalAlways, PTL
-----------------------------------------------------------------------------
(* The observations: the list of the Runtime and its log *)

\* What a log is extended with.
LEMMA Extended ==
  ASSUME Journal, NEW more \in Seq(Recorded)
  PROVE  log \o more \in Seq(Recorded)
BY ConcatProperties DEF Journal

\* An answer to a request is no observation and starts no mission.
LEMMA AnswerIsMute ==
  ASSUME NEW type \in {"CONFIRMATION_GRANTED", "CONFIRMATION_DENIED"}
  PROVE  <<[type |-> type]>> \in Seq(Recorded) /\ Mute(<<[type |-> type]>>)
<1> DEFINE answer == [type |-> type]
           answers == <<answer>>
<1>1. answer \in Recorded /\ ~IsMissionStart(answer) /\ ~IsObservation(answer)
  BY DEF Recorded, IsMissionStart, IsObservation
<1> HIDE DEF answer
<1>2. answers \in Seq(Recorded) /\ Len(answers) = 1 /\ answers[1] = answer
  BY <1>1
<1> HIDE DEF answers
<1>3. Mute(answers)
  BY <1>1, <1>2 DEF Mute
<1> QED
  BY <1>2, <1>3 DEF answers, answer

\* An observation that is logged behind events which are none of the kind.
LEMMA ProducedFacts ==
  ASSUME NEW observation \in Seen
  PROVE  LET event == Produced(observation)
         IN  /\ event \in Recorded /\ IsObservation(event) /\ ~IsMissionStart(event)
             /\ ToObservation(event) = observation
BY DEF Seen, Produced, Recorded, IsObservation, IsMissionStart, ToObservation

LEMMA SeenObservation ==
  ASSUME Heap, NEW m \in Handles
  PROVE  [mission |-> objects[m].id, cycle |-> objects[m].iteration] \in Seen
<1>1. objects[m].id \in {0} \cup Missions /\ objects[m].iteration \in Nat
  BY SlotFacts DEF Heap, MissionObject
<1> QED
  BY <1>1 DEF Seen

\* An observation goes to the list and to the log.
LEMMA BothGrow ==
  ASSUME Journal, ListMatchesLog, NEW observation \in Seen,
         NEW before \in Seq(Recorded), Mute(before),
         observations' = Append(observations, observation),
         log' = log \o Append(before, Produced(observation)), UNCHANGED apart
  PROVE  ListMatchesLog'
<1>1. PICK event \in Recorded : /\ event = Produced(observation) /\ ToObservation(event) = observation
                               /\ IsObservation(event) /\ ~IsMissionStart(event)
  BY ProducedFacts
<1>2. BuildFromEventLog(log \o Append(before, event)) = Append(BuildFromEventLog(log), observation)
  BY <1>1, BuildRecorded DEF Journal
<1> QED
  BY <1>1, <1>2 DEF ListMatchesLog

LEMMA ListStep == Heap /\ Journal /\ ListMatchesLog /\ [Next]_clientVars => ListMatchesLog'
<1> SUFFICES ASSUME Heap, Journal, ListMatchesLog, [Next]_clientVars PROVE ListMatchesLog'
  OBVIOUS
<1>0. log \in Seq(Recorded) /\ <<>> \in Seq(Recorded) /\ Len(<<>>) = 0 /\ Mute(<<>>)
  BY EmptySeq DEF Journal, Mute
<1>1. CASE Run
  <2> DEFINE start == [type |-> "MISSION_CREATED", mission |-> started + 1]
             starts == <<start>>
  <2>1. start \in Recorded /\ IsMissionStart(start) /\ ~IsObservation(start)
    BY <1>1, ClientAssumption
       DEF Run, RunLeaving, Heap, Missions, Recorded, IsMissionStart, IsObservation
  <2>2. observations' = <<>> /\ log' = Append(log, start)
    BY <1>1 DEF Run, RunLeaving
  <2> HIDE DEF start
  <2>3. starts \in Seq(Recorded) /\ Len(starts) = 1 /\ starts[1] = start
    BY <2>1
  <2>4. log' = log \o starts
    BY <1>0, <2>1, <2>2, AppendIsConcat
  <2> HIDE DEF starts
  <2>5. BuildFromEventLog(log \o starts) = <<>>
    <3>1. \A i \in 1..Len(starts) : ~IsObservation(starts[i])
      BY <2>1, <2>3
    <3>2. 1 \in 1..Len(starts) /\ IsMissionStart(starts[1])
      BY <2>1, <2>3
    <3> QED
      BY <1>0, <2>3, <3>1, <3>2, BuildStarted
  <2> QED
    BY <2>2, <2>4, <2>5 DEF ListMatchesLog
<1>2. CASE Observe \/ Execute
  <2>1. driven \in Handles /\ RecordObservation(<<>>)
    BY <1>2 DEF Observe, Execute, InCycle, Heap
  <2>2. NewObservation \in Seen
    BY <2>1, SeenObservation DEF NewObservation
  <2> QED
    BY <1>0, <2>1, <2>2, BothGrow DEF RecordObservation
<1>3. CASE ObserveRaises \/ ExecuteRecordRaises
  BY <1>3 DEF ObserveRaises, ExecuteRecordRaises, RecordRaises, ListMatchesLog
<1>4. ASSUME NEW m \in 1..used, Grant(m) \/ AnswerInvalid(m) PROVE ListMatchesLog'
  <2>1. PICK type \in {"CONFIRMATION_GRANTED", "CONFIRMATION_DENIED"} :
          log' = Append(log, [type |-> type])
    BY <1>4 DEF Grant, GrantTo, AnswerInvalid
  <2>2. PICK answers \in Seq(Recorded) : answers = <<[type |-> type]>> /\ Mute(answers)
    BY AnswerIsMute
  <2>3. log' = log \o answers
    BY <1>0, <2>1, <2>2, AppendIsConcat
  <2>4. BuildFromEventLog(log \o answers) = BuildFromEventLog(log)
    BY <1>0, <2>2, BuildKept
  <2>5. UNCHANGED <<observations, apart>>
    BY <1>4 DEF Grant, GrantTo, AnswerInvalid, marks
  <2> QED
    BY <2>3, <2>4, <2>5 DEF ListMatchesLog
<1>5. ASSUME NEW m \in 1..used, Deny(m) PROVE ListMatchesLog'
  <2> DEFINE denied == [type |-> "CONFIRMATION_DENIED"]
             observation == [mission |-> objects[m].id, cycle |-> objects[m].iteration]
  <2>1. observation \in Seen
    BY SlotFacts, SeenObservation DEF Heap
  <2>2. /\ observations' = Append(observations, observation) /\ UNCHANGED apart
        /\ log' = log \o <<denied, Produced(observation)>>
    BY <1>5 DEF Deny, marks
  <2>3. PICK before \in Seq(Recorded) : before = <<denied>> /\ Mute(before)
    BY AnswerIsMute
  <2>4. <<denied, Produced(observation)>> = Append(before, Produced(observation))
    BY <2>3
  <2> QED
    BY <2>1, <2>2, <2>3, <2>4, BothGrow
<1>6. CASE ResumeMission
  BY <1>6 DEF ResumeMission, ResumeWith, ListMatchesLog
<1>7. ASSUME NEW events, NewRuntime(events) PROVE ListMatchesLog'
  BY <1>7 DEF NewRuntime, ListMatchesLog
<1>8. CASE CycleRaises \/ Pause \/ Finish \/ Exhaust \/ ExecuteRaises \/ LoadCheckpoint
           \/ CheckpointIfConfigured \/ CheckpointRaises
           \/ (\E m \in 1..used : SaveCheckpoint(m))
           \/ (\E raised \in BOOLEAN : PersistEvents(raised)) \/ UNCHANGED clientVars
  <2>1. UNCHANGED <<log, observations, apart>>
    BY <1>8 DEF CycleRaises, Pause, Finish, Exhaust, ExecuteRaises, LoadCheckpoint,
                CheckpointIfConfigured, CheckpointRaises, SaveCheckpoint, PersistEvents, runtime, marks,
                clientVars
  <2> QED
    BY <2>1 DEF ListMatchesLog
<1> QED
  BY <1>1, <1>2, <1>3, <1>4, <1>5, <1>6, <1>7, <1>8 DEF Next, Reasoning, Confirming, Called

\* Unless a recording has raised half-way or a new Runtime has not resumed yet,
\* Runtime.observations is what the context is built from.
THEOREM ListIsBuilt == Spec => []ListMatchesLog
<1>1. Init => ListMatchesLog
  BY BuildEmpty DEF Init, ListMatchesLog
<1> QED
  BY <1>1, HeapAlways, JournalAlways, ListStep, PTL DEF Spec

-----------------------------------------------------------------------------
(* Whose observations a mission finds in the log *)

\* The observations that the builder takes from these events are of mission n.
Of(n, events) ==
  \A i \in CurrentObservations(events) : events[i].observation.mission = n

NoStart(events) == \A i \in 1..Len(events) : ~IsMissionStart(events[i])

\* No mission has been started but those that are counted.
Counted(events) == \A i \in MissionStarts(events) : events[i].mission <= started

\* A set of positions has a last one.
LEMMA LastPosition ==
  ASSUME NEW N \in Nat, NEW P \in SUBSET (1..N), P # {}
  PROVE  \E last \in P : \A i \in P : i <= last
<1> DEFINE bounds == {m \in Nat : \A i \in P : i <= m}
<1>1. N \in bounds
  OBVIOUS
<1>2. PICK m \in bounds : \A k \in bounds : m <= k
  <2> HIDE DEF bounds
  <2>1. bounds \subseteq Nat /\ bounds # {}
    BY <1>1 DEF bounds
  <2> QED
    BY <2>1, LeastNat
<1>3. m \in P
  <2> SUFFICES ASSUME m \notin P PROVE FALSE
    OBVIOUS
  <2>1. \A i \in P : i \in Nat /\ 1 <= i /\ i <= m /\ i # m
    BY <1>2
  <2>2. m \in Nat /\ m - 1 \in Nat
    <3>1. PICK i \in P : TRUE
      OBVIOUS
    <3>2. m \in Nat /\ i \in Nat /\ 1 <= i /\ i <= m /\ i # m
      BY <1>2, <2>1, <3>1
    <3> QED
      BY <3>2
  <2>3. m - 1 \in bounds
    BY <2>1, <2>2
  <2> QED
    BY <1>2, <2>2, <2>3
<1> QED
  BY <1>2, <1>3

\* The mission that LastStarted names is the one of the last start there is.
LEMMA LastStartedFacts ==
  ASSUME NEW events \in Seq(Recorded)
  PROVE  /\ MissionStarts(events) = {} => LastStarted(events) = 0
         /\ MissionStarts(events) # {} =>
              \E last \in MissionStarts(events) :
                /\ \A i \in MissionStarts(events) : i <= last
                /\ LastStarted(events) = events[last].mission
<1> DEFINE P == MissionStarts(events)
<1>1. Len(events) \in Nat /\ P \in SUBSET (1..Len(events))
  BY LenProperties DEF MissionStarts
<1>2. P # {} => \E last \in P : \A i \in P : i <= last
  BY <1>1, LastPosition
<1> QED
  BY <1>2 DEF LastStarted

\* A log that only counted missions start in.
LEMMA CountedLast ==
  ASSUME NEW events \in Seq(Recorded), Counted(events), started \in Nat
  PROVE  LastStarted(events) <= started
<1>1. CASE MissionStarts(events) = {}
  BY <1>1, LastStartedFacts
<1>2. CASE MissionStarts(events) # {}
  BY <1>2, LastStartedFacts DEF Counted
<1> QED
  BY <1>1, <1>2

LEMMA LastStartedKept ==
  ASSUME NEW events \in Seq(Recorded), NEW more \in Seq(Recorded), NoStart(more)
  PROVE  LastStarted(events \o more) = LastStarted(events)
<1> DEFINE all == events \o more
<1>1. MissionStarts(all) = MissionStarts(events)
  BY StartsKept DEF NoStart
<1>2. all \in Seq(Recorded)
  BY ConcatProperties
<1>3. \A i \in MissionStarts(events) : i \in Nat /\ all[i] = events[i]
  BY JoinedFacts DEF MissionStarts
<1> HIDE DEF all
<1>4. ASSUME MissionStarts(events) = {} PROVE LastStarted(all) = LastStarted(events)
  BY <1>1, <1>2, <1>4, LastStartedFacts
<1>5. ASSUME MissionStarts(events) # {} PROVE LastStarted(all) = LastStarted(events)
  <2>1. PICK i \in MissionStarts(events) : /\ \A k \in MissionStarts(events) : k <= i
                                          /\ LastStarted(events) = events[i].mission
    BY <1>5, LastStartedFacts
  <2>2. PICK j \in MissionStarts(events) : /\ \A k \in MissionStarts(events) : k <= j
                                          /\ LastStarted(all) = all[j].mission
    BY <1>1, <1>2, <1>5, LastStartedFacts
  <2>3. i = j
    BY <1>3, <2>1, <2>2
  <2> QED
    BY <1>3, <2>1, <2>2, <2>3
<1> QED
  BY <1>4, <1>5 DEF all

LEMMA CountedJoined ==
  ASSUME NEW events \in Seq(Recorded), NEW more \in Seq(Recorded), Counted(events), Counted(more)
  PROVE  Counted(events \o more)
<1> DEFINE all == events \o more
<1>1. SUFFICES ASSUME NEW i \in MissionStarts(all) PROVE all[i].mission <= started
  BY DEF Counted
<1>2. i \in 1..Len(all) /\ IsMissionStart(all[i])
  BY <1>1 DEF MissionStarts
<1>3. CASE i \in 1..Len(events)
  BY <1>2, <1>3, JoinedFacts DEF Counted, MissionStarts
<1>4. CASE i \notin 1..Len(events)
  <2>1. i - Len(events) \in 1..Len(more) /\ all[i] = more[i - Len(events)]
    BY <1>2, <1>4, JoinedFacts
  <2> QED
    BY <1>2, <2>1 DEF Counted, MissionStarts
<1> QED
  BY <1>3, <1>4

\* Where a current observation of two joined logs comes from.
LEMMA CurrentJoined ==
  ASSUME NEW events \in Seq(Recorded), NEW more \in Seq(Recorded),
         NEW i \in CurrentObservations(events \o more)
  PROVE  \/ /\ i \in CurrentObservations(events) /\ (events \o more)[i] = events[i]
            /\ NoStart(more)
         \/ /\ i - Len(events) \in CurrentObservations(more)
            /\ (events \o more)[i] = more[i - Len(events)]
<1> DEFINE all == events \o more
<1>1. /\ i \in 1..Len(all) /\ IsObservation(all[i])
      /\ \A start \in MissionStarts(all) : start <= i
  BY DEF CurrentObservations, CurrentMissionEvents
<1>2. /\ Len(events) \in Nat /\ Len(more) \in Nat /\ Len(all) = Len(events) + Len(more)
      /\ \A j \in 1..Len(events) : all[j] = events[j]
      /\ \A j \in 1..Len(more) : all[Len(events) + j] = more[j]
      /\ i \notin 1..Len(events) => i - Len(events) \in 1..Len(more) /\ all[i] = more[i - Len(events)]
  BY <1>1, JoinedFacts
<1> HIDE DEF all
<1>3. \A j \in MissionStarts(events) : j \in MissionStarts(all)
  BY <1>2 DEF MissionStarts
<1>4. \A j \in MissionStarts(more) : Len(events) + j \in MissionStarts(all)
  BY <1>2 DEF MissionStarts
<1>5. CASE i \in 1..Len(events)
  <2>1. i \in CurrentObservations(events)
    BY <1>1, <1>2, <1>3, <1>5 DEF CurrentObservations, CurrentMissionEvents
  <2>2. ASSUME NEW j \in 1..Len(more), IsMissionStart(more[j]) PROVE FALSE
    <3>1. Len(events) + j <= i
      BY <1>1, <1>4, <2>2 DEF MissionStarts
    <3> QED
      BY <1>2, <1>5, <3>1
  <2> QED
    BY <1>2, <1>5, <2>1, <2>2 DEF NoStart, all
<1>6. CASE i \notin 1..Len(events)
  <2> DEFINE k == i - Len(events)
  <2>1. k \in 1..Len(more) /\ all[i] = more[k]
    BY <1>2, <1>6
  <2>2. \A j \in MissionStarts(more) : j <= k
    <3> TAKE j \in MissionStarts(more)
    <3>1. j \in Nat /\ Len(events) + j <= i
      BY <1>1, <1>4 DEF MissionStarts
    <3> QED
      BY <1>1, <1>2, <3>1
  <2>3. k \in CurrentObservations(more)
    BY <1>1, <2>1, <2>2 DEF CurrentObservations, CurrentMissionEvents
  <2> QED
    BY <2>1, <2>3 DEF all
<1> QED
  BY <1>5, <1>6

LEMMA OfJoined ==
  ASSUME NEW n, NEW events \in Seq(Recorded), NEW more \in Seq(Recorded),
         NoStart(more) => Of(n, events), Of(n, more)
  PROVE  Of(n, events \o more)
<1> SUFFICES ASSUME NEW i \in CurrentObservations(events \o more)
             PROVE  (events \o more)[i].observation.mission = n
  BY DEF Of
<1>1. CASE i \in CurrentObservations(events) /\ (events \o more)[i] = events[i] /\ NoStart(more)
  BY <1>1 DEF Of
<1>2. CASE /\ i - Len(events) \in CurrentObservations(more)
           /\ (events \o more)[i] = more[i - Len(events)]
  BY <1>2 DEF Of
<1> QED
  BY <1>1, <1>2, CurrentJoined

LEMMA NothingIsOf == \A n : Of(n, <<>>) /\ Counted(<<>>) /\ LastStarted(<<>>) = 0
<1>1. <<>> \in Seq(Recorded) /\ Len(<<>>) = 0
  BY EmptySeq
<1>2. MissionStarts(<<>>) = {}
  BY <1>1 DEF MissionStarts
<1>3. CurrentObservations(<<>>) = {}
  BY <1>1 DEF CurrentObservations, CurrentMissionEvents
<1> QED
  BY <1>1, <1>2, <1>3, LastStartedFacts DEF Of, Counted

-----------------------------------------------------------------------------
(* Which mission is driven, and which one the requests are of *)

\* The objects in use and the checkpoint in storage are of missions created.
Numbered ==
  /\ \A m \in 1..used : objects[m].id <= started
  /\ kept # NoCheckpoint => kept.mission \in 1..used
  /\ stored # NoCheckpoint => objects[StorageSlot].id <= started
  /\ stage # "client" => driven \in 1..used

\* The request, if there is one, is of the mission started last.
Asks(request) == request # NoRequest => request.mission = started

\* The checkpoint of the mission started last holds no request but its own.
Latest(checkpoint) ==
  (checkpoint # NoCheckpoint /\ objects[checkpoint.mission].id = started) => Asks(checkpoint.pending)

Owners ==
  ~mixed =>
    /\ Asks(pending) /\ Latest(kept) /\ Latest(stored)
    /\ stage # "client" => objects[driven].id = started

Owned == Numbered /\ Owners

LEMMA IdFacts ==
  ASSUME Heap
  PROVE  /\ started \in Nat /\ used \in Nat
         /\ \A m \in 1..used : m \in Handles /\ m \in Slots /\ m # StorageSlot
         /\ StorageSlot \in Slots /\ objects[StorageSlot].id \in Nat
         /\ \A m \in 1..used : objects[m].id \in Nat
<1>1. /\ started \in Nat /\ used \in Nat /\ StorageSlot \in Slots
      /\ \A m \in 1..used : m \in Handles /\ m \in Slots /\ m # StorageSlot
  BY SlotFacts, ClientAssumption DEF Heap
<1>2. \A m \in Slots : objects[m].id \in Nat
  BY ClientAssumption DEF Heap, MissionObject, Missions
<1> QED
  BY <1>1, <1>2

\* Every object stays the mission it is, and no checkpoint is saved or loaded.
LEMMA Carried ==
  ASSUME Heap, Owned, UNCHANGED <<used, started, kept, stored>>,
         \A m \in Slots : objects'[m].id = objects[m].id,
         mixed => mixed', ~mixed' => Asks(pending'),
         stage' # "client" => driven' \in 1..used /\ (~mixed' => objects[driven'].id = started)
  PROVE  Owned'
<1>1. /\ \A m \in 1..used : m \in Slots /\ m # StorageSlot
      /\ StorageSlot \in Slots /\ (stored = NoCheckpoint \/ stored.mission = StorageSlot)
  BY IdFacts DEF Heap
<1>2. Numbered'
  BY <1>1 DEF Owned, Numbered
<1>3. ASSUME ~mixed' PROVE Latest(kept)' /\ Latest(stored)'
  BY <1>1, <1>3 DEF Owned, Numbered, Owners, Latest, Asks
<1>4. stage' # "client" /\ ~mixed' => objects'[driven'].id = started'
  BY <1>1
<1> QED
  BY <1>2, <1>3, <1>4 DEF Owned, Owners, Asks

\* A checkpoint is saved.
LEMMA Saved ==
  ASSUME Heap, Owned, NEW m \in 1..used, Store(m), UNCHANGED <<used, started, pending, mixed>>,
         kept' \in {kept, [mission |-> m, pending |-> pending]},
         stage' # "client" => stage # "client" /\ driven' = driven
  PROVE  Owned'
<1>1. /\ m \in Handles /\ \A k \in 1..used : k \in Handles
      /\ StorageSlot \in Slots
  BY IdFacts
<1>2. /\ stored' = [mission |-> StorageSlot, pending |-> pending]
      /\ objects'[StorageSlot] = objects[m] /\ \A k \in 1..used : objects'[k] = objects[k]
  BY <1>1, StoreFacts DEF Store, Heap
<1>3. Numbered'
  BY <1>2 DEF Owned, Numbered
<1>4. ASSUME ~mixed' PROVE Asks(pending)' /\ Latest(kept)' /\ Latest(stored)'
  BY <1>2, <1>4 DEF Owned, Numbered, Owners, Latest, Asks
<1>5. stage' # "client" /\ ~mixed' => objects'[driven'].id = started'
  BY <1>2 DEF Owned, Numbered, Owners
<1> QED
  BY <1>3, <1>4, <1>5 DEF Owned, Owners

\* A mission is created.
LEMMA CreatedOwned ==
  ASSUME Heap, Owned, Run
  PROVE  Owned'
<1> DEFINE new == [id |-> started + 1, status |-> "CREATED", iteration |-> 0]
<1>1. /\ used + 1 \in Handles /\ used + 1 \in Slots /\ used + 1 # StorageSlot
      /\ started + 1 \in Missions /\ started \in Nat /\ used \in Nat
  BY SlotFacts, IdFacts, ClientAssumption DEF Run, RunLeaving, Heap, Missions
<1>2. /\ Advanced(new, "mission_created").id = started + 1
  <2>1. new \in MissionObject /\ new.status = "CREATED" /\ new.id = started + 1
    BY <1>1 DEF MissionObject, MissionStatus
  <2> HIDE DEF new
  <2> QED
    BY <2>1, AdvancedFacts DEF SimpleKinds
<1>3. /\ objects' = [objects EXCEPT ![used + 1] = Advanced(new, "mission_created")]
      /\ used' = used + 1 /\ started' = started + 1 /\ driven' = used + 1
      /\ pending' = NoRequest /\ UNCHANGED <<kept, stored, mixed>>
  BY DEF Run, RunLeaving, storage
<1> HIDE DEF new
<1>4. /\ objects'[used + 1].id = started + 1 /\ objects'[StorageSlot] = objects[StorageSlot]
      /\ \A m \in 1..used : objects'[m] = objects[m] /\ objects[m].id \in Nat
      /\ objects[StorageSlot].id \in Nat
      /\ stored = NoCheckpoint \/ stored.mission = StorageSlot
  BY <1>1, <1>2, <1>3, IdFacts DEF Heap
<1>5. Numbered'
  <2>1. \A m \in 1..used' : m \in 1..used \/ m = used + 1
    BY <1>1, <1>3
  <2>2. used + 1 \in 1..used' /\ \A m \in 1..used : m \in 1..used'
    BY <1>1, <1>3
  <2> QED
    BY <1>1, <1>3, <1>4, <2>1, <2>2 DEF Owned, Numbered
<1>6. Latest(kept)' /\ Latest(stored)'
  BY <1>1, <1>3, <1>4 DEF Owned, Numbered, Latest
<1> QED
  BY <1>3, <1>4, <1>5, <1>6 DEF Owned, Owners, Asks

\* A checkpoint is loaded.
LEMMA LoadedOwned ==
  ASSUME Heap, Owned, LoadCheckpoint
  PROVE  Owned'
<1>1. /\ used + 1 \in Handles /\ used + 1 \in Slots /\ used + 1 # StorageSlot
      /\ used \in Nat /\ stored.mission = StorageSlot /\ stored # NoCheckpoint
  BY SlotFacts, IdFacts DEF LoadCheckpoint, Heap
<1>2. /\ objects' = [objects EXCEPT ![used + 1] = objects[StorageSlot]]
      /\ kept' = [mission |-> used + 1, pending |-> stored.pending] /\ used' = used + 1
      /\ stage' = "client" /\ UNCHANGED <<stored, started, pending, mixed>>
  BY <1>1 DEF LoadCheckpoint, InClient, runtime, storage, marks
<1>3. /\ objects'[used + 1] = objects[StorageSlot] /\ objects'[StorageSlot] = objects[StorageSlot]
      /\ \A m \in 1..used : objects'[m] = objects[m]
  BY <1>1, <1>2, IdFacts DEF Heap
<1>4. Numbered'
  <2>1. \A m \in 1..used' : m \in 1..used \/ m = used + 1
    BY <1>1, <1>2
  <2>2. used + 1 \in 1..used'
    BY <1>1, <1>2
  <2> QED
    BY <1>1, <1>2, <1>3, <2>1, <2>2 DEF Owned, Numbered
<1>5. ASSUME ~mixed' PROVE Asks(pending)' /\ Latest(kept)' /\ Latest(stored)'
  BY <1>1, <1>2, <1>3, <1>5 DEF Owned, Owners, Latest, Asks
<1> QED
  BY <1>2, <1>4, <1>5 DEF Owned, Owners

LEMMA OwnedStep == Heap /\ Owned /\ [Next]_clientVars => Owned'
<1> SUFFICES ASSUME Heap, Owned, [Next]_clientVars PROVE Owned'
  OBVIOUS
<1>0. /\ stage # "client" => driven \in 1..used /\ driven \in Slots /\ (~mixed => objects[driven].id = started)
      /\ ~mixed => Asks(pending)
      /\ Asks(NoRequest)
      /\ \A m \in 1..used : m \in Slots
      /\ objects \in [Slots -> MissionObject]
  BY IdFacts DEF Owned, Numbered, Owners, Asks, Heap
<1>1. CASE Run
  BY <1>1, CreatedOwned
<1>2. CASE Reasoning
  <2>1. /\ stage = "looping" /\ \E status \in MissionStatus : Cycled(status)
        /\ UNCHANGED <<used, started, kept, stored, mixed>>
        /\ stage' # "client" => driven' = driven
        /\ pending' = pending \/ pending'.mission = objects[driven].id
    BY <1>2 DEF Reasoning, Observe, ObserveRaises, CycleRaises, Pause, Finish, Exhaust, InCycle, Back,
       runtime, storage, marks, MissionStatus
  <2>2. \A m \in Slots : objects'[m].id = objects[m].id
    BY <1>0, <2>1 DEF Cycled, MissionObject
  <2> QED
    BY <1>0, <2>1, <2>2, Carried DEF Asks
<1>3. ASSUME NEW m \in 1..used, Grant(m) \/ Deny(m) PROVE Owned'
  <2>1. /\ \E kind \in {"confirmation_granted", "confirmation_denied"} :
             objects' = [objects EXCEPT ![m] = Advanced(objects[m], kind)]
        /\ pending # NoRequest /\ pending.mission = objects[m].id
        /\ pending' = NoRequest /\ driven' = m
        /\ UNCHANGED <<used, started, kept, stored, mixed>>
    BY <1>3 DEF Grant, GrantTo, Deny, Accepts, storage, marks
  <2>2. \A k \in Slots : objects'[k].id = objects[k].id
    BY <1>0, <2>1 DEF Advanced, MissionObject
  <2> QED
    BY <1>0, <2>1, <2>2, Carried DEF Asks
<1>4. CASE CheckpointIfConfigured \/ CheckpointRaises
  <2>1. /\ stage \in Saving /\ UNCHANGED <<used, started, pending, mixed, kept>>
        /\ stage' = "client" \/ driven' = driven
    BY <1>4 DEF CheckpointIfConfigured, CheckpointRaises, Back
  <2>2. stage # "client"
    BY <2>1 DEF Saving
  <2>3. CASE Store(driven)
    BY <1>0, <2>1, <2>2, <2>3, Saved
  <2>4. CASE ~Store(driven)
    <3>1. UNCHANGED <<objects, stored>> /\ stage' = "client"
      BY <1>4, <2>4 DEF CheckpointIfConfigured, CheckpointRaises, Back, storage
    <3> QED
      BY <1>0, <2>1, <3>1, Carried
  <2> QED
    BY <2>3, <2>4
<1>5. ASSUME NEW m \in 1..used, SaveCheckpoint(m) PROVE Owned'
  BY <1>5, Saved DEF SaveCheckpoint, InClient, runtime, marks
<1>6. CASE Execute \/ ExecuteRecordRaises
  <2>1. /\ stage = "executing" /\ Concluded /\ UNCHANGED <<used, started, kept, stored, mixed, pending>>
        /\ stage' = "client" \/ driven' = driven
    BY <1>6 DEF Execute, ExecuteRecordRaises, Back, storage
  <2>2. \A m \in Slots : objects'[m].id = objects[m].id
    BY <1>0, <2>1 DEF Concluded, Advanced, MissionObject
  <2> QED
    BY <1>0, <2>1, <2>2, Carried
<1>7. CASE LoadCheckpoint
  BY <1>7, LoadedOwned
<1>8. CASE ResumeMission
  <2>1. /\ stage' = "client" /\ pending' = kept.pending /\ kept # NoCheckpoint
        /\ UNCHANGED <<used, objects, started, kept, stored>>
    BY <1>8 DEF ResumeMission, ResumeWith, InClient, heap, storage
  <2>2. ~mixed' => ~mixed /\ objects[kept.mission].id = started
    BY <1>8, ZenonT(30) DEF ResumeMission, ResumeWith
  <2>3. ~mixed' => Asks(pending')
    BY <2>1, <2>2 DEF Owned, Owners, Latest, Asks
  <2>4. mixed => mixed'
    BY <2>2
  <2> QED
    BY <2>1, <2>3, <2>4, Carried
<1>9. CASE ExecuteRaises \/ (\E m \in 1..used : AnswerInvalid(m))
           \/ (\E raised \in BOOLEAN : PersistEvents(raised))
           \/ (\E events \in {<<>>, storedEvents} : NewRuntime(events)) \/ UNCHANGED clientVars
  <2>1. /\ UNCHANGED <<used, objects, started, kept, stored, mixed>>
        /\ pending' \in {pending, NoRequest}
        /\ stage' = "client" \/ (stage' = stage /\ driven' = driven)
    BY <1>9 DEF ExecuteRaises, AnswerInvalid, PersistEvents, NewRuntime, InClient, Back, heap, runtime,
       storage, marks, clientVars
  <2> QED
    BY <1>0, <2>1, Carried
<1> QED
  BY <1>1, <1>2, <1>3, <1>4, <1>5, <1>6, <1>7, <1>8, <1>9 DEF Next, Confirming, Called

-----------------------------------------------------------------------------
(* What the log and the storage tell of the mission started last *)

Told ==
  /\ Counted(log) /\ Counted(storedEvents)
  /\ ~mixed =>
       /\ (pending # NoRequest \/ stage # "client" \/ LastStarted(log) = started) => Of(started, log)
       /\ LastStarted(storedEvents) = started => Of(started, storedEvents)
       /\ \A i \in CurrentObservations(log) : i > persisted => log[i].observation.mission = started

\* Events that start no mission, and observations only of the last one started,
\* are logged while that mission is driven or answered.
LEMMA ToldLogged ==
  ASSUME Heap, Journal, Told, NEW more \in Seq(Recorded), NoStart(more),
         ~mixed => Of(started, more), pending # NoRequest \/ stage # "client",
         log' = log \o more, UNCHANGED <<started, storedEvents, persisted, mixed>>
  PROVE  Told'
<1>1. log \in Seq(Recorded) /\ Len(log) \in Nat /\ persisted \in 0..Len(log)
  BY LenProperties DEF Journal
<1>2. MissionStarts(log') = MissionStarts(log) /\ \A i \in 1..Len(log) : log'[i] = log[i]
  BY <1>1, StartsKept, JoinedFacts DEF NoStart
<1>3. Counted(log)' /\ Counted(storedEvents)'
  BY <1>2 DEF Told, Counted, MissionStarts
<1>4. ASSUME ~mixed PROVE Of(started, log')
  BY <1>1, <1>4, OfJoined DEF Told
<1>5. ASSUME ~mixed, NEW i \in CurrentObservations(log'), i > persisted
      PROVE  log'[i].observation.mission = started
  BY <1>4, <1>5 DEF Of
<1>6. ~mixed /\ LastStarted(storedEvents) = started => Of(started, storedEvents)
  BY DEF Told
<1> QED
  BY <1>3, <1>4, <1>5, <1>6 DEF Told, Of

\* A mission is created: none of the observations before are its context.
LEMMA ToldStarted ==
  ASSUME Heap, Journal, Told, Run
  PROVE  Told'
<1> DEFINE start == [type |-> "MISSION_CREATED", mission |-> started + 1]
           starts == <<start>>
<1>1. /\ start \in Recorded /\ IsMissionStart(start) /\ ~IsObservation(start)
      /\ start.mission = started + 1 /\ started \in Nat
  BY ClientAssumption
     DEF Run, RunLeaving, Heap, Missions, Recorded, IsMissionStart, IsObservation
<1>2. /\ log' = Append(log, start) /\ started' = started + 1 /\ stage' = "looping"
      /\ UNCHANGED <<storedEvents, persisted, mixed>>
  BY DEF Run, RunLeaving, storage
<1> HIDE DEF start
<1>3. starts \in Seq(Recorded) /\ Len(starts) = 1 /\ starts[1] = start
  BY <1>1
<1>4. /\ log \in Seq(Recorded) /\ storedEvents \in Seq(Recorded) /\ log' = log \o starts
  BY <1>1, <1>2, AppendIsConcat DEF Journal
<1> HIDE DEF starts
<1>5. Of(started', log')
  <2>1. CurrentObservations(starts) = {}
    BY <1>1, <1>3 DEF CurrentObservations, CurrentMissionEvents
  <2>2. Of(started', starts)
    BY <2>1 DEF Of
  <2>3. ~NoStart(starts)
    BY <1>1, <1>3 DEF NoStart
  <2> QED
    BY <1>3, <1>4, <2>2, <2>3, OfJoined
<1>6. Counted(log)' /\ Counted(storedEvents)'
  <2>1. \A i \in MissionStarts(log') : log'[i].mission <= started + 1
    <3> TAKE i \in MissionStarts(log')
    <3>1. i \in 1..Len(log \o starts) /\ IsMissionStart((log \o starts)[i])
      BY <1>4 DEF MissionStarts
    <3>2. CASE i \in 1..Len(log)
      <4>1. (log \o starts)[i] = log[i]
        BY <1>3, <1>4, <3>2, JoinedFacts
      <4>2. i \in MissionStarts(log) /\ log[i] \in Recorded
        BY <1>4, <3>1, <3>2, <4>1 DEF MissionStarts
      <4>3. log[i].mission \in Nat /\ log[i].mission <= started
        BY <4>2, ClientAssumption DEF Told, Counted, MissionStarts, IsMissionStart, Recorded, Missions
      <4> QED
        BY <1>1, <1>4, <4>1, <4>3
    <3>3. CASE i \notin 1..Len(log)
      <4>1. (log \o starts)[i] = start
        <5>1. /\ i - Len(log) \in 1..Len(starts)
              /\ (log \o starts)[i] = starts[i - Len(log)]
          BY <1>3, <1>4, <3>1, <3>3, JoinedFacts
        <5> QED
          BY <1>3, <5>1
      <4> QED
        BY <1>1, <1>4, <4>1
    <3> QED
      BY <3>2, <3>3
  <2>2. \A i \in MissionStarts(storedEvents) : storedEvents[i].mission <= started + 1
    <3> TAKE i \in MissionStarts(storedEvents)
    <3>1. storedEvents[i] \in Recorded /\ IsMissionStart(storedEvents[i])
      BY <1>4 DEF MissionStarts
    <3>2. storedEvents[i].mission \in Nat /\ storedEvents[i].mission <= started
      BY <3>1, ClientAssumption DEF Told, Counted, IsMissionStart, Recorded, Missions
    <3> QED
      BY <1>1, <3>2
  <2> QED
    BY <1>2, <2>1, <2>2 DEF Counted
<1>7. LastStarted(storedEvents') # started'
  <2>1. LastStarted(storedEvents) <= started
    BY <1>1, <1>4, CountedLast DEF Told
  <2> QED
    BY <1>1, <1>2, <2>1
<1> QED
  BY <1>5, <1>6, <1>7 DEF Told, Of

\* What a storage is given of the log: the current observations of the new
\* events are those of the log that it does not have.
LEMMA NewEventsFacts ==
  ASSUME Journal
  PROVE  /\ NewEvents \in Seq(Recorded)
         /\ \A i \in MissionStarts(NewEvents) :
              persisted + i \in MissionStarts(log) /\ NewEvents[i] = log[persisted + i]
         /\ \A i \in CurrentObservations(NewEvents) :
              /\ persisted + i \in CurrentObservations(log) /\ persisted + i > persisted
              /\ NewEvents[i] = log[persisted + i]
<1> DEFINE new == NewEvents
<1>1. log \in Seq(Recorded) /\ Len(log) \in Nat /\ persisted \in 0..Len(log)
  BY LenProperties DEF Journal
<1>2. /\ new \in Seq(Recorded) /\ Len(new) = Len(log) - persisted
      /\ \A i \in 1..Len(new) : new[i] = log[persisted + i]
  <2>1. \A i \in persisted + 1 .. Len(log) : log[i] \in Recorded
    BY <1>1
  <2> QED
    BY <1>1, <2>1, SubSeqProperties DEF NewEvents
<1> HIDE DEF new
<1>3. \A i \in 1..Len(new) : persisted + i \in 1..Len(log) /\ persisted + i > persisted
  BY <1>1, <1>2
<1>4. \A i \in MissionStarts(new) : persisted + i \in MissionStarts(log) /\ new[i] = log[persisted + i]
  BY <1>2, <1>3 DEF MissionStarts
<1>5. ASSUME NEW i \in CurrentObservations(new) PROVE persisted + i \in CurrentObservations(log)
  <2>1. /\ i \in 1..Len(new) /\ IsObservation(new[i]) /\ new[i] = log[persisted + i]
        /\ \A start \in MissionStarts(new) : start <= i
    BY <1>2, <1>5 DEF CurrentObservations, CurrentMissionEvents
  <2>2. ASSUME NEW start \in MissionStarts(log) PROVE start <= persisted + i
    <3>1. start \in 1..Len(log) /\ IsMissionStart(log[start])
      BY <2>2 DEF MissionStarts
    <3>2. CASE start <= persisted
      BY <1>1, <2>1, <3>1, <3>2
    <3>3. CASE start > persisted
      <4>1. start - persisted \in 1..Len(new) /\ persisted + (start - persisted) = start
        BY <1>1, <1>2, <3>1, <3>3
      <4>2. new[start - persisted] = log[start]
        BY <1>2, <4>1
      <4>3. start - persisted \in MissionStarts(new)
        BY <3>1, <4>1, <4>2 DEF MissionStarts
      <4> QED
        BY <1>1, <2>1, <3>1, <4>3
    <3> QED
      BY <1>1, <3>1, <3>2, <3>3
  <2>3. persisted + i \in 1..Len(log) /\ IsObservation(log[persisted + i])
    BY <1>3, <2>1
  <2> QED
    BY <2>2, <2>3 DEF CurrentObservations, CurrentMissionEvents
<1>6. \A i \in CurrentObservations(new) : i \in 1..Len(new)
  BY DEF CurrentObservations, CurrentMissionEvents
<1> QED
  BY <1>2, <1>3, <1>4, <1>5, <1>6 DEF new

\* A storage is given the events that it does not have.
LEMMA ToldPersisted ==
  ASSUME Heap, Journal, Told, NEW raised \in BOOLEAN, Persist(raised),
         UNCHANGED <<log, started, mixed, pending>>, stage' # "client" => stage # "client"
  PROVE  Told'
<1>1. /\ log \in Seq(Recorded) /\ storedEvents \in Seq(Recorded)
      /\ Len(log) \in Nat /\ persisted \in 0..Len(log) /\ persisted' \in {persisted, Len(log)}
      /\ storedEvents' = storedEvents \o NewEvents
  BY LenProperties DEF Journal, Persist
<1>2. PICK new \in Seq(Recorded) : new = NewEvents
  BY NewEventsFacts
<1>3. Counted(log)' /\ Counted(storedEvents')
  <2>1. Counted(new)
    BY <1>2, NewEventsFacts DEF Told, Counted
  <2>2. Counted(storedEvents \o new)
    BY <1>1, <2>1, CountedJoined DEF Told
  <2>3. Counted(log)'
    BY DEF Told, Counted
  <2> QED
    BY <1>1, <1>2, <2>2, <2>3
<1>4. ASSUME ~mixed, LastStarted(storedEvents') = started PROVE Of(started, storedEvents')
  <2>1. Of(started, new)
    BY <1>2, <1>4, NewEventsFacts DEF Told, Of
  <2>2. NoStart(new) => Of(started, storedEvents)
    <3> SUFFICES ASSUME NoStart(new) PROVE Of(started, storedEvents)
      OBVIOUS
    <3>1. LastStarted(storedEvents \o new) = LastStarted(storedEvents)
      BY <1>1, LastStartedKept
    <3> QED
      BY <1>1, <1>2, <1>4, <3>1 DEF Told
  <2>3. Of(started, storedEvents \o new)
    BY <1>1, <2>1, <2>2, OfJoined
  <2> QED
    BY <1>1, <1>2, <2>3
<1>5. ASSUME ~mixed, NEW i \in CurrentObservations(log), i > persisted'
      PROVE  log[i].observation.mission = started
  <2>1. i \in 1..Len(log)
    BY <1>5 DEF CurrentObservations, CurrentMissionEvents
  <2> QED
    BY <1>1, <1>5, <2>1 DEF Told
<1>6. ASSUME ~mixed, pending # NoRequest \/ stage' # "client" \/ LastStarted(log) = started
      PROVE  Of(started, log)
  BY <1>6 DEF Told
<1> QED
  BY <1>3, <1>4, <1>5, <1>6 DEF Told, Of, Counted

\* A Runtime begins with the events of storage, or with none.
LEMMA ToldBegun ==
  ASSUME Heap, Journal, Told, NEW events, NewRuntime(events)
  PROVE  Told'
<1>1. /\ events \in {<<>>, storedEvents} /\ log' = events /\ persisted' = Len(events)
      /\ pending' = NoRequest /\ stage' = "client"
      /\ UNCHANGED <<storedEvents, started, mixed>>
  BY DEF NewRuntime, InClient, storage
<1>2. Counted(events)
  BY <1>1, NothingIsOf DEF Told
<1>3. Counted(log)' /\ Counted(storedEvents)'
  BY <1>1, <1>2 DEF Told, Counted
<1>4. ~mixed /\ LastStarted(events) = started => Of(started, events)
  BY <1>1, NothingIsOf DEF Told
<1>5. events \in Seq(Recorded) /\ Len(events) \in Nat
  BY <1>1, EmptySeq, LenProperties DEF Journal
<1>6. \A i \in CurrentObservations(events) : ~(i > Len(events))
  BY <1>5 DEF CurrentObservations, CurrentMissionEvents
<1> QED
  BY <1>1, <1>3, <1>4, <1>6 DEF Told, Of

\* Neither the log nor the storage changes, and nobody starts to drive.
LEMMA ToldKept ==
  ASSUME Told, UNCHANGED <<log, storedEvents, persisted, started, mixed>>,
         pending' # NoRequest \/ stage' # "client" => pending # NoRequest \/ stage # "client"
  PROVE  Told'
BY DEF Told, Of, Counted

LEMMA ToldStep == Heap /\ Journal /\ Owned /\ Told /\ [Next]_clientVars => Told'
<1> SUFFICES ASSUME Heap, Journal, Owned, Told, [Next]_clientVars PROVE Told'
  OBVIOUS
<1>1. CASE Run
  BY <1>1, ToldStarted
<1>2. CASE Observe \/ Execute
  <2>1. /\ stage # "client" /\ driven \in Handles /\ log' = log \o Append(<<>>, Produced(NewObservation))
        /\ UNCHANGED <<started, storedEvents, persisted, mixed>>
    BY <1>2 DEF Observe, Execute, InCycle, Heap, RecordObservation, storage
  <2>2. NewObservation \in Seen /\ (~mixed => NewObservation.mission = started)
    BY <2>1, SeenObservation DEF NewObservation, Owned, Owners
  <2>3. PICK event \in Recorded : /\ event = Produced(NewObservation) /\ ~IsMissionStart(event)
                                 /\ event.observation = NewObservation
    BY <2>2, ProducedFacts DEF ToObservation
  <2>4. PICK more \in Seq(Recorded) : more = Append(<<>>, event) /\ Len(more) = 1 /\ more[1] = event
    <3>1. <<event>> \in Seq(Recorded) /\ <<event>> = Append(<<>>, event)
      BY <2>3
    <3> QED
      BY <3>1
  <2>5. NoStart(more) /\ (~mixed => Of(started, more))
    BY <2>2, <2>3, <2>4 DEF NoStart, Of, CurrentObservations, CurrentMissionEvents
  <2> QED
    BY <2>1, <2>3, <2>4, <2>5, ToldLogged
<1>3. ASSUME NEW m \in 1..used, Grant(m) \/ AnswerInvalid(m) PROVE Told'
  <2>1. PICK type \in {"CONFIRMATION_GRANTED", "CONFIRMATION_DENIED"} :
          log' = Append(log, [type |-> type])
    BY <1>3 DEF Grant, GrantTo, AnswerInvalid
  <2>2. PICK more \in Seq(Recorded) : more = <<[type |-> type]>> /\ Mute(more)
    BY AnswerIsMute
  <2>3. log' = log \o more
    BY <2>1, <2>2, AppendIsConcat DEF Journal
  <2>4. NoStart(more) /\ Of(started, more)
    BY <2>2 DEF Mute, NoStart, Of, CurrentObservations, CurrentMissionEvents
  <2>5. pending # NoRequest /\ UNCHANGED <<started, storedEvents, persisted, mixed>>
    BY <1>3 DEF Grant, GrantTo, AnswerInvalid, Accepts, storage, marks
  <2> QED
    BY <2>3, <2>4, <2>5, ToldLogged
<1>4. ASSUME NEW m \in 1..used, Deny(m) PROVE Told'
  <2> DEFINE denied == [type |-> "CONFIRMATION_DENIED"]
             observation == [mission |-> objects[m].id, cycle |-> objects[m].iteration]
  <2>1. /\ observation \in Seen /\ observation.mission = objects[m].id
        /\ denied \in Recorded /\ ~IsObservation(denied) /\ ~IsMissionStart(denied)
    BY SlotFacts, SeenObservation DEF Heap, Recorded, IsObservation, IsMissionStart
  <2>2. /\ log' = log \o <<denied, Produced(observation)>>
        /\ pending # NoRequest /\ pending.mission = objects[m].id
        /\ UNCHANGED <<started, storedEvents, persisted, mixed>>
    BY <1>4 DEF Deny, Accepts, storage, marks
  <2> HIDE DEF denied, observation
  <2>3. ~mixed => observation.mission = started
    BY <2>1, <2>2 DEF Owned, Owners, Asks
  <2>4. PICK event \in Recorded : /\ event = Produced(observation) /\ ~IsMissionStart(event)
                                 /\ event.observation = observation
    BY <2>1, ProducedFacts DEF ToObservation
  <2>5. PICK more \in Seq(Recorded) : /\ more = <<denied, event>> /\ Len(more) = 2
                                     /\ more[1] = denied /\ more[2] = event
    <3>1. <<denied, event>> \in Seq(Recorded)
      BY <2>1, <2>4
    <3> QED
      BY <3>1
  <2>6. NoStart(more) /\ (~mixed => Of(started, more))
    BY <2>1, <2>3, <2>4, <2>5 DEF NoStart, Of, CurrentObservations, CurrentMissionEvents
  <2> QED
    BY <2>2, <2>4, <2>5, <2>6, ToldLogged
<1>5. CASE CheckpointIfConfigured
  BY <1>5, ToldPersisted DEF CheckpointIfConfigured, Saving
<1>6. CASE CheckpointRaises
  <2>1. /\ UNCHANGED <<log, started, mixed, pending>> /\ stage' = "client"
        /\ Persist(TRUE) \/ UNCHANGED <<storedEvents, persisted>>
    BY <1>6 DEF CheckpointRaises, Back, storage
  <2>2. CASE Persist(TRUE)
    BY <2>1, <2>2, ToldPersisted
  <2>3. CASE UNCHANGED <<storedEvents, persisted>>
    BY <2>1, <2>3, ToldKept
  <2> QED
    BY <2>1, <2>2, <2>3
<1>7. ASSUME NEW raised \in BOOLEAN, PersistEvents(raised) PROVE Told'
  BY <1>7, ToldPersisted DEF PersistEvents
<1>8. ASSUME NEW events, NewRuntime(events) PROVE Told'
  BY <1>8, ToldBegun
<1>9. CASE ResumeMission
  <2>1. UNCHANGED <<log, storedEvents, persisted, started>> /\ stage' = "client"
    BY <1>9 DEF ResumeMission, ResumeWith, InClient, storage
  <2>2. ~mixed' => ~mixed /\ (log = <<>> \/ LastStarted(log) = started)
    BY <1>9, ZenonT(30) DEF ResumeMission, ResumeWith
  <2>3. ~mixed' => Of(started, log)
    BY <2>2, NothingIsOf DEF Told
  <2> QED
    BY <2>1, <2>2, <2>3 DEF Told, Of, Counted
<1>10. CASE \/ ObserveRaises \/ CycleRaises \/ Pause \/ Finish \/ Exhaust
            \/ ExecuteRecordRaises \/ ExecuteRaises
  <2>1. stage # "client" /\ UNCHANGED <<log, storedEvents, persisted, started, mixed>>
    BY <1>10 DEF ObserveRaises, CycleRaises, Pause, Finish, Exhaust, ExecuteRecordRaises, ExecuteRaises,
       InCycle, RecordRaises, runtime, storage, marks
  <2> QED
    BY <2>1, ToldKept
<1>11. CASE LoadCheckpoint \/ (\E m \in 1..used : SaveCheckpoint(m)) \/ UNCHANGED clientVars
  <2>1. UNCHANGED <<log, storedEvents, persisted, started, mixed, pending, stage>>
    BY <1>11 DEF LoadCheckpoint, SaveCheckpoint, runtime, storage, marks, clientVars
  <2> QED
    BY <2>1, ToldKept
<1> QED
  BY <1>1, <1>2, <1>3, <1>4, <1>5, <1>6, <1>7, <1>8, <1>9, <1>10, <1>11
     DEF Next, Reasoning, Confirming, Called

\* A mission reasons about its own observations only, unless a mission was
\* resumed after a later one had started, or on a log that does not say so.
THEOREM OwnObservations == Spec => []OwnObservationsOnly
<1>1. Init => Owned /\ Told
  <2>1. ASSUME Init PROVE Owned
    BY <2>1 DEF Init, Owned, Numbered, Owners, Asks, Latest
  <2>2. ASSUME Init PROVE Told
    <3>1. CurrentObservations(<<>>) = {}
      <4>1. Len(<<>>) = 0
        OBVIOUS
      <4> QED
        BY <4>1 DEF CurrentObservations, CurrentMissionEvents
    <3> QED
      BY <2>2, <3>1, NothingIsOf DEF Init, Told
  <2> QED
    BY <2>1, <2>2
<1>2. Journal /\ Owned /\ Told => OwnObservationsOnly
  <2> SUFFICES ASSUME Journal, Owned, Told, stage = "looping", ~mixed,
                      NEW i \in 1..Len(BuildFromEventLog(log))
               PROVE  BuildFromEventLog(log)[i].mission = objects[driven].id
    BY DEF OwnObservationsOnly
  <2>1. objects[driven].id = started /\ Of(started, log)
    BY DEF Owned, Owners, Told
  <2>2. PICK k \in CurrentObservations(log) : BuildFromEventLog(log)[i] = log[k].observation
    <3>1. log \in Seq(Recorded)
      BY DEF Journal
    <3>2. i \in 1..Cardinality(CurrentObservations(log))
      BY <3>1, ContextFacts
    <3>3. Nth(CurrentObservations(log), i) \in CurrentObservations(log)
      BY <3>1, <3>2, ContextFacts
    <3> QED
      BY <3>2, <3>3 DEF BuildFromEventLog, ToObservation
  <2> QED
    BY <2>1, <2>2 DEF Of
<1> QED
  BY <1>1, <1>2, HeapAlways, JournalAlways, OwnedStep, ToldStep, PTL DEF Spec

=============================================================================
