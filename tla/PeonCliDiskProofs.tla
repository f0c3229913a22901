-------------------------- MODULE PeonCliDiskProofs --------------------------
(***************************************************************************)
(* Proofs about what PeonCli leaves on disk: the checkpoint only moves     *)
(* forward, and the end a mission was decided on is in it.  They rest on   *)
(* BudgetInv of PeonCliProofs, which knows that no checkpoint is of a      *)
(* mission that is yet to be started.  The last part shows that a process  *)
(* spends what is left of it with every step.                              *)
(***************************************************************************)
EXTENDS PeonCliProofs

-----------------------------------------------------------------------------
(* The inductive invariant *)

\* Only a mission that ran into its limit is past it, and once the final
\* checkpoint is written it holds the mission as it is.  The checkpoint on disk
\* is never past its limit, so that every resume can load it.
EndKept ==
  /\ stage \in Busy /\ mission.status # "MAX_ITERATIONS" => WithinLimit(mission)
  /\ stage \in {"final_events", "done"} => checkpoint.mission = mission
  /\ WithinLimit(checkpoint.mission)

\* A running process is never behind the checkpoint on disk.
Ahead ==
  stage \in Busy =>
    /\ checkpoint.mission.id <= mission.id
    /\ checkpoint.mission.id = mission.id
         => /\ checkpoint.mission.iteration <= mission.iteration
            /\ Terminal(checkpoint.mission) => mission = checkpoint.mission

DiskInv == BudgetInv /\ EndKept /\ Ahead

-----------------------------------------------------------------------------

\* A step in memory that goes on with a mission that is not over.
LEMMA DriveKeeps ==
  ASSUME DiskInv, stage \in Busy, ~Terminal(mission),
         mission'.id = mission.id, mission'.limit = mission.limit,
         mission'.iteration = mission.iteration, UNCHANGED checkpoint,
         stage' \notin {"final_events", "done"}
  PROVE  EndKept' /\ Ahead'
BY DEF DiskInv, BudgetInv, TypeInv, TypeOK, ControlTypes, EndKept, Ahead, Terminal,
       TerminalStates, WithinLimit, Checkpoint, Mission

\* A process that has ended promises nothing of its memory.
LEMMA EndedKeeps ==
  ASSUME DiskInv, stage' \in Idle, UNCHANGED checkpoint
  PROVE  EndKept' /\ Ahead'
BY DEF DiskInv, EndKept, WithinLimit, Ahead, Idle, Busy,
       CheckpointStages, EventStages, RuntimeStages, CliStages

\* Every step keeps the disk behind the process.  One case per action of Next.
LEMMA DiskStep == DiskInv /\ [Next]_vars => EndKept' /\ Ahead'
<1> SUFFICES ASSUME DiskInv, [Next]_vars PROVE EndKept' /\ Ahead'
  OBVIOUS
<1> USE DEF DiskInv, BudgetInv, TypeInv, TypeOK, ControlTypes, Control, StatusByStage, disk
<1> USE DEF Busy, CheckpointStages, EventStages, RuntimeStages, CliStages
<1>1. ASSUME NEW limit \in Limits, RunCommand(limit) PROVE EndKept' /\ Ahead'
  <2> DEFINE new == [id |-> started + 1, status |-> "CREATED", iteration |-> 0, limit |-> limit]
  <2>1. /\ new \in Mission /\ new.id = started + 1 /\ new.iteration = 0
        /\ new.limit \in Nat \ {0} /\ new.status = "CREATED"
    BY <1>1, MissionsAssumption, LimitsAssumption DEF RunCommand, Run, Mission, Missions, MissionStatus
  <2>2. /\ mission' = Advance(new, Simple("mission_created"))
        /\ stage' = LoopHead(mission')
        /\ UNCHANGED checkpoint
    BY <1>1 DEF RunCommand, Run
  <2> HIDE DEF new
  <2>3. mission'.id = started + 1 /\ mission'.iteration = 0 /\ mission'.limit \in Nat
    BY <2>1, <2>2, AdvanceKeeps
  <2>4. stage' \notin {"final_events", "done"}
    BY <2>2 DEF LoopHead
  <2>5. checkpoint.mission.id < started + 1 /\ checkpoint.mission.id \in Nat /\ started \in Nat
    BY MissionsAssumption DEF Accounting, Checkpoint, Mission, Missions
  <2>6. EndKept'
    <3>1. mission'.iteration <= mission'.limit
      BY <2>3
    <3> QED
      BY <2>2, <2>4, <3>1 DEF EndKept, WithinLimit
  <2>7. Ahead'
    <3>1. checkpoint'.mission.id <= mission'.id /\ checkpoint'.mission.id # mission'.id
      BY <2>2, <2>3, <2>5
    <3> QED
      BY <3>1 DEF Ahead
  <2> QED
    BY <2>6, <2>7
<1>2. CASE BeginCycle
  <2>1. /\ mission'.id = mission.id /\ mission'.limit = mission.limit
        /\ mission'.iteration = mission.iteration + 1
        /\ mission.iteration \in Nat /\ mission.limit \in Nat
        /\ mission.iteration < mission.limit
        /\ mission.status = "REASONING" /\ UNCHANGED checkpoint /\ stage' = "deciding"
        /\ checkpoint.mission.iteration \in Nat
        /\ stage = "reasoning"
    BY <1>2, LimitsAssumption DEF BeginCycle, Mission, Checkpoint
  <2>2. WithinLimit(mission)'
    BY <2>1 DEF WithinLimit
  <2>3. ~Terminal(mission)
    BY <2>1 DEF Terminal, TerminalStates
  <2> QED
    BY <2>1, <2>2, <2>3 DEF EndKept, Ahead
<1>3. CASE ExhaustIterations
  <2> DEFINE over == Advance(mission, Simple("max_iterations_reached"))
  <2>1. over \in Mission /\ over.status = "MAX_ITERATIONS"
    BY <1>3, Advanced, TransitionFacts DEF ExhaustIterations, MissionStatus
  <2>2. over.id = mission.id /\ over.iteration = mission.iteration
    BY AdvanceKeeps
  <2>3. mission' = [over EXCEPT !.iteration = @ + 1] /\ UNCHANGED checkpoint
        /\ stage' = LoopHead(mission') /\ stage = "reasoning"
    BY <1>3 DEF ExhaustIterations
  <2> HIDE DEF over
  <2>4. /\ mission'.id = mission.id /\ mission'.iteration = mission.iteration + 1
        /\ mission'.status = "MAX_ITERATIONS"
    BY <2>1, <2>2, <2>3 DEF Mission
  <2>5. ~Terminal(mission) /\ mission.iteration \in Nat /\ checkpoint.mission.iteration \in Nat
    BY <2>3 DEF Terminal, TerminalStates, Mission, Checkpoint
  <2>6. stage' = "returned"
    BY <2>3, <2>4 DEF LoopHead
  <2> QED
    BY <2>3, <2>4, <2>5, <2>6 DEF EndKept, Ahead
<1>4. CASE FailOnReasoningError \/ FinishSuccess \/ FinishFailure \/ AllowAction \/ RequestConfirmation
  <2>1. /\ stage = "deciding" /\ UNCHANGED checkpoint
        /\ \E event : mission' = Advance(mission, event)
        /\ stage' \in {"reasoning", "returned", "executing"}
    BY <1>4 DEF FailOnReasoningError, FinishSuccess, FinishFailure, FinishMission, AllowAction,
       RequestConfirmation, LoopHead
  <2> QED
    BY <2>1, AdvanceKeeps, DriveKeeps DEF Terminal, TerminalStates
<1>5. ASSUME NEW verdict, NEW reason, RejectAction(verdict, reason) PROVE EndKept' /\ Ahead'
  <2>1. /\ stage = "deciding" /\ UNCHANGED checkpoint
        /\ mission' = Advance(mission, PolicyEvaluated(verdict))
        /\ stage' \in {"reasoning", "returned"}
    BY <1>5 DEF RejectAction, LoopHead
  <2> QED
    BY <2>1, AdvanceKeeps, DriveKeeps DEF Terminal, TerminalStates
<1>6. ASSUME NEW type, NEW kind, NEW text, ExecuteAction(type, kind, text) PROVE EndKept' /\ Ahead'
  <2>1. /\ stage = "executing" /\ UNCHANGED checkpoint
        /\ mission' = Advance(mission, Simple("tool_execution_finished"))
        /\ stage' \in {"reasoning", "returned", "outcome_checkpoint"}
    BY <1>6 DEF ExecuteAction, LoopHead
  <2> QED
    BY <2>1, AdvanceKeeps, DriveKeeps DEF Terminal, TerminalStates
<1>7. CASE Grant \/ Deny
  <2>1. /\ stage = "asking" /\ UNCHANGED checkpoint
        /\ \E event : mission' = Advance(mission, event)
        /\ stage' \in {"consume_checkpoint", "outcome_checkpoint"}
    BY <1>7 DEF Grant, Deny, ConfirmationGranted, GrantTo, ConfirmationDenied, DenyTo
  <2> QED
    BY <2>1, AdvanceKeeps, DriveKeeps DEF Terminal, TerminalStates
<1>8. CASE WriteCheckpoint
  <2>1. /\ checkpoint'.mission = mission /\ UNCHANGED mission /\ stage \in CheckpointStages
        /\ WithinLimit(mission)
    BY <1>8 DEF WriteCheckpoint, SaveCheckpoint, StoreCheckpoint, memory
  <2>2. mission.id \in Nat /\ mission.iteration \in Nat
    BY MissionsAssumption DEF Mission, Missions
  <2> QED
    BY <2>1, <2>2 DEF EndKept, Ahead, WithinLimit
<1>9. CASE WriteEvents
  <2>1. /\ UNCHANGED <<mission, checkpoint>>
        /\ stage \in EventStages /\ stage' = AfterEvents(stage)
    BY <1>9 DEF WriteEvents, PersistEvents
  <2>2. stage' = "done" => stage = "final_events"
    BY <2>1 DEF AfterEvents, LoopHead
  <2>3. stage' # "final_events"
    BY <2>1 DEF AfterEvents, LoopHead
  <2> QED
    BY <2>1, <2>2, <2>3 DEF EndKept, Ahead, WithinLimit
<1>10. CASE \/ DecideRaises \/ ExecutionRaises \/ WriteCheckpointRefused \/ WriteEventsRefused
            \/ Exit \/ Crash \/ CrashAfterEffect
            \/ RunRefused \/ ResumeRefused \/ ResumeWithoutCheckpoint
            \/ ResumeCorruptedEventLog \/ ResumeNotPending
  <2>1. stage' \in Idle /\ UNCHANGED checkpoint
    BY <1>10 DEF DecideRaises, ExecutionRaises, WriteCheckpointRefused, SaveCheckpointRefused,
       WriteEventsRefused, PersistEventsRefused, Raise, Exit, Crash, CrashAfterEffect, RunRefused,
       ResumeRefused, ResumeWithoutCheckpoint, ResumeCorruptedEventLog,
       ResumeNotPending, Leave, Idle, disk
  <2> QED
    BY <2>1, EndedKeeps
<1>11. CASE ResumeAndAsk
  <2>1. mission' = checkpoint.mission /\ UNCHANGED checkpoint /\ stage' = "asking"
    BY <1>11 DEF ResumeAndAsk, ResumeMission, ResumedMission
  <2>2. checkpoint.mission.id \in Nat /\ checkpoint.mission.iteration \in Nat
    BY MissionsAssumption DEF Checkpoint, Mission, Missions
  <2> QED
    BY <2>1, <2>2 DEF EndKept, Ahead, WithinLimit
<1>12. CASE UNCHANGED vars
  BY <1>12 DEF vars, memory, EndKept, Ahead, WithinLimit
<1> QED
  BY <1>1, <1>2, <1>3, <1>4, <1>5, <1>6, <1>7, <1>8, <1>9, <1>10, <1>11, <1>12
     DEF Next, Proceed, Command, Decide, Execute, ExecutionSucceeds, ExecutionFails

\* The process stays ahead of the disk for ever.
LEMMA DiskInvariance == Spec => []DiskInv
<1>1. Init => DiskInv
  BY TypeInit, BudgetInit, NothingYet
     DEF Init, DiskInv, BudgetInv, EndKept, Ahead, WithinLimit, NoMission, Busy,
         CheckpointStages, EventStages,
         RuntimeStages, CliStages
<1>2. DiskInv /\ [Next]_vars => DiskInv'
  BY ControlStep, JournalStep, BudgetStep, DiskStep DEF DiskInv, BudgetInv, TypeInv, TypeOK
<1> QED
  BY <1>1, <1>2, PTL DEF Spec

-----------------------------------------------------------------------------
(* The checkpoint moves forward *)

\* Only save_checkpoint changes the checkpoint.
LEMMA CheckpointWritten ==
  ASSUME [Next]_vars, checkpoint' # checkpoint
  PROVE  WriteCheckpoint
BY DEF Next, Proceed, Command, Decide, Execute, vars, disk,
       RunCommand, Run, BeginCycle, ExhaustIterations, FailOnReasoningError, DecideRaises,
       FinishSuccess, FinishFailure, FinishMission, RejectAction, AllowAction, RequestConfirmation,
       ExecutionSucceeds, ExecutionFails, ExecuteAction, ExecutionRaises,
       WriteCheckpointRefused, SaveCheckpointRefused, WriteEvents, PersistEvents,
       WriteEventsRefused, PersistEventsRefused, Grant, ConfirmationGranted, GrantTo,
       Deny, ConfirmationDenied, DenyTo, Exit, Crash, CrashAfterEffect,
       RunRefused, ResumeRefused, ResumeWithoutCheckpoint,
       ResumeCorruptedEventLog, ResumeNotPending, Leave, ResumeAndAsk, ResumeMission

\* The checkpoint on disk never goes back to an earlier mission or iteration,
\* and a finished mission stays as it ended until another replaces it.
THEOREM CheckpointForward == Spec => CheckpointMonotone
<1>1. DiskInv /\ [Next]_vars => [Forward(checkpoint.mission, checkpoint'.mission)]_checkpoint
  <2> SUFFICES ASSUME DiskInv, [Next]_vars, checkpoint' # checkpoint
               PROVE  Forward(checkpoint.mission, checkpoint'.mission)
    OBVIOUS
  <2>1. checkpoint'.mission = mission /\ stage \in Busy
    BY CheckpointWritten DEF WriteCheckpoint, SaveCheckpoint, StoreCheckpoint, Busy
  <2> QED
    BY <2>1 DEF DiskInv, Ahead, Forward
<1> QED
  BY DiskInvariance, <1>1, PTL DEF Spec, CheckpointMonotone

-----------------------------------------------------------------------------
(* The end of a mission is saved *)

\* A process that has driven its mission to SUCCEEDED or FAILED and is not
\* killed leaves that end in a checkpoint that can be loaded.
THEOREM EndSaved == Spec => DecidedEndSaved
<1> DEFINE Saved == (mission.status \in {"SUCCEEDED", "FAILED"} /\ stage' \in Idle \ {"killed"})
                      => /\ checkpoint'.mission = mission
                         /\ WithinLimit(checkpoint'.mission)
<1>1. DiskInv /\ [Next]_vars => [Saved]_vars
  <2> SUFFICES ASSUME DiskInv, Next, mission.status \in {"SUCCEEDED", "FAILED"},
                      stage' \in Idle \ {"killed"}
               PROVE  checkpoint'.mission = mission /\ WithinLimit(checkpoint'.mission)
    OBVIOUS
  <2>1. stage \in {"returned", "final_events", "done"}
    BY NothingYet DEF DiskInv, BudgetInv, TypeInv, TypeOK, ControlTypes, Control, StatusByStage, Stages, Idle,
       Busy, CheckpointStages, EventStages, RuntimeStages, CliStages
  <2>2. WithinLimit(mission)
    BY <2>1 DEF DiskInv, EndKept, Busy, CheckpointStages, EventStages, CliStages
  <2>3. CASE WriteEventsRefused \/ Exit
    <3>1. stage \in {"final_events", "done"} /\ UNCHANGED checkpoint
      BY <2>1, <2>3 DEF WriteEventsRefused, PersistEventsRefused, EventStages, Exit, disk
    <3> QED
      BY <3>1, <2>2 DEF DiskInv, EndKept
  <2>4. CASE WriteCheckpointRefused
    BY <2>2, <2>4 DEF WriteCheckpointRefused, SaveCheckpointRefused
  <2>5. CASE WriteCheckpoint \/ WriteEvents
    <3>1. stage' \in {"pause_events", "final_events", "done"}
      BY <2>1, <2>5 DEF WriteCheckpoint, SaveCheckpoint, StoreCheckpoint, WriteEvents, PersistEvents, EventStages, CheckpointStages,
         AfterCheckpoint, AfterEvents
    <3> QED
      BY <3>1 DEF Idle
  <2>6. ~(Crash \/ CrashAfterEffect)
    BY DEF Crash, CrashAfterEffect
  <2>7. ~Command
    BY <2>1 DEF Command, RunCommand, RunRefused, ResumeRefused, ResumeWithoutCheckpoint,
       ResumeCorruptedEventLog, ResumeNotPending, ResumeAndAsk, Leave, Idle
  <2>8. ~(BeginCycle \/ ExhaustIterations \/ Decide \/ Execute \/ Grant \/ Deny)
    BY <2>1 DEF BeginCycle, ExhaustIterations, Decide, FailOnReasoningError, DecideRaises,
       FinishSuccess, FinishFailure, FinishMission, RejectAction, AllowAction, RequestConfirmation,
       Execute, ExecutionSucceeds, ExecutionFails, ExecuteAction, ExecutionRaises, Grant, Deny
  <2> QED
    BY <2>3, <2>4, <2>5, <2>6, <2>7, <2>8 DEF Next, Proceed
<1> QED
  BY DiskInvariance, <1>1, PTL DEF Spec, DecidedEndSaved

-----------------------------------------------------------------------------
(* Every step spends something *)

\* A mission is one cycle past its limit at most, when it was that which ended it.
OnePast == mission.iteration <= mission.limit + 1

Spends == 0 <= Remaining' /\ Remaining' < Remaining

LEMMA StepsFacts ==
  /\ \A at \in Busy : StepsLeft(at) \in 1..10
  /\ StepsLeft("deciding") = 10 /\ StepsLeft("returned") = 9
  /\ StepsLeft("pause_events") = 8 /\ StepsLeft("final_events") = 8
  /\ StepsLeft("asking") = 7 /\ StepsLeft("done") = 7
  /\ StepsLeft("consume_checkpoint") = 6 /\ StepsLeft("consume_events") = 5
  /\ StepsLeft("executing") = 4 /\ StepsLeft("outcome_checkpoint") = 3
  /\ StepsLeft("outcome_events") = 2 /\ StepsLeft("reasoning") = 1
BY DEF StepsLeft, Busy, CheckpointStages, EventStages, RuntimeStages, CliStages

LEMMA MissionCounts ==
  ASSUME NEW m \in Mission
  PROVE  m.iteration \in Nat /\ m.limit \in Nat
<1>1. \A limit \in {0} \cup Limits : limit \in Nat
  BY LimitsAssumption
<1> QED
  BY <1>1 DEF Mission

LEMMA Counts ==
  ASSUME TypeInv
  PROVE  mission.iteration \in Nat /\ mission.limit \in Nat
BY MissionCounts DEF TypeInv, TypeOK, ControlTypes

\* Within a cycle, the stages follow one another.
LEMMA StageSpends ==
  ASSUME TypeInv, OnePast, stage \in Busy, stage' \in Busy,
         mission'.iteration = mission.iteration, mission'.limit = mission.limit,
         StepsLeft(stage') < StepsLeft(stage)
  PROVE  OnePast' /\ Spends
<1>1. /\ mission.iteration \in Nat /\ mission.limit \in Nat
      /\ StepsLeft(stage) \in 1..10 /\ StepsLeft(stage') \in 1..10
  BY Counts, StepsFacts
<1>2. Remaining' = 10 * (mission.limit + 1 - mission.iteration) + StepsLeft(stage')
  BY DEF Remaining
<1> HIDE DEF StepsLeft
<1> QED
  BY <1>1, <1>2 DEF OnePast, Spends, Remaining

\* A cycle spends an iteration, whatever stage it leads to.
LEMMA CycleSpends ==
  ASSUME TypeInv, mission.iteration <= mission.limit, stage \in Busy, stage' \in Busy,
         mission'.iteration = mission.iteration + 1, mission'.limit = mission.limit,
         StepsLeft(stage') < StepsLeft(stage) + 10
  PROVE  OnePast' /\ Spends
<1>1. /\ mission.iteration \in Nat /\ mission.limit \in Nat
      /\ StepsLeft(stage) \in 1..10 /\ StepsLeft(stage') \in 1..10
  BY Counts, StepsFacts
<1>2. Remaining' = 10 * (mission.limit + 1 - (mission.iteration + 1)) + StepsLeft(stage')
  BY DEF Remaining
<1> QED
  BY <1>1, <1>2 DEF OnePast, Spends, Remaining

\* One case per action of Next.
LEMMA SpendStep ==
  DiskInv /\ OnePast /\ [Next]_vars =>
    /\ OnePast'
    /\ stage \in Busy => stage' \in Idle \/ Spends \/ UNCHANGED vars
<1> SUFFICES ASSUME DiskInv, OnePast, [Next]_vars
             PROVE  /\ OnePast'
                    /\ stage \in Busy => stage' \in Idle \/ Spends \/ UNCHANGED vars
  OBVIOUS
<1> USE DEF Busy, Idle, CheckpointStages, EventStages, RuntimeStages, CliStages
<1>0. /\ TypeInv /\ StatusByStage /\ mission \in Mission
      /\ stage \in Busy /\ mission.status # "MAX_ITERATIONS" => mission.iteration <= mission.limit
  BY DEF DiskInv, BudgetInv, TypeInv, TypeOK, ControlTypes, Control, EndKept, WithinLimit
<1>1. ASSUME NEW limit \in Limits, RunCommand(limit) PROVE OnePast' /\ stage \notin Busy
  <2> DEFINE new == [id |-> started + 1, status |-> "CREATED", iteration |-> 0, limit |-> limit]
  <2>1. mission' = Advance(new, Simple("mission_created")) /\ stage \in Idle
    BY <1>1 DEF RunCommand, Run
  <2>2. new \in Mission /\ new.iteration = 0 /\ new.limit \in Nat
    BY <1>1, MissionsAssumption, LimitsAssumption
       DEF RunCommand, Run, DiskInv, BudgetInv, TypeInv, TypeOK, ControlTypes, Mission, Missions,
           MissionStatus
  <2> HIDE DEF new
  <2>3. mission'.iteration = 0 /\ mission'.limit \in Nat
    BY <2>1, <2>2, AdvanceKeeps
  <2> QED
    BY <2>1, <2>3 DEF OnePast
<1>2. CASE BeginCycle
  <2>1. /\ mission'.iteration = mission.iteration + 1 /\ mission'.limit = mission.limit
        /\ mission.iteration < mission.limit /\ stage = "reasoning" /\ stage' = "deciding"
    BY <1>0, <1>2 DEF BeginCycle, Mission
  <2>2. mission.iteration <= mission.limit /\ StepsLeft(stage') < StepsLeft(stage) + 10
    BY <1>0, <2>1, Counts, StepsFacts
  <2> QED
    BY <1>0, <2>1, <2>2, CycleSpends
<1>3. CASE ExhaustIterations
  <2> DEFINE over == Advance(mission, Simple("max_iterations_reached"))
  <2>1. over \in Mission /\ over.status = "MAX_ITERATIONS"
    BY <1>0, <1>3, Advanced, TransitionFacts DEF ExhaustIterations, MissionStatus, StatusByStage
  <2>2. over.limit = mission.limit /\ over.iteration = mission.iteration
    BY <1>0, AdvanceKeeps
  <2>3. mission' = [over EXCEPT !.iteration = @ + 1] /\ stage' = LoopHead(mission')
        /\ stage = "reasoning"
    BY <1>3 DEF ExhaustIterations
  <2> HIDE DEF over
  <2>4. /\ mission'.iteration = mission.iteration + 1 /\ mission'.limit = mission.limit
        /\ mission'.status = "MAX_ITERATIONS"
    BY <2>1, <2>2, <2>3 DEF Mission
  <2>5. stage' = "returned" /\ mission.iteration <= mission.limit
    BY <1>0, <2>3, <2>4 DEF LoopHead, StatusByStage
  <2>6. StepsLeft(stage') < StepsLeft(stage) + 10
    BY <2>3, <2>5, StepsFacts
  <2> QED
    BY <1>0, <2>3, <2>4, <2>5, <2>6, CycleSpends
<1>4. CASE FailOnReasoningError \/ FinishSuccess \/ FinishFailure \/ AllowAction \/ RequestConfirmation
  <2>1. /\ stage = "deciding" /\ \E event : mission' = Advance(mission, event)
        /\ stage' \in {"reasoning", "returned", "executing"}
    BY <1>4 DEF FailOnReasoningError, FinishSuccess, FinishFailure, FinishMission, AllowAction,
       RequestConfirmation, LoopHead
  <2>2. StepsLeft(stage') < StepsLeft(stage)
    BY <2>1, StepsFacts
  <2> QED
    BY <1>0, <2>1, <2>2, AdvanceKeeps, StageSpends
<1>5. ASSUME NEW verdict, NEW reason, RejectAction(verdict, reason) PROVE OnePast' /\ Spends
  <2>1. /\ stage = "deciding" /\ mission' = Advance(mission, PolicyEvaluated(verdict))
        /\ stage' \in {"reasoning", "returned"}
    BY <1>5 DEF RejectAction, LoopHead
  <2>2. StepsLeft(stage') < StepsLeft(stage)
    BY <2>1, StepsFacts
  <2> QED
    BY <1>0, <2>1, <2>2, AdvanceKeeps, StageSpends
<1>6. ASSUME NEW type, NEW kind, NEW text, ExecuteAction(type, kind, text) PROVE OnePast' /\ Spends
  <2>1. /\ stage = "executing" /\ mission' = Advance(mission, Simple("tool_execution_finished"))
        /\ stage' = IF current = NoRequest THEN LoopHead(mission') ELSE "outcome_checkpoint"
    BY <1>6 DEF ExecuteAction
  <2>2. mission'.status = "REASONING"
    BY <1>0, <2>1, Advanced, TransitionFacts DEF StatusByStage, MissionStatus
  <2>3. stage' \in {"reasoning", "outcome_checkpoint"}
    BY <2>1, <2>2 DEF LoopHead
  <2>4. StepsLeft(stage') < StepsLeft(stage)
    BY <2>1, <2>3, StepsFacts
  <2> QED
    BY <1>0, <2>1, <2>3, <2>4, AdvanceKeeps, StageSpends
<1>7. CASE Grant \/ Deny
  <2>1. /\ stage = "asking" /\ \E event : mission' = Advance(mission, event)
        /\ stage' \in {"consume_checkpoint", "outcome_checkpoint"}
    BY <1>7 DEF Grant, Deny, ConfirmationGranted, GrantTo, ConfirmationDenied, DenyTo
  <2>2. StepsLeft(stage') < StepsLeft(stage)
    BY <2>1, StepsFacts
  <2> QED
    BY <1>0, <2>1, <2>2, AdvanceKeeps, StageSpends
<1>8. CASE WriteCheckpoint
  <2>1. /\ UNCHANGED mission /\ stage \in CheckpointStages /\ stage' = AfterCheckpoint(stage)
    BY <1>8 DEF WriteCheckpoint, SaveCheckpoint, StoreCheckpoint, memory
  <2>2. /\ stage' \in EventStages
        /\ stage = "consume_checkpoint" => stage' = "consume_events"
        /\ stage = "outcome_checkpoint" => stage' = "outcome_events"
        /\ stage = "returned" => stage' \in {"pause_events", "final_events"}
    BY <2>1 DEF AfterCheckpoint
  <2>3. StepsLeft(stage') < StepsLeft(stage)
    BY <2>1, <2>2, StepsFacts
  <2> QED
    BY <1>0, <2>1, <2>2, <2>3, StageSpends
<1>9. CASE WriteEvents
  <2>1. UNCHANGED mission /\ stage \in EventStages /\ stage' = AfterEvents(stage)
    BY <1>9 DEF WriteEvents, PersistEvents
  <2>2. stage = "outcome_events" => stage' = "reasoning"
    BY <1>0, <2>1 DEF AfterEvents, LoopHead, StatusByStage
  <2>3. /\ stage' \in Busy
        /\ stage = "consume_events" => stage' = "executing"
        /\ stage = "pause_events" => stage' = "asking"
        /\ stage = "final_events" => stage' = "done"
    BY <2>1, <2>2 DEF AfterEvents
  <2>4. StepsLeft(stage') < StepsLeft(stage)
    BY <2>1, <2>2, <2>3, StepsFacts
  <2> QED
    BY <1>0, <2>1, <2>3, <2>4, StageSpends
<1>10. CASE \/ DecideRaises \/ ExecutionRaises \/ WriteCheckpointRefused \/ WriteEventsRefused
            \/ Exit \/ Crash \/ CrashAfterEffect
  <2>1. stage' \in Idle /\ mission' = NoMission
    BY <1>10 DEF DecideRaises, ExecutionRaises, WriteCheckpointRefused, SaveCheckpointRefused,
       WriteEventsRefused, PersistEventsRefused, Raise, Exit, Crash, CrashAfterEffect, ForgetMemory
  <2> QED
    BY <2>1 DEF OnePast, NoMission
<1>11. CASE \/ RunRefused \/ ResumeRefused \/ ResumeWithoutCheckpoint
            \/ ResumeCorruptedEventLog \/ ResumeNotPending
  <2>1. stage' \in Idle /\ UNCHANGED mission
    BY <1>11 DEF RunRefused, ResumeRefused, ResumeWithoutCheckpoint,
       ResumeCorruptedEventLog, ResumeNotPending, Leave, memory
  <2> QED
    BY <2>1 DEF OnePast
<1>12. CASE ResumeAndAsk
  <2>1. mission' = checkpoint.mission /\ WithinLimit(checkpoint.mission) /\ stage \in Idle
    BY <1>12 DEF ResumeAndAsk, ResumeMission, ResumedMission, DiskInv, EndKept
  <2>2. checkpoint.mission.iteration \in Nat /\ checkpoint.mission.limit \in Nat
    BY MissionCounts DEF DiskInv, BudgetInv, TypeInv, TypeOK, ControlTypes, Checkpoint
  <2> QED
    BY <2>1, <2>2 DEF OnePast, WithinLimit
<1>13. CASE UNCHANGED vars
  BY <1>13 DEF vars, memory, OnePast
<1> QED
  BY <1>1, <1>2, <1>3, <1>4, <1>5, <1>6, <1>7, <1>8, <1>9, <1>10, <1>11, <1>12, <1>13
     DEF Next, Proceed, Command, Decide, Execute, ExecutionSucceeds, ExecutionFails

\* Every step of a process ends it or leaves it with fewer steps, so that none
\* runs for ever without being stuck in a call.
THEOREM StepsAreSpent == Spec => EveryStepSpends
<1>1. Init => OnePast
  BY DEF Init, NoMission, OnePast
<1>2. DiskInv /\ OnePast /\ [Next]_vars => OnePast'
  BY SpendStep
<1>3. DiskInv /\ OnePast /\ [Next]_vars =>
        [(stage \in Busy) => \/ stage' \in Idle
                             \/ 0 <= Remaining' /\ Remaining' < Remaining]_vars
  BY SpendStep DEF Spends
<1> QED
  BY <1>1, <1>2, <1>3, DiskInvariance, PTL DEF Spec, EveryStepSpends

=============================================================================
