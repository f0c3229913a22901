-------------------------- MODULE PeonCliGateProofs --------------------------
(***************************************************************************)
(* The proof that PeonCli implements ConfirmedOnce: every step moves one   *)
(* request at most, and only as the gate allows.  It rests on ExecutionInv *)
(* of PeonCliProofs, which knows that a request that memory or disk still  *)
(* holds has been issued and not run.                                      *)
(***************************************************************************)
EXTENDS PeonCliProofs

-----------------------------------------------------------------------------
(* The phase of a request, by what is known of it *)

PhaseOf(r, last, runs, granted, known) ==
  IF r > last THEN "unissued"
  ELSE IF runs > 0 THEN "executed"
  ELSE IF granted = r THEN "granted"
  ELSE IF r \in known THEN "open" ELSE "dropped"

Known == {pending.id, checkpoint.pending.id}

GateStep == [Gate!Next]_<<[r \in Requests |-> RequestPhase(r)], executions>>

LEMMA PhaseFacts ==
  ASSUME ExecutionInv, ExecutionInv', NEW r \in Requests
  PROVE  /\ RequestPhase(r) = PhaseOf(r, issued, executions[r], current.id, Known)
         /\ RequestPhase(r)' = PhaseOf(r, issued', executions'[r], current'.id, Known')
<1>1. issued \in Nat /\ issued' \in Nat /\ executions[r] \in Nat /\ executions'[r] \in Nat
  BY RequestsAssumption DEF ExecutionInv, TypeInv, TypeOK, ControlTypes
<1> QED
  BY <1>1, RequestsAssumption DEF RequestPhase, PhaseOf, Known, Requests

\* Whoever has a request has one that was issued and has not been run.
LEMMA KnownFacts ==
  ASSUME ExecutionInv
  PROVE  /\ issued \in 0..MaxRequests /\ executions \in [Requests -> Nat]
         /\ {current.id, pending.id, checkpoint.pending.id} \subseteq {0} \cup Requests
         /\ \A request \in {current, pending, checkpoint.pending} :
              /\ request = NoRequest <=> request.id = 0
              /\ request # NoRequest =>
                   /\ request.id \in Requests
                   /\ request.id <= issued /\ executions[request.id] = 0
         /\ current # NoRequest => pending = NoRequest /\ mission.status = "EXECUTING"
<1> USE DEF ExecutionInv, TypeInv, TypeOK, ControlTypes, Control
<1>1. NoRequest.id = 0 /\ 0 \notin Requests
  BY DEF NoRequest, Requests
<1>2. \A request \in {current, pending, checkpoint.pending} :
        request # NoRequest => request.id \in Requests
  BY DEF PendingWhileAwaiting
<1>3. current # NoRequest => pending = NoRequest /\ mission.status = "EXECUTING"
  BY DEF StatusByStage, PendingWhileAwaiting
<1>4. Unspent(current) /\ Unspent(pending) /\ Unspent(checkpoint.pending)
  BY DEF Bookkeeping
<1> QED
  BY <1>1, <1>2, <1>3, <1>4 DEF Unspent

\* One request moves as the gate allows.
LEMMA OneMove ==
  ASSUME NEW r \in Requests, UNCHANGED executions,
         \A q \in Requests \ {r} : RequestPhase(q)' = RequestPhase(q),
         \/ RequestPhase(r)' = RequestPhase(r)
         \/ RequestPhase(r) = "unissued" /\ RequestPhase(r)' = "open"
         \/ RequestPhase(r) = "open" /\ RequestPhase(r)' \in {"granted", "dropped"}
         \/ RequestPhase(r) = "granted" /\ RequestPhase(r)' \in {"open", "dropped"}
  PROVE  GateStep
<1> DEFINE phase == [q \in Requests |-> RequestPhase(q)]
<1>1. phase' = [phase EXCEPT ![r] = RequestPhase(r)'] /\ phase[r] = RequestPhase(r)
  OBVIOUS
<1>2. CASE RequestPhase(r)' = RequestPhase(r)
  BY <1>2 DEF GateStep
<1>3. CASE RequestPhase(r) = "unissued" /\ RequestPhase(r)' = "open"
  BY <1>1, <1>3 DEF GateStep, Gate!Next, Gate!Issue, Gate!Move
<1>4. CASE RequestPhase(r) = "open" /\ RequestPhase(r)' = "granted"
  BY <1>1, <1>4 DEF GateStep, Gate!Next, Gate!Grant, Gate!Move
<1>5. CASE RequestPhase(r) = "granted" /\ RequestPhase(r)' = "open"
  BY <1>1, <1>5 DEF GateStep, Gate!Next, Gate!Reopen, Gate!Move
<1>6. CASE RequestPhase(r) \in {"open", "granted"} /\ RequestPhase(r)' = "dropped"
  BY <1>1, <1>6 DEF GateStep, Gate!Next, Gate!Drop, Gate!Move
<1> QED
  BY <1>2, <1>3, <1>4, <1>5, <1>6

\* Nothing happens to any request.
LEMMA NoMove ==
  ASSUME ExecutionInv, ExecutionInv',
         UNCHANGED <<issued, executions, current>>, Known' \cap Requests = Known \cap Requests
  PROVE  GateStep
<1>1. \A r \in Requests : RequestPhase(r)' = RequestPhase(r)
  BY PhaseFacts DEF PhaseOf
<1> QED
  BY <1>1 DEF GateStep

\* Memory or disk forgets one request, if it is one.
LEMMA OneLost ==
  ASSUME ExecutionInv, ExecutionInv', UNCHANGED <<issued, executions, current>>,
         NEW lost \in Known, Known' \subseteq Known \cup {0}, Known \subseteq Known' \cup {lost}
  PROVE  GateStep
<1>1. CASE lost \notin Requests
  <2>1. Known' \cap Requests = Known \cap Requests
    BY <1>1 DEF Requests
  <2> QED
    BY <2>1, NoMove
<1>2. CASE lost \in Requests
  <2>1. \A q \in Requests \ {lost} : RequestPhase(q)' = RequestPhase(q)
    <3>1. \A q \in Requests \ {lost} : q \in Known' <=> q \in Known
      BY DEF Requests
    <3> QED
      BY <3>1, PhaseFacts DEF PhaseOf
  <2>2. lost <= issued /\ executions[lost] = 0 /\ issued \in Nat
    BY <1>2, KnownFacts DEF Known, Requests
  <2>3. \/ RequestPhase(lost)' = RequestPhase(lost)
        \/ RequestPhase(lost) = "open" /\ RequestPhase(lost)' = "dropped"
    BY <1>2, <2>2, PhaseFacts DEF PhaseOf, Requests
  <2> QED
    BY <1>2, <2>1, <2>3, OneMove
<1> QED
  BY <1>1, <1>2

\* The process ends with nothing run: what only its memory knew is lost, and a
\* grant that the checkpoint does not know of yet.
LEMMA MemoryLost ==
  ASSUME ExecutionInv, ExecutionInv', ForgetMemory, UNCHANGED <<issued, executions, checkpoint>>
  PROVE  GateStep
<1>1. pending'.id = 0 /\ current'.id = 0
  BY DEF ForgetMemory, NoRequest
<1>2. CASE current = NoRequest
  <2>1. UNCHANGED current /\ pending.id \in Known
    BY <1>2 DEF ForgetMemory, Known
  <2>2. Known' \subseteq Known \cup {0} /\ Known \subseteq Known' \cup {pending.id}
    BY <1>1 DEF Known
  <2> QED
    BY <2>1, <2>2, OneLost
<1>3. CASE current # NoRequest
  <2>0. PICK r \in Requests : r = current.id
    BY <1>3, KnownFacts
  <2>1. r <= issued /\ executions[r] = 0 /\ pending.id = 0 /\ issued \in Nat
    BY <1>3, <2>0, KnownFacts DEF NoRequest
  <2>2. Known' = Known /\ 0 \notin Requests
    BY <1>1, <2>1 DEF Known, Requests
  <2>3. \A q \in Requests \ {r} : RequestPhase(q)' = RequestPhase(q)
    BY <1>1, <2>0, <2>2, PhaseFacts DEF PhaseOf
  <2>4. RequestPhase(r) = "granted" /\ RequestPhase(r)' \in {"open", "dropped"}
    BY <1>1, <2>0, <2>1, <2>2, PhaseFacts DEF PhaseOf, Requests
  <2> QED
    BY <2>3, <2>4, OneMove
<1> QED
  BY <1>2, <1>3

\* The action of the current request is run, if it has one; an action that was
\* allowed has none.
LEMMA CurrentRun ==
  ASSUME ExecutionInv, ExecutionInv', stage = "executing", CountExecution, current' = NoRequest,
         pending' = NoRequest, UNCHANGED <<issued, checkpoint>>
  PROVE  GateStep
<1>1. pending = NoRequest
  BY DEF ExecutionInv, TypeInv, Control, StatusByStage, PendingWhileAwaiting
<1>2. Known' = Known
  BY <1>1 DEF Known
<1>3. CASE current = NoRequest
  BY <1>2, <1>3, NoMove DEF CountExecution
<1>4. CASE current # NoRequest
  <2> DEFINE phase == [q \in Requests |-> RequestPhase(q)]
  <2>0. PICK r \in Requests : r = current.id
    BY <1>4, KnownFacts
  <2>1. /\ r <= issued /\ executions[r] = 0 /\ issued \in Nat
        /\ executions \in [Requests -> Nat] /\ current'.id = 0 /\ 0 \notin Requests
    BY <1>4, <2>0, KnownFacts DEF NoRequest, Requests
  <2>2. executions' = [executions EXCEPT ![r] = executions[r] + 1]
    BY <1>4, <2>0 DEF CountExecution
  <2>3. \A q \in Requests \ {r} : RequestPhase(q)' = RequestPhase(q)
    BY <1>2, <2>0, <2>1, <2>2, PhaseFacts DEF PhaseOf
  <2>4. RequestPhase(r) = "granted" /\ RequestPhase(r)' = "executed"
    BY <2>0, <2>1, <2>2, PhaseFacts DEF PhaseOf, Requests
  <2>5. phase' = [phase EXCEPT ![r] = "executed"] /\ phase[r] = "granted"
    BY <2>3, <2>4
  <2> QED
    BY <2>1, <2>2, <2>5 DEF GateStep, Gate!Next, Gate!Execute
<1> QED
  BY <1>3, <1>4

LEMMA GateKept == ExecutionInv /\ ExecutionInv' /\ [Next]_vars => GateStep
<1> SUFFICES ASSUME ExecutionInv, ExecutionInv', [Next]_vars PROVE GateStep
  OBVIOUS
<1>1. ASSUME UNCHANGED <<issued, executions, current, pending, checkpoint>> PROVE GateStep
  BY <1>1, NoMove DEF Known
<1>2. CASE \/ BeginCycle \/ ExhaustIterations \/ FailOnReasoningError \/ FinishSuccess
           \/ FinishFailure \/ AllowAction \/ WriteEvents
  BY <1>1, <1>2 DEF BeginCycle, ExhaustIterations, FailOnReasoningError, FinishSuccess, FinishFailure,
     FinishMission, AllowAction, WriteEvents, PersistEvents, disk, counters
<1>3. ASSUME NEW verdict, NEW reason, RejectAction(verdict, reason) PROVE GateStep
  BY <1>1, <1>3 DEF RejectAction, disk, counters
<1>4. ASSUME NEW limit \in Limits, RunCommand(limit) PROVE GateStep
  <2>1. pending = NoRequest
    BY <1>4 DEF RunCommand, ExecutionInv, TypeInv, Control, StatusByStage
  <2> QED
    BY <1>1, <1>4, <2>1 DEF RunCommand, Run, disk
<1>5. CASE \/ RunRefused \/ ResumeRefused \/ ResumeWithoutCheckpoint
           \/ ResumeCorruptedEventLog \/ ResumeNotPending \/ UNCHANGED vars
  BY <1>1, <1>5 DEF RunRefused, ResumeRefused, ResumeWithoutCheckpoint,
     ResumeCorruptedEventLog, ResumeNotPending, Leave, memory, disk, counters, vars
<1>6. CASE ResumeAndAsk
  <2>1. /\ pending = NoRequest /\ pending' = checkpoint.pending
        /\ UNCHANGED <<issued, executions, current, checkpoint>>
    BY <1>6 DEF ResumeAndAsk, ResumeMission, ExecutionInv, TypeInv, Control, StatusByStage,
       disk, counters
  <2>2. Known' \cap Requests = Known \cap Requests
    BY <2>1 DEF Known, NoRequest, Requests
  <2> QED
    BY <2>1, <2>2, NoMove
<1>7. CASE RequestConfirmation
  <2>0. PICK r \in Requests : r = issued + 1
    BY <1>7, KnownFacts, RequestsAssumption DEF RequestConfirmation, Requests
  <2>1. /\ issued \in Nat /\ issued' = r /\ pending'.id = r
        /\ UNCHANGED <<current, checkpoint, executions>>
    BY <1>7, <2>0, KnownFacts DEF RequestConfirmation, disk
  <2>2. pending.id = 0
    BY <1>7, KnownFacts
    DEF RequestConfirmation, ExecutionInv, TypeInv, Control, StatusByStage, PendingWhileAwaiting
  <2>3. executions[r] = 0 /\ current.id # r
    BY <2>0, <2>1, KnownFacts DEF ExecutionInv, Bookkeeping, Requests
  <2>4. \A q \in Requests \ {r} : RequestPhase(q)' = RequestPhase(q)
    BY <2>0, <2>1, <2>2, PhaseFacts DEF PhaseOf, Known, Requests
  <2>5. RequestPhase(r) = "unissued" /\ RequestPhase(r)' = "open"
    BY <2>0, <2>1, <2>3, PhaseFacts DEF PhaseOf, Known, Requests
  <2> QED
    BY <2>1, <2>4, <2>5, OneMove
<1>8. ASSUME NEW type, NEW kind, NEW text, ExecuteAction(type, kind, text) PROVE GateStep
  <2>1. pending = NoRequest
    BY <1>8 DEF ExecuteAction, ExecutionInv, TypeInv, Control, StatusByStage, PendingWhileAwaiting
  <2> QED
    BY <1>8, <2>1, CurrentRun DEF ExecuteAction, disk
<1>9. CASE ExecutionRaises \/ CrashAfterEffect
  BY <1>9, CurrentRun DEF ExecutionRaises, CrashAfterEffect, Raise, ForgetMemory, disk
<1>10. CASE WriteCheckpoint
  <2>1. /\ checkpoint'.pending = pending /\ UNCHANGED <<issued, executions, current, pending>>
    BY <1>10 DEF WriteCheckpoint, SaveCheckpoint, StoreCheckpoint, memory, counters
  <2>2. /\ checkpoint.pending.id \in Known /\ Known' \subseteq Known
        /\ Known \subseteq Known' \cup {checkpoint.pending.id}
    BY <2>1 DEF Known
  <2> QED
    BY <2>1, <2>2, OneLost
<1>11. CASE WriteCheckpointRefused \/ WriteEventsRefused \/ DecideRaises \/ Exit \/ Crash
  BY <1>11, MemoryLost DEF WriteCheckpointRefused, SaveCheckpointRefused, WriteEventsRefused,
     PersistEventsRefused, DecideRaises, Raise, Exit, Crash, disk, counters
<1>12. CASE Grant
  <2>1. /\ current' = pending /\ pending' = NoRequest /\ pending # NoRequest
        /\ UNCHANGED <<issued, executions, checkpoint>>
    BY <1>12 DEF Grant, ConfirmationGranted, GrantTo, Answerable, disk, counters
  <2>0. PICK r \in Requests : r = pending.id
    BY <2>1, KnownFacts
  <2>2. /\ r <= issued /\ executions[r] = 0 /\ issued \in Nat
        /\ current.id = 0 /\ pending'.id = 0 /\ 0 \notin Requests
    BY <2>0, <2>1, KnownFacts DEF NoRequest, Requests
  <2>3. \A q \in Requests \ {r} : RequestPhase(q)' = RequestPhase(q)
    BY <2>0, <2>1, <2>2, PhaseFacts DEF PhaseOf, Known
  <2>4. RequestPhase(r) = "open" /\ RequestPhase(r)' = "granted"
    BY <2>0, <2>1, <2>2, PhaseFacts DEF PhaseOf, Known, Requests
  <2> QED
    BY <2>1, <2>2, <2>3, <2>4, OneMove
<1>13. CASE Deny
  <2>1. pending' = NoRequest /\ UNCHANGED <<issued, executions, current, checkpoint>>
    BY <1>13 DEF Deny, ConfirmationDenied, DenyTo, disk, counters
  <2>2. pending.id \in Known /\ Known' \subseteq Known \cup {0} /\ Known \subseteq Known' \cup {pending.id}
    BY <2>1 DEF Known, NoRequest
  <2> QED
    BY <2>1, <2>2, OneLost
<1> QED
  BY <1>2, <1>3, <1>4, <1>5, <1>6, <1>7, <1>8, <1>9, <1>10, <1>11, <1>12, <1>13
  DEF Next, Proceed, Command, Decide, Execute, ExecutionSucceeds, ExecutionFails

\* Through every crash and every resume the CLI keeps what the confirmation gate
\* promises: a request is opened once, run only once granted, and once at most.
THEOREM ImplementsGate == Spec => RefinesConfirmedOnce
<1>1. Init => Gate!Init
  BY RequestsAssumption DEF Init, Gate!Init, RequestPhase, Requests
<1> QED
  BY <1>1, GateKept, ExecutionInvariance, PTL
  DEF Spec, RefinesConfirmedOnce, Gate!Spec, GateStep
=============================================================================
