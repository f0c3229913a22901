---------------------------- MODULE StateMachine ----------------------------
(***************************************************************************)
(* The pure transition function of src/peon/state_machine.py.  A mission   *)
(* event is a record with its "kind"; policy_evaluated also carries the    *)
(* type of the verdict.  An event the code refuses by raising              *)
(* InvalidTransitionError yields InvalidTransition, which is no status.    *)
(***************************************************************************)

MissionStatus == {"CREATED", "REASONING", "EXECUTING", "AWAITING_CONFIRMATION",
                  "SUCCEEDED", "FAILED", "MAX_ITERATIONS", "ABORTED"}

VerdictType == {"ALLOWED", "DENIED", "REQUIRES_CONFIRMATION", "REWRITE"}

TerminalStates == {"SUCCEEDED", "FAILED", "MAX_ITERATIONS", "ABORTED"}

SimpleKinds == {"mission_created", "mission_succeeded", "mission_failed",
                "max_iterations_reached", "confirmation_granted",
                "confirmation_denied", "tool_execution_finished"}

MissionEvent == [kind : SimpleKinds \cup {"abort_requested"}]
                \cup [kind : {"policy_evaluated"}, verdict : VerdictType]

InvalidTransition == "InvalidTransitionError"

VerdictTransition(verdict) ==
  CASE verdict = "ALLOWED"               -> "EXECUTING"
    [] verdict = "DENIED"                -> "REASONING"
    [] verdict = "REWRITE"               -> "REASONING"
    [] verdict = "REQUIRES_CONFIRMATION" -> "AWAITING_CONFIRMATION"

\* The table of the code, keyed by state and event kind.
SimpleTransition(state, kind) ==
  CASE state = "CREATED"   /\ kind = "mission_created"                -> "REASONING"
    [] state = "REASONING" /\ kind = "mission_succeeded"              -> "SUCCEEDED"
    [] state = "REASONING" /\ kind = "mission_failed"                 -> "FAILED"
    [] state = "REASONING" /\ kind = "max_iterations_reached"         -> "MAX_ITERATIONS"
    [] state = "AWAITING_CONFIRMATION" /\ kind = "confirmation_granted" -> "EXECUTING"
    [] state = "AWAITING_CONFIRMATION" /\ kind = "confirmation_denied"  -> "REASONING"
    [] state = "EXECUTING" /\ kind = "tool_execution_finished"        -> "REASONING"
    [] OTHER -> InvalidTransition

Transition(state, event) ==
  CASE event.kind = "abort_requested" ->
         IF state \in TerminalStates THEN InvalidTransition ELSE "ABORTED"
    [] event.kind = "policy_evaluated" ->
         IF state = "REASONING" THEN VerdictTransition(event.verdict) ELSE InvalidTransition
    [] OTHER -> SimpleTransition(state, event.kind)

Simple(kind) == [kind |-> kind]
PolicyEvaluated(verdict) == [kind |-> "policy_evaluated", verdict |-> verdict]
=============================================================================
