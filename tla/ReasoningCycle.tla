--------------------------- MODULE ReasoningCycle ---------------------------
(***************************************************************************)
(* What happens inside one cycle of the reasoning loop, where Runtime only *)
(* says how it may end: the attempts of the reasoner (src/peon/reasoner.py *)
(* over the provider), the verdict of the policy, the run of the tool      *)
(* (src/peon/executor.py), the observation or the exception that comes     *)
(* out, and the spans around all of it.  The model may answer anything; a  *)
(* tool that is not one of src/peon/tools/ may do anything its type lets.  *)
(***************************************************************************)
EXTENDS Policy, BuiltinTools, OllamaProvider, Tracing

CONSTANT MaxAttempts      \* RetryingReasoner.max_attempts

ASSUME AttemptsAssumption == MaxAttempts \in Nat \ {0}

VARIABLES
  rooted,        \* whether the policy restricts paths to a workspace_root
  step,          \* where the cycle is
  attempt,       \* the attempt RetryingReasoner is at
  action,        \* the action decided on, or NoAction
  verdict,       \* the policy's verdict on it, or None
  outcome,       \* what the tool did, or NoOutcome
  result,        \* what the executor returned, or None
  observation,   \* the kind of the observation recorded, or None
  suggestion,    \* the action the last rewrite suggested, or NoAction
  answers,       \* ghost: the answers the reasoner got in this cycle
  judgedRooted   \* ghost: what rooted was when the action was judged, if there is one

ran       == <<outcome, result>>
cycleVars == <<rooted, step, attempt, action, verdict, ran, observation, suggestion, answers,
               judgedRooted, tracing>>

NoOutcome == [does |-> "nothing", message |-> "none"]
NoAction == [tool |-> Unregistered,
             arguments |-> [command |-> "absent", path |-> "absent", extra |-> "absent"]]

Init ==
  /\ rooted \in BOOLEAN
  /\ step = "start"
  /\ attempt = 0
  /\ action = NoAction
  /\ verdict = None
  /\ outcome = NoOutcome
  /\ result = None
  /\ observation = None
  /\ suggestion = NoAction
  /\ answers = <<>>
  /\ judgedRooted = rooted
  /\ spans = <<"runtime.run">>
  /\ recorded = {}

-----------------------------------------------------------------------------
(* RetryingReasoner over LLMReasoner *)

\* The cycle asks the reasoner, whose first attempt begins.
Ask ==
  /\ step = "start"
  /\ step' = "attempting"
  /\ attempt' = 1
  /\ EnterSpans(<<"reasoner.decide", "reasoner.decide.attempt">>)
  /\ UNCHANGED <<action, verdict, ran, observation, suggestion, answers>>

\* One attempt, and the class of its answer.
Attempt(exchange, classes) ==
  /\ step = "attempting"
  /\ AnswerTo(exchange) \in classes
  /\ answers' = Append(answers, AnswerTo(exchange))

\* A failed attempt but the last: another one, in a span of its own.
RetryOnceMore(exchange) ==
  /\ Attempt(exchange, InvalidAnswers)
  /\ attempt <= MaxAttempts
  /\ attempt' = attempt + 1
  /\ UNCHANGED <<step, action, verdict, ran, observation, suggestion, tracing>>
RetryInside(exchange) ==
  /\ Attempt(exchange, InvalidAnswers)
  /\ attempt < MaxAttempts
  /\ attempt' = attempt + 1
  /\ EnterSpans(<<"reasoner.decide.attempt">>)
  /\ UNCHANGED <<step, action, verdict, ran, observation, suggestion>>
Retry(exchange) ==
  /\ Attempt(exchange, InvalidAnswers)
  /\ attempt < MaxAttempts
  /\ attempt' = attempt + 1
  /\ UNCHANGED <<step, action, verdict, ran, observation, suggestion, tracing>>

\* The last attempt has failed: its error leaves decide, and with it the span
\* around it, but not those of the attempts.  The mission FAILED, run returns.
GiveUp(exchange) ==
  /\ Attempt(exchange, InvalidAnswers)
  /\ attempt >= MaxAttempts
  /\ step' = "reasoning_error"
  /\ spans' = Left(spans, 0)
  /\ recorded' = recorded \cup {"reasoner.decide"}
  /\ UNCHANGED <<attempt, action, verdict, ran, observation, suggestion>>

\* Neither reasoner expects the exception of this attempt.
AttemptRaises(exchange) ==
  /\ Attempt(exchange, {"call_raised", "unexpected"})
  /\ step' = "reasoner_raised"
  /\ UnwindSpans(0)
  /\ UNCHANGED <<attempt, action, verdict, ran, observation, suggestion>>

DecideFinish ==
  /\ Attempt("decision", {"decision"})
  /\ step' = "finished"
  /\ LeaveSpans(0)
  /\ UNCHANGED <<attempt, action, verdict, ran, observation, suggestion>>

DecideAction(decided) ==
  /\ Attempt("decision", {"decision"})
  /\ step' = "judging"
  /\ action' = decided
  /\ LeaveSpans(1)
  /\ UNCHANGED <<attempt, verdict, ran, observation, suggestion>>

-----------------------------------------------------------------------------
(* _handle_action_decision *)

\* Where the verdict leads; a refusal becomes an observation at once.  The
\* attempts are past: decide has returned.
Judge ==
  /\ step = "judging"
  /\ attempt' = 0
  /\ answers' = <<>>
  /\ verdict' = Evaluate(action, rooted)
  /\ \/ /\ verdict' = "ALLOWED"
        /\ step' = "executing"
        /\ EnterSpans(<<"executor.run">>)
        /\ UNCHANGED <<observation, suggestion>>
     \/ /\ verdict' = "REQUIRES_CONFIRMATION"
        /\ step' = "awaiting"
        /\ LeaveSpans(0)
        /\ UNCHANGED <<observation, suggestion>>
     \/ /\ verdict' \in {"DENIED", "REWRITE"}
        /\ step' = "observed"
        /\ observation' = "POLICY_REJECTION"
        /\ suggestion' = IF verdict' = "REWRITE" THEN Suggested(action) ELSE NoAction
        /\ UNCHANGED tracing
     \/ /\ verdict' \in {None, Raises}
        /\ step' = "policy_raised"
        /\ UnwindSpans(0)
        /\ UNCHANGED <<observation, suggestion>>
  /\ UNCHANGED <<action, ran>>

\* resume_confirmation, granted or not.
Grant ==
  /\ step = "awaiting"
  /\ step' = "executing"
  /\ EnterSpans(<<"runtime.resume_confirmation", "executor.run">>)
  /\ UNCHANGED <<attempt, action, verdict, ran, observation, suggestion, answers>>

Deny ==
  /\ step = "awaiting"
  /\ step' = "observed"
  /\ observation' = "CONFIRMATION_DENIED"
  /\ EnterSpans(<<"runtime.resume_confirmation">>)
  /\ UNCHANGED <<attempt, action, verdict, ran, suggestion, answers>>

-----------------------------------------------------------------------------
(* Executor.run *)

\* What the tool an action names may do.
Outcomes(called) ==
  IF called.tool \in Builtin
  THEN {Execute(called.tool, called.arguments, answer) : answer \in SystemAnswer}
  ELSE ToolOutcome

\* An ExecutionError refuses a message that is blank.
ErrorOrRaise(category, message) ==
  IF message = "text" THEN category ELSE "ValidationError"

RunResult(called, did) ==
  IF ~Registered(called) THEN "INVALID_REQUEST"
  ELSE CASE did.does = "succeed" -> "RESULT"
         [] did.does = "fail"    -> ErrorOrRaise("TOOL_FAILURE", did.message)
         [] did.does = "raise"   -> ErrorOrRaise("SYSTEM_ERROR", did.message)

ObservationOf(returned) ==
  IF returned = "RESULT" THEN "EXECUTION_RESULT" ELSE "EXECUTION_ERROR"

ExecutorErrors == {"INVALID_REQUEST", "TOOL_FAILURE", "SYSTEM_ERROR"}

RunTool(did) ==
  /\ step = "executing"
  /\ outcome' = did
  /\ result' = RunResult(action, did)

ExecuteTool(did) ==
  /\ RunTool(did)
  /\ result' # "ValidationError"
  /\ observation' = ObservationOf(result')
  /\ step' = "observed"
  /\ LeaveSpans(1)
  /\ UNCHANGED <<attempt, action, verdict, suggestion, answers>>

ExecutorRaises(did) ==
  /\ RunTool(did)
  /\ result' = "ValidationError"
  /\ step' = "executor_raised"
  /\ UnwindSpans(0)
  /\ UNCHANGED <<attempt, action, verdict, observation, suggestion, answers>>

-----------------------------------------------------------------------------
(* The next cycle, which remembers nothing but the observation *)

NextCycle ==
  /\ step = "observed"
  /\ step' = "start"
  /\ action' = NoAction
  /\ verdict' = None
  /\ outcome' = NoOutcome
  /\ result' = None
  /\ observation' = None
  /\ UNCHANGED <<attempt, suggestion, answers, tracing>>

Step ==
  \/ Ask
  \/ \E exchange \in Exchange : Retry(exchange) \/ GiveUp(exchange) \/ AttemptRaises(exchange)
  \/ DecideFinish
  \/ \E decided \in Action : DecideAction(decided)
  \/ Judge
  \/ Grant
  \/ Deny
  \/ \E did \in Outcomes(action) : ExecuteTool(did) \/ ExecutorRaises(did)
  \/ NextCycle

\* A process builds its policy once.
InOneProcess ==
  /\ Step
  /\ UNCHANGED rooted
  /\ judgedRooted' = IF step \in {"judging", "observed"} THEN rooted ELSE judgedRooted

\* `peon resume` builds another, with a workspace_root of its own or none, and
\* asks about the pending action without judging it again.
ResumeUnderOtherRoot ==
  /\ step = "awaiting"
  /\ rooted' = ~rooted
  /\ UNCHANGED <<step, attempt, action, verdict, ran, observation, suggestion, answers,
                 judgedRooted, tracing>>

Next == InOneProcess \/ ResumeUnderOtherRoot

Spec == Init /\ [][Next]_cycleVars

-----------------------------------------------------------------------------
(* Properties *)

Steps == {"start", "attempting", "judging", "executing", "awaiting", "observed",
          "finished", "reasoning_error", "reasoner_raised", "policy_raised", "executor_raised"}

Roots     == {"runtime.run", "runtime.resume_confirmation"}
SpanNames == Roots \cup {"reasoner.decide", "reasoner.decide.attempt", "executor.run"}

\* Type correctness of one cycle.
CycleTypeOK ==
  /\ {rooted, judgedRooted} \subseteq BOOLEAN
  /\ step \in Steps
  /\ attempt \in 0..MaxAttempts
  /\ action \in Action \cup {NoAction}
  /\ verdict \in Verdicts \cup {None, Raises}
  /\ outcome \in ToolOutcome \cup {NoOutcome}
  /\ result \in ExecutorErrors \cup {"RESULT", "ValidationError", None}
  /\ observation \in {"EXECUTION_RESULT", "EXECUTION_ERROR", "POLICY_REJECTION",
                      "CONFIRMATION_DENIED", None}
  /\ suggestion \in Action
  /\ answers \in Seq(Answers)
  /\ spans \in Seq(SpanNames)
  /\ recorded \subseteq SpanNames

\* The arguments a tool gets are those it declares as required, all of them
\* strings, and nothing else where the schema is closed.
SchemaKept(a) ==
  LET spec    == SpecFor(a)
      given   == {field \in DOMAIN a.arguments : a.arguments[field] # "absent"}
  IN  /\ spec.required \subseteq given
      /\ spec.closed => given \subseteq spec.properties
      /\ \A field \in given \cap spec.properties : a.arguments[field] # "not_text"

\* What the guardrails ask of an action before a tool may see it, with paths
\* restricted or not.
Permitted(a, restricted) ==
  /\ Registered(a)
  /\ a.arguments.command \notin {"rm_unsafe"} \cup Rewritable
  /\ SchemaKept(a)
  /\ restricted /\ "path" \in SpecFor(a).properties
       => a.arguments.path \notin {"outside", "unresolvable"}

\* No tool is called with an action that any of the guardrails objects to, and a
\* high-risk one is called only through a confirmation, whichever rule of the
\* chain has the last word; Executor's own check of the registry never fires.
\* The path restriction is the one of the process that judged the action: that
\* of a process that resumes it and runs it is not asked (runtime.py:177).
ExecutionJudged ==
  (step = "executing" \/ result # None)
    => /\ Permitted(action, judgedRooted)
       /\ SpecFor(action).risk = "high" => verdict = "REQUIRES_CONFIRMATION"
       /\ result # "INVALID_REQUEST"

\* A model that takes up the rewrite the policy suggested is not sent back with
\* another rewrite: suggestions cannot send the loop round in circles.
RewriteConverges ==
  [][verdict' = "REWRITE" /\ verdict # "REWRITE" => action # suggestion]_cycleVars

\* RetryingReasoner asks MaxAttempts times at most, only after invalid answers,
\* gives up on nothing less, and never asks again once it has a decision.
RetriesBounded ==
  /\ Len(answers) <= MaxAttempts
  /\ \A i \in 1..Len(answers) : i < Len(answers) => answers[i] \in InvalidAnswers
  /\ step = "reasoning_error"
       => Len(answers) = MaxAttempts /\ answers[MaxAttempts] \in InvalidAnswers

\* Whatever goes wrong in the exchange with the model, known to the provider or
\* not, is one more failed attempt: what escapes both reasoners is an answer the
\* model did give (reasoner.py:38-46).
CallFailuresRetried ==
  step = "reasoner_raised" => answers[Len(answers)] = "unexpected"

\* A tool of src/peon/tools/ always ends in an observation, a path it cannot even
\* look up, a command it cannot even start and one that fails without a word
\* included, unless memory runs out: only an exception without a message gets
\* past the executor.
BuiltinFailuresReported ==
  step = "executor_raised" /\ action.tool \in Builtin => outcome = Raised("empty")

\* What is traced at each step, below the span of run or resume_confirmation.
TracedAt(at) ==
  CASE at = "attempting" -> <<"reasoner.decide", "reasoner.decide.attempt">>
    [] at = "executing"  -> <<"executor.run">>
    [] OTHER -> <<>>

\* Where an exception has been recorded, below that span, once a cycle is over.
RecordedAt(at) ==
  CASE at = "reasoning_error" -> {"reasoner.decide"}
    [] at = "reasoner_raised" -> {"reasoner.decide", "reasoner.decide.attempt"}
    [] at = "executor_raised" -> {"executor.run"}
    [] OTHER -> {}

Escaped == {"reasoner_raised", "policy_raised", "executor_raised"}
Over    == {"awaiting", "finished", "reasoning_error"} \cup Escaped

\* A trace tells what happened: spans nest as the calls do, every one is closed
\* once run or resume_confirmation is left, by whatever way, retries included
\* (tracing.py:35-39), and an exception is recorded in the spans it has crossed
\* and in no other.
SpansTellTheTruth ==
  /\ IF step \in Over THEN spans = <<>>
     ELSE spans # <<>> /\ Head(spans) \in Roots /\ Tail(spans) = TracedAt(step)
  /\ recorded \ Roots = RecordedAt(step)
  /\ recorded \cap Roots # {} <=> step \in Escaped

\* Executor is the net that keeps a bug of a tool from crashing its caller
\* (executor.py:23-24).
ToolBugsContained == step # "executor_raised"

\* Reasoner.decide raises InvalidLLMResponseError and nothing else
\* (reasoner.py:63-65).
ReasonerRaisesOnlyInvalid == step # "reasoner_raised"
=============================================================================
