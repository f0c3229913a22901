------------------------ MODULE ReasoningCycleProofs ------------------------
(***************************************************************************)
(* Proofs about ReasoningCycle, for any set of tools, any specs they have  *)
(* and any number of attempts.  There are three independent inductive      *)
(* invariants: Attempted, the attempts and their answers; Judged, the      *)
(* verdict of an action on its way to a tool; Nested, the spans that are   *)
(* open.  Typed, the types of what is left, rests on Judged.               *)
(***************************************************************************)
EXTENDS ReasoningCycle, SequenceTheorems, TLAPS

-----------------------------------------------------------------------------
(* The answers of the model *)

\* What a call can come to: never an exception of the provider's own.
LEMMA AnswerFacts ==
  \A exchange \in Exchange :
    AnswerTo(exchange) \in InvalidAnswers \cup {"decision", "unexpected"}
BY DEF Exchange, NoBody, Contents, AnswerTo, Generate, Parse, InvalidAnswers

\* Where the reasoner is out of the picture.
Unasking == {"start", "executing", "awaiting", "observed"}

\* How many answers there are while the reasoner is being asked.
Attempted ==
  /\ step \in Steps
  /\ answers \in Seq(Answers)
  /\ attempt \in 0..MaxAttempts
  /\ step \in Unasking => answers = <<>> /\ attempt = 0
  /\ step = "attempting" =>
       /\ attempt >= 1
       /\ Len(answers) = attempt - 1
       /\ \A i \in 1..Len(answers) : answers[i] \in InvalidAnswers
  /\ RetriesBounded
  /\ CallFailuresRetried

\* One more answer behind those that there are.
LEMMA Answered ==
  ASSUME Attempted, NEW exchange \in Exchange, NEW classes, Attempt(exchange, classes)
  PROVE  /\ answers' \in Seq(Answers)
         /\ Len(answers') = attempt
         /\ answers'[attempt] = AnswerTo(exchange)
         /\ AnswerTo(exchange) \in classes
         /\ \A i \in 1..(attempt - 1) : answers'[i] \in InvalidAnswers
         /\ attempt \in 1..MaxAttempts
<1>1. AnswerTo(exchange) \in Answers
  BY AnswerFacts DEF Answers
<1>2. /\ answers' = Append(answers, AnswerTo(exchange))
      /\ Len(answers) = attempt - 1
      /\ answers \in Seq(Answers) /\ attempt \in 1..MaxAttempts
      /\ \A i \in 1..Len(answers) : answers[i] \in InvalidAnswers
  BY AttemptsAssumption DEF Attempt, Attempted
<1> QED
  BY <1>1, <1>2 DEF Attempt

\* Once the decision is judged, there are no answers any more.
LEMMA Unasked ==
  ASSUME attempt' = 0, answers' = <<>>, step' \in Steps,
         step' \notin {"attempting", "reasoning_error", "reasoner_raised"}
  PROVE  Attempted'
BY AttemptsAssumption DEF Attempted, RetriesBounded, CallFailuresRetried

LEMMA AttemptedStep == Attempted /\ [Next]_cycleVars => Attempted'
<1> SUFFICES ASSUME Attempted, [Next]_cycleVars PROVE Attempted'
  OBVIOUS
<1> USE AttemptsAssumption
<1>1. CASE Ask
  BY <1>1 DEF Ask, Attempted, Unasking, Steps, RetriesBounded, CallFailuresRetried, Answers
<1>2. ASSUME NEW exchange \in Exchange, Retry(exchange) PROVE Attempted'
  BY <1>2, Answered DEF Retry, Attempt, Attempted, Unasking, RetriesBounded, CallFailuresRetried
<1>3. ASSUME NEW exchange \in Exchange, GiveUp(exchange) PROVE Attempted'
  BY <1>3, Answered DEF GiveUp, Attempt, Attempted, Unasking, RetriesBounded, CallFailuresRetried, Steps
<1>4. ASSUME NEW exchange \in Exchange, AttemptRaises(exchange) PROVE Attempted'
  <2>1. answers'[attempt] = "unexpected"
    BY <1>4, Answered, AnswerFacts DEF AttemptRaises, InvalidAnswers
  <2>2. /\ answers' \in Seq(Answers) /\ Len(answers') = attempt /\ attempt \in 1..MaxAttempts
        /\ \A i \in 1..(attempt - 1) : answers'[i] \in InvalidAnswers
        /\ step' = "reasoner_raised" /\ attempt' = attempt
    BY <1>4, Answered DEF AttemptRaises
  <2> QED
    BY <2>1, <2>2 DEF Attempted, Unasking, RetriesBounded, CallFailuresRetried, Steps
<1>5. CASE DecideFinish \/ \E decided \in Action : DecideAction(decided)
  <2>1. "decision" \in Exchange
    BY DEF Exchange, Contents
  <2>2. Attempt("decision", {"decision"}) /\ UNCHANGED attempt /\ step' \in {"finished", "judging"}
    BY <1>5 DEF DecideFinish, DecideAction
  <2> QED
    BY <2>1, <2>2, Answered DEF Attempted, Unasking, RetriesBounded, CallFailuresRetried, Steps
<1>6. CASE Judge
  BY <1>6, Unasked DEF Judge, Steps
<1>7. CASE Grant \/ Deny \/ NextCycle
  BY <1>7, Unasked DEF Grant, Deny, NextCycle, Attempted, Unasking, Steps
<1>8. ASSUME NEW did, ExecuteTool(did) \/ ExecutorRaises(did) PROVE Attempted'
  BY <1>8, Unasked DEF ExecuteTool, ExecutorRaises, RunTool, Attempted, Unasking, Steps
<1>9. CASE ResumeUnderOtherRoot \/ UNCHANGED cycleVars
  BY <1>9 DEF ResumeUnderOtherRoot, cycleVars, Attempted, RetriesBounded, CallFailuresRetried
<1> QED
  BY <1>1, <1>2, <1>3, <1>4, <1>5, <1>6, <1>7, <1>8, <1>9 DEF Next, InOneProcess, Step

LEMMA AttemptedAlways == Spec => []Attempted
<1>1. Init => Attempted
  BY AttemptsAssumption DEF Init, Attempted, Steps, RetriesBounded, CallFailuresRetried
<1> QED
  BY <1>1, AttemptedStep, PTL DEF Spec

\* The model is asked MaxAttempts times at most, again only after an answer that
\* is invalid, and given up on after MaxAttempts of them (RetryingReasoner).
THEOREM RetriesEnd == Spec => []RetriesBounded
<1>1. Attempted => RetriesBounded
  BY DEF Attempted
<1> QED
  BY <1>1, AttemptedAlways, PTL

\* What escapes both reasoners is never a failure of the call (LLMReasoner).
THEOREM CallFailuresStay == Spec => []CallFailuresRetried
<1>1. Attempted => CallFailuresRetried
  BY DEF Attempted
<1> QED
  BY <1>1, AttemptedAlways, PTL

-----------------------------------------------------------------------------
(* The chain of rules *)

\* No rule but the last allows anything or asks for a confirmation.
LEMMA RuleFacts ==
  ASSUME NEW a \in Action
  PROVE  /\ ToolAuthorizationRule(a) \in {None, "DENIED"}
         /\ DangerousCommandRule(a) \in {None, "DENIED", "REWRITE"}
         /\ ArgumentsSchemaRule(a) \in {None, "DENIED"}
         /\ PathRestrictionRule(a) \in {None, "DENIED", Raises}
         /\ RiskLevelRule(a) \in {None, "ALLOWED", "REQUIRES_CONFIRMATION"}
BY DEF ToolAuthorizationRule, DangerousCommandRule, ArgumentsSchemaRule, PathRestrictionRule,
       RiskLevelRule

\* The verdict of a chain is that of one of its rules, and all before it pass.
LEMMA FirstVerdict ==
  ASSUME NEW a \in Action, NEW restricted \in BOOLEAN, Evaluate(a, restricted) # None
  PROVE  \E i \in 1..Len(DefaultRules(restricted)) :
           /\ Evaluate(a, restricted) = Apply(DefaultRules(restricted)[i], a)
           /\ \A j \in 1..(i - 1) : Apply(DefaultRules(restricted)[j], a) = None
<1> DEFINE rules == DefaultRules(restricted)
           deciding == {i \in 1..Len(rules) : Apply(rules[i], a) # None}
<1>1. Len(rules) \in {4, 5}
  BY DEF DefaultRules
<1>2. deciding # {}
  BY DEF Evaluate
<1>3. \E i \in deciding : \A j \in deciding : i <= j
  <2>1. \A j \in deciding : j \in {1, 2, 3, 4, 5}
    BY <1>1
  <2> HIDE DEF deciding
  <2>2. CASE 1 \in deciding
    BY <2>1, <2>2
  <2>3. CASE 1 \notin deciding /\ 2 \in deciding
    BY <2>1, <2>3
  <2>4. CASE 1 \notin deciding /\ 2 \notin deciding /\ 3 \in deciding
    BY <2>1, <2>4
  <2>5. CASE 1 \notin deciding /\ 2 \notin deciding /\ 3 \notin deciding
    BY <1>2, <2>1, <2>5
  <2> QED
    BY <2>2, <2>3, <2>4, <2>5
<1>4. PICK i \in deciding : i = CHOOSE k \in deciding : \A j \in deciding : k <= j
  <2> HIDE DEF deciding
  <2> QED
    BY <1>3
<1>5. \A j \in deciding : i <= j
  <2> HIDE DEF deciding
  <2> QED
    BY <1>3, <1>4
<1>6. Evaluate(a, restricted) = Apply(rules[i], a)
  BY <1>2, <1>4 DEF Evaluate
<1>7. ASSUME NEW j \in 1..(i - 1) PROVE Apply(rules[j], a) = None
  <2>1. j \in 1..Len(rules) /\ ~(i <= j)
    BY <1>1
  <2> QED
    BY <2>1, <1>5
<1> QED
  BY <1>6, <1>7

\* A schema that is not violated is kept.
LEMMA SchemaFacts ==
  ASSUME NEW a \in Action, Registered(a), ~SchemaViolated(a.arguments, SpecFor(a))
  PROVE  SchemaKept(a)
<1>1. /\ SpecFor(a).required \subseteq {"command", "path"}
      /\ SpecFor(a).properties \subseteq {"command", "path"}
  BY SpecAssumption DEF SpecFor, Registered, ToolSpec
<1>2. DOMAIN a.arguments = {"command", "path", "extra"}
  BY DEF Action
<1> QED
  BY <1>1, <1>2 DEF SchemaViolated, SchemaKept

\* What an action has to be for the chain to let it through.
LEMMA LetThrough ==
  ASSUME NEW a \in Action, NEW restricted \in BOOLEAN,
         Evaluate(a, restricted) \in {"ALLOWED", "REQUIRES_CONFIRMATION"}
  PROVE  /\ Permitted(a, restricted)
         /\ SpecFor(a).risk = "high" => Evaluate(a, restricted) = "REQUIRES_CONFIRMATION"
<1> DEFINE rules == DefaultRules(restricted)
<1>1. PICK i \in 1..Len(rules) :
        /\ Evaluate(a, restricted) = Apply(rules[i], a)
        /\ \A j \in 1..(i - 1) : Apply(rules[j], a) = None
  BY FirstVerdict DEF None
<1>2. /\ rules[1] = "ToolAuthorization" /\ rules[2] = "DangerousCommand"
      /\ rules[3] = "ArgumentsSchema"
      /\ IF restricted THEN rules[4] = "PathRestriction" /\ rules[5] = "RiskLevel" /\ Len(rules) = 5
         ELSE rules[4] = "RiskLevel" /\ Len(rules) = 4
  BY DEF DefaultRules
<1> HIDE DEF rules
<1>3. i = Len(rules)
  <2>1. Apply(rules[i], a) \in {"ALLOWED", "REQUIRES_CONFIRMATION"}
    BY <1>1
  <2>2. CASE restricted
    <3>1. Len(rules) = 5
      BY <1>2, <2>2
    <3>2. i \in {1, 2, 3, 4, 5}
      BY <1>1, <3>1
    <3> QED
      BY <1>2, <2>1, <2>2, <3>2, RuleFacts DEF Apply, None, Raises
  <2>3. CASE ~restricted
    <3>1. Len(rules) = 4
      BY <1>2, <2>3
    <3>2. i \in {1, 2, 3, 4}
      BY <1>1, <3>1
    <3> QED
      BY <1>2, <2>1, <2>3, <3>2, RuleFacts DEF Apply, None, Raises
  <2> QED
    BY <2>2, <2>3
<1>4. \A j \in {1, 2, 3} : Apply(rules[j], a) = None
  BY <1>1, <1>2, <1>3
<1>5. restricted => Apply(rules[4], a) = None
  BY <1>1, <1>2, <1>3
<1>6. /\ ToolAuthorizationRule(a) = None /\ DangerousCommandRule(a) = None
      /\ ArgumentsSchemaRule(a) = None
  BY <1>2, <1>4 DEF Apply
<1>7. restricted => PathRestrictionRule(a) = None
  BY <1>2, <1>5 DEF Apply
<1>8. Evaluate(a, restricted) = RiskLevelRule(a)
  BY <1>1, <1>2, <1>3 DEF Apply
<1>9. Registered(a)
  BY <1>6 DEF ToolAuthorizationRule, None
<1>10. a.arguments.command \notin {"rm_unsafe"} \cup Rewritable
  BY <1>6 DEF DangerousCommandRule, None
<1>11. SchemaKept(a)
  BY <1>6, <1>9, SchemaFacts DEF ArgumentsSchemaRule, None
<1>12. restricted /\ "path" \in SpecFor(a).properties
         => a.arguments.path \notin {"outside", "unresolvable"}
  BY <1>7, <1>9 DEF PathRestrictionRule, None, Raises
<1> QED
  BY <1>8, <1>9, <1>10, <1>11, <1>12 DEF Permitted, RiskLevelRule

-----------------------------------------------------------------------------
(* The action on its way to a tool *)

\* The action has been judged, and let through, under the root that is kept as
\* judgedRooted, whatever the root of the process that runs it.
LetGo ==
  /\ action \in Action
  /\ verdict = Evaluate(action, judgedRooted)
  /\ verdict \in {"ALLOWED", "REQUIRES_CONFIRMATION"}

Judged ==
  /\ rooted \in BOOLEAN /\ judgedRooted \in BOOLEAN
  /\ step = "judging" => action \in Action
  /\ step \in {"awaiting", "executing"} => LetGo
  /\ result # None => LetGo /\ result # "INVALID_REQUEST" /\ step \in {"observed", "executor_raised"}
  /\ BuiltinFailuresReported

\* The steps before a verdict, and those that end a cycle without running a tool.
LEMMA NotRun ==
  ASSUME Judged, result = None, UNCHANGED <<rooted, judgedRooted, result>>,
         step' \notin {"judging", "awaiting", "executing", "executor_raised"}
  PROVE  Judged'
BY DEF Judged, BuiltinFailuresReported

\* What a tool does, once it is called: an action that was let through names a
\* tool of the registry, and of the tools of src/peon/tools/ only one that runs
\* out of memory gets the executor to raise.
LEMMA Run ==
  ASSUME Judged, NEW did \in Outcomes(action), RunTool(did)
  PROVE  /\ LetGo
         /\ result' \notin {"INVALID_REQUEST", None}
         /\ result' = "ValidationError" /\ action.tool \in Builtin => did = Raised("empty")
<1>1. LetGo /\ result' = RunResult(action, did) /\ judgedRooted \in BOOLEAN
  BY DEF RunTool, Judged
<1>2. Registered(action)
  BY <1>1, LetThrough DEF LetGo, Permitted
<1>3. action.tool \in Builtin => did \in {Succeeds, Fails("text"), Raised("text"), Raised("empty")}
  BY DEF Outcomes, Execute, CallShell, CallPath, WorkspaceRaises, SystemAnswer
<1>4. did.does \in {"succeed", "fail", "raise"}
  BY <1>3 DEF Outcomes, ToolOutcome, Succeeds, Fails, Raised
<1>5. result' \notin {"INVALID_REQUEST", None}
  BY <1>1, <1>2, <1>4 DEF RunResult, ErrorOrRaise, None
<1>6. result' = "ValidationError" /\ action.tool \in Builtin => did = Raised("empty")
  BY <1>1, <1>2, <1>3 DEF RunResult, ErrorOrRaise, Succeeds, Fails, Raised
<1> QED
  BY <1>1, <1>5, <1>6

LEMMA JudgedStep == Judged /\ [Next]_cycleVars => Judged'
<1> SUFFICES ASSUME Judged, [Next]_cycleVars PROVE Judged'
  OBVIOUS
<1>1. CASE InOneProcess /\ (Ask \/ Deny)
  <2>1. result = None
    BY <1>1 DEF Ask, Deny, Judged
  <2>2. UNCHANGED <<rooted, judgedRooted, result>> /\ step' \in {"attempting", "observed"}
    BY <1>1 DEF InOneProcess, Ask, Deny, ran
  <2> QED
    BY <2>1, <2>2, NotRun
<1>2. ASSUME NEW exchange \in Exchange, InOneProcess,
             Retry(exchange) \/ GiveUp(exchange) \/ AttemptRaises(exchange)
      PROVE  Judged'
  <2>1. result = None /\ step = "attempting"
    BY <1>2 DEF Retry, GiveUp, AttemptRaises, Attempt, Judged
  <2>2. /\ UNCHANGED <<rooted, judgedRooted, result>>
        /\ step' \in {"attempting", "reasoning_error", "reasoner_raised"}
    BY <1>2, <2>1 DEF InOneProcess, Retry, GiveUp, AttemptRaises, ran
  <2> QED
    BY <2>1, <2>2, NotRun
<1>3. CASE InOneProcess /\ DecideFinish
  <2>1. result = None /\ step = "attempting"
    BY <1>3 DEF DecideFinish, Attempt, Judged
  <2>2. UNCHANGED <<rooted, judgedRooted, result>> /\ step' = "finished"
    BY <1>3, <2>1 DEF InOneProcess, DecideFinish, ran
  <2> QED
    BY <2>1, <2>2, NotRun
<1>4. ASSUME NEW decided \in Action, InOneProcess, DecideAction(decided) PROVE Judged'
  BY <1>4 DEF InOneProcess, DecideAction, Attempt, ran, Judged, BuiltinFailuresReported
<1>5. CASE InOneProcess /\ Judge
  <2>1. /\ result = None /\ result' = None /\ action' = action /\ action \in Action
        /\ rooted' = rooted /\ judgedRooted' = rooted /\ rooted \in BOOLEAN
        /\ verdict' = Evaluate(action, rooted)
        /\ step' # "executor_raised"
    BY <1>5 DEF InOneProcess, Judge, ran, Judged
  <2>2. step' = "executing" => verdict' = "ALLOWED"
    BY <1>5 DEF Judge
  <2>3. step' = "awaiting" => verdict' = "REQUIRES_CONFIRMATION"
    BY <1>5 DEF Judge
  <2>4. step' # "judging"
    BY <1>5 DEF Judge
  <2> QED
    BY <2>1, <2>2, <2>3, <2>4 DEF Judged, LetGo, BuiltinFailuresReported
<1>6. CASE InOneProcess /\ Grant
  BY <1>6 DEF InOneProcess, Grant, ran, Judged, LetGo, BuiltinFailuresReported
<1>7. ASSUME NEW did \in Outcomes(action), InOneProcess, ExecuteTool(did) \/ ExecutorRaises(did)
      PROVE  Judged'
  <2>1. RunTool(did)
    BY <1>7 DEF ExecuteTool, ExecutorRaises
  <2>2. /\ UNCHANGED <<rooted, judgedRooted, action, verdict>>
        /\ outcome' = did
        /\ \/ step' = "observed"
           \/ step' = "executor_raised" /\ result' = "ValidationError"
    BY <1>7, <2>1 DEF InOneProcess, ExecuteTool, ExecutorRaises, RunTool
  <2> QED
    BY <2>1, <2>2, Run DEF Judged, LetGo, BuiltinFailuresReported
<1>8. CASE InOneProcess /\ NextCycle
  BY <1>8 DEF InOneProcess, NextCycle, Judged, LetGo, BuiltinFailuresReported, None
<1>9. CASE ResumeUnderOtherRoot
  BY <1>9 DEF ResumeUnderOtherRoot, ran, Judged, LetGo, BuiltinFailuresReported
<1>10. CASE UNCHANGED cycleVars
  BY <1>10 DEF cycleVars, ran, Judged, LetGo, BuiltinFailuresReported
<1> QED
  BY <1>1, <1>2, <1>3, <1>4, <1>5, <1>6, <1>7, <1>8, <1>9, <1>10 DEF Next, InOneProcess, Step

LEMMA JudgedAlways == Spec => []Judged
<1>1. Init => Judged
  BY DEF Init, Judged, BuiltinFailuresReported
<1> QED
  BY <1>1, JudgedStep, PTL DEF Spec

\* No tool is called with an action that a guardrail objects to, whatever the
\* tools and their schemas are, and a high-risk one only through a confirmation.
THEOREM OnlyJudgedRun == Spec => []ExecutionJudged
<1>1. Judged => ExecutionJudged
  BY LetThrough DEF Judged, LetGo, ExecutionJudged, None
<1> QED
  BY <1>1, JudgedAlways, PTL

\* The tools of src/peon/tools/ end in an observation, whatever their arguments
\* and the system's answer, unless memory runs out.
THEOREM BuiltinsReport == Spec => []BuiltinFailuresReported
<1>1. Judged => BuiltinFailuresReported
  BY DEF Judged
<1> QED
  BY <1>1, JudgedAlways, PTL

-----------------------------------------------------------------------------
(* The spans *)

\* The open spans, one by one, and what has been recorded.
Nested ==
  /\ step \in Steps
  /\ spans \in Seq(SpanNames)
  /\ Len(spans) = CASE step \in Over -> 0
                    [] step = "attempting" -> 3
                    [] step = "executing" -> 2
                    [] OTHER -> 1
  /\ step \notin Over => spans[1] \in Roots
  /\ step = "attempting" => spans[2] = "reasoner.decide" /\ spans[3] = "reasoner.decide.attempt"
  /\ step = "executing" => spans[2] = "executor.run"
  /\ recorded \subseteq SpanNames
  /\ recorded \ Roots = RecordedAt(step)
  /\ recorded \cap Roots # {} <=> step \in Escaped

\* The spans that are entered come behind those that are open.
LEMMA Entered ==
  ASSUME NEW names \in Seq(SpanNames), spans \in Seq(SpanNames), EnterSpans(names)
  PROVE  /\ spans' \in Seq(SpanNames) /\ recorded' = recorded
         /\ Len(spans') = Len(spans) + Len(names)
         /\ \A i \in 1..Len(spans) : spans'[i] = spans[i]
         /\ \A i \in 1..Len(names) : spans'[Len(spans) + i] = names[i]
<1>1. spans' = spans \o names /\ recorded' = recorded
  BY DEF EnterSpans, Started
<1>2. Len(spans) \in Nat /\ Len(names) \in Nat
  BY LenProperties
<1>3. /\ spans \o names \in Seq(SpanNames)
      /\ Len(spans \o names) = Len(spans) + Len(names)
      /\ \A i \in 1..(Len(spans) + Len(names)) :
           (spans \o names)[i] = IF i <= Len(spans) THEN spans[i] ELSE names[i - Len(spans)]
  BY ConcatProperties
<1>4. ASSUME NEW i \in 1..Len(spans) PROVE (spans \o names)[i] = spans[i]
  BY <1>2, <1>3
<1>5. ASSUME NEW i \in 1..Len(names) PROVE (spans \o names)[Len(spans) + i] = names[i]
  <2>1. /\ Len(spans) + i \in 1..(Len(spans) + Len(names))
        /\ ~(Len(spans) + i <= Len(spans)) /\ (Len(spans) + i) - Len(spans) = i
    BY <1>2
  <2> QED
    BY <2>1, <1>3
<1> QED
  BY <1>1, <1>3, <1>4, <1>5

\* The outermost n spans stay when the others are left.
LEMMA Kept ==
  ASSUME spans \in Seq(SpanNames), NEW n \in {0, 1}, n <= Len(spans)
  PROVE  /\ Left(spans, n) \in Seq(SpanNames)
         /\ Len(Left(spans, n)) = n
         /\ n = 1 => Left(spans, n)[1] = spans[1]
<1>1. \A i \in 1..n : spans[i] \in SpanNames
  BY ElementOfSeq, LenProperties
<1> QED
  BY <1>1, SubSeqProperties DEF Left

\* The names of two or three spans.
LEMMA NamesOfOpen ==
  ASSUME spans \in Seq(SpanNames)
  PROVE  /\ Len(spans) = 1 => NamesLeft(spans, 0) = {spans[1]}
         /\ Len(spans) = 2 => NamesLeft(spans, 0) = {spans[1], spans[2]}
         /\ Len(spans) = 3 => NamesLeft(spans, 0) = {spans[1], spans[2], spans[3]}
BY DEF NamesLeft

\* The calls that are made inside run or resume_confirmation.
LEMMA EnteredStep ==
  ASSUME Nested, Ask \/ Grant \/ Deny
  PROVE  Nested'
<1>1. CASE Ask
  <2> DEFINE names == <<"reasoner.decide", "reasoner.decide.attempt">>
  <2>1. names \in Seq(SpanNames)
    BY DEF SpanNames
  <2>2. EnterSpans(names) /\ step = "start" /\ step' = "attempting"
    BY <1>1 DEF Ask
  <2>3. Len(names) = 2 /\ names[1] = "reasoner.decide" /\ names[2] = "reasoner.decide.attempt"
    OBVIOUS
  <2>4. Len(spans) = 1 /\ spans \in Seq(SpanNames) /\ spans[1] \in Roots
    BY <2>2 DEF Nested, Over, Escaped
  <2> HIDE DEF names
  <2>5. /\ spans' \in Seq(SpanNames) /\ recorded' = recorded /\ Len(spans') = 3
        /\ spans'[1] = spans[1]
        /\ spans'[2] = "reasoner.decide" /\ spans'[3] = "reasoner.decide.attempt"
    <3>1. /\ spans' \in Seq(SpanNames) /\ recorded' = recorded /\ Len(spans') = 1 + 2
          /\ \A i \in 1..1 : spans'[i] = spans[i]
          /\ \A i \in 1..2 : spans'[1 + i] = names[i]
      BY <2>1, <2>2, <2>3, <2>4, Entered
    <3>2. 1 \in 1..1 /\ {1, 2} \subseteq 1..2 /\ 1 + 1 = 2 /\ 1 + 2 = 3
      OBVIOUS
    <3> QED
      BY <2>3, <3>1, <3>2
  <2> QED
    BY <2>2, <2>4, <2>5 DEF Nested, Steps, Over, Escaped, RecordedAt
<1>2. CASE Grant
  <2> DEFINE names == <<"runtime.resume_confirmation", "executor.run">>
  <2>1. names \in Seq(SpanNames)
    BY DEF SpanNames, Roots
  <2>2. EnterSpans(names) /\ step = "awaiting" /\ step' = "executing"
    BY <1>2 DEF Grant
  <2>3. Len(names) = 2 /\ names[1] = "runtime.resume_confirmation" /\ names[2] = "executor.run"
    OBVIOUS
  <2>4. Len(spans) = 0 /\ spans \in Seq(SpanNames)
    BY <2>2 DEF Nested, Over
  <2> HIDE DEF names
  <2>5. /\ spans' \in Seq(SpanNames) /\ recorded' = recorded /\ Len(spans') = 2
        /\ spans'[1] = "runtime.resume_confirmation" /\ spans'[2] = "executor.run"
    BY <2>1, <2>2, <2>3, <2>4, Entered
  <2> QED
    BY <2>2, <2>5 DEF Nested, Steps, Over, Escaped, RecordedAt, Roots
<1>3. CASE Deny
  <2> DEFINE names == <<"runtime.resume_confirmation">>
  <2>1. names \in Seq(SpanNames)
    BY DEF SpanNames, Roots
  <2>2. EnterSpans(names) /\ step = "awaiting" /\ step' = "observed"
    BY <1>3 DEF Deny
  <2>3. Len(names) = 1 /\ names[1] = "runtime.resume_confirmation"
    OBVIOUS
  <2>4. Len(spans) = 0 /\ spans \in Seq(SpanNames)
    BY <2>2 DEF Nested, Over
  <2> HIDE DEF names
  <2>5. /\ spans' \in Seq(SpanNames) /\ recorded' = recorded /\ Len(spans') = 1
        /\ spans'[1] = "runtime.resume_confirmation"
    BY <2>1, <2>2, <2>3, <2>4, Entered
  <2> QED
    BY <2>2, <2>5 DEF Nested, Steps, Over, Escaped, RecordedAt, Roots
<1> QED
  BY <1>1, <1>2, <1>3

\* Spans that are left without an exception, down to the root or with it.
LEMMA LeftStep ==
  ASSUME Nested, NEW n \in {0, 1}, LeaveSpans(n), step \notin Over,
         step' \in Steps \ Escaped, RecordedAt(step') = {},
         IF n = 0 THEN step' \in Over ELSE step' \in {"judging", "observed"}
  PROVE  Nested'
<1>1. /\ spans \in Seq(SpanNames) /\ Len(spans) >= 1 /\ spans[1] \in Roots
      /\ spans' = Left(spans, n) /\ recorded' = recorded
  BY DEF Nested, LeaveSpans
<1>2. /\ spans' \in Seq(SpanNames) /\ Len(spans') = n
      /\ n = 1 => spans'[1] = spans[1]
  <2>1. n <= Len(spans)
    BY <1>1, LenProperties
  <2> QED
    BY <1>1, <2>1, Kept
<1>3. recorded \ Roots = {} /\ recorded \cap Roots = {} /\ recorded \subseteq SpanNames
  BY DEF Nested, Over, Escaped, RecordedAt
<1>4. CASE n = 0
  BY <1>1, <1>2, <1>3, <1>4 DEF Nested, Over, Escaped
<1>5. CASE n = 1
  BY <1>1, <1>2, <1>3, <1>5 DEF Nested, Over, Escaped
<1> QED
  BY <1>4, <1>5

\* An exception that leaves all of the spans is recorded in each of them.
LEMMA UnwoundStep ==
  ASSUME Nested, UnwindSpans(0),
         \/ step = "attempting" /\ step' = "reasoner_raised"
         \/ step = "judging" /\ step' = "policy_raised"
         \/ step = "executing" /\ step' = "executor_raised"
  PROVE  Nested'
<1>1. /\ spans \in Seq(SpanNames) /\ Len(spans) >= 1 /\ spans[1] \in Roots
      /\ recorded \ Roots = {} /\ recorded \cap Roots = {} /\ recorded \subseteq SpanNames
  BY DEF Nested, Over, Escaped, RecordedAt
<1>2. spans' \in Seq(SpanNames) /\ Len(spans') = 0
  <2>1. spans' = Left(spans, 0) /\ 0 <= Len(spans)
    BY <1>1 DEF UnwindSpans
  <2> QED
    BY <1>1, <2>1, Kept
<1>3. NamesLeft(spans, 0) = {spans[1]} \cup RecordedAt(step')
  BY <1>1, NamesOfOpen DEF Nested, Over, Escaped, RecordedAt
<1>4. RecordedAt(step') \subseteq SpanNames \ Roots /\ Roots \subseteq SpanNames
  BY DEF RecordedAt, SpanNames, Roots
<1>5. recorded' = {spans[1]} \cup RecordedAt(step')
  BY <1>1, <1>3 DEF UnwindSpans
<1>6. step' \in Escaped /\ step' \in Over /\ step' \in Steps
  BY DEF Escaped, Over, Steps
<1> QED
  BY <1>1, <1>2, <1>4, <1>5, <1>6 DEF Nested, Over, Escaped

\* The error of the last attempt leaves one span with it, and run catches it.
LEMMA GivenUpStep ==
  ASSUME Nested, NEW exchange \in Exchange, GiveUp(exchange)
  PROVE  Nested'
<1>1. /\ step = "attempting" /\ step' = "reasoning_error"
      /\ spans' = Left(spans, 0) /\ recorded' = recorded \cup {"reasoner.decide"}
  BY DEF GiveUp, Attempt
<1>2. /\ spans \in Seq(SpanNames) /\ Len(spans) = 3
      /\ recorded \ Roots = {} /\ recorded \cap Roots = {} /\ recorded \subseteq SpanNames
  BY <1>1 DEF Nested, Over, Escaped, RecordedAt
<1>3. spans' \in Seq(SpanNames) /\ Len(spans') = 0
  BY <1>1, <1>2, Kept
<1> QED
  BY <1>1, <1>2, <1>3 DEF Nested, Over, Escaped, RecordedAt, Roots, SpanNames, Steps

\* The steps that neither enter nor leave a block.
LEMMA UntracedStep ==
  ASSUME Nested, UNCHANGED tracing, step' \in Steps,
         step' = step \/ {step, step'} \subseteq {"start", "judging", "observed"}
  PROVE  Nested'
BY DEF Nested, tracing, Over, Escaped, RecordedAt

LEMMA NestedStep == Nested /\ [Next]_cycleVars => Nested'
<1> SUFFICES ASSUME Nested, [Next]_cycleVars PROVE Nested'
  OBVIOUS
<1>1. CASE Ask \/ Grant \/ Deny
  BY <1>1, EnteredStep
<1>2. ASSUME NEW exchange \in Exchange, Retry(exchange) PROVE Nested'
  BY <1>2, UntracedStep DEF Retry, Nested
<1>3. ASSUME NEW exchange \in Exchange, GiveUp(exchange) PROVE Nested'
  BY <1>3, GivenUpStep
<1>4. ASSUME NEW exchange \in Exchange, AttemptRaises(exchange) PROVE Nested'
  BY <1>4, UnwoundStep DEF AttemptRaises, Attempt
<1>5. CASE DecideFinish
  <2>1. step = "attempting" /\ step' = "finished" /\ LeaveSpans(0)
    BY <1>5 DEF DecideFinish, Attempt
  <2> QED
    BY <2>1, LeftStep DEF Steps, Over, Escaped, RecordedAt
<1>6. ASSUME NEW decided \in Action, DecideAction(decided) PROVE Nested'
  <2>1. step = "attempting" /\ step' = "judging" /\ LeaveSpans(1)
    BY <1>6 DEF DecideAction, Attempt
  <2> QED
    BY <2>1, LeftStep DEF Steps, Over, Escaped, RecordedAt
<1>7. CASE Judge
  <2>1. CASE step' = "executing"
    <3> DEFINE names == <<"executor.run">>
    <3>1. names \in Seq(SpanNames)
      BY DEF SpanNames
    <3>2. EnterSpans(names) /\ step = "judging"
      BY <1>7, <2>1 DEF Judge
    <3>3. Len(names) = 1 /\ names[1] = "executor.run"
      OBVIOUS
    <3>4. Len(spans) = 1 /\ spans \in Seq(SpanNames) /\ spans[1] \in Roots
      BY <3>2 DEF Nested, Over, Escaped
    <3> HIDE DEF names
    <3>5. /\ spans' \in Seq(SpanNames) /\ recorded' = recorded /\ Len(spans') = 2
          /\ spans'[1] = spans[1] /\ spans'[2] = "executor.run"
      <4>1. /\ spans' \in Seq(SpanNames) /\ recorded' = recorded /\ Len(spans') = 1 + 1
            /\ \A i \in 1..1 : spans'[i] = spans[i] /\ spans'[1 + i] = names[i]
        BY <3>1, <3>2, <3>3, <3>4, Entered
      <4>2. 1 \in 1..1 /\ 1 + 1 = 2
        OBVIOUS
      <4> QED
        BY <3>3, <4>1, <4>2
    <3> QED
      BY <2>1, <3>2, <3>4, <3>5 DEF Nested, Steps, Over, Escaped, RecordedAt
  <2>2. CASE step' = "awaiting"
    <3>1. step = "judging" /\ LeaveSpans(0)
      BY <1>7, <2>2 DEF Judge
    <3> QED
      BY <2>2, <3>1, LeftStep DEF Steps, Over, Escaped, RecordedAt
  <2>3. CASE step' = "observed"
    <3>1. step = "judging" /\ UNCHANGED tracing
      BY <1>7, <2>3 DEF Judge
    <3> QED
      BY <2>3, <3>1, UntracedStep DEF Steps
  <2>4. CASE step' = "policy_raised"
    BY <1>7, <2>4, UnwoundStep DEF Judge
  <2> QED
    BY <1>7, <2>1, <2>2, <2>3, <2>4 DEF Judge
<1>8. ASSUME NEW did, ExecuteTool(did) PROVE Nested'
  <2>1. step = "executing" /\ step' = "observed" /\ LeaveSpans(1)
    BY <1>8 DEF ExecuteTool, RunTool
  <2> QED
    BY <2>1, LeftStep DEF Steps, Over, Escaped, RecordedAt
<1>9. ASSUME NEW did, ExecutorRaises(did) PROVE Nested'
  BY <1>9, UnwoundStep DEF ExecutorRaises, RunTool
<1>10. CASE NextCycle
  BY <1>10, UntracedStep DEF NextCycle, Steps
<1>11. CASE ResumeUnderOtherRoot \/ UNCHANGED cycleVars
  BY <1>11, UntracedStep DEF ResumeUnderOtherRoot, cycleVars, Nested
<1> QED
  BY <1>1, <1>2, <1>3, <1>4, <1>5, <1>6, <1>7, <1>8, <1>9, <1>10, <1>11
  DEF Next, InOneProcess, Step

LEMMA NestedAlways == Spec => []Nested
<1>1. Init => Nested
  <2>1. <<"runtime.run">> \in Seq(SpanNames) /\ Len(<<"runtime.run">>) = 1
    BY DEF SpanNames, Roots
  <2> QED
    BY <2>1 DEF Init, Nested, Steps, Over, Escaped, Roots, RecordedAt
<1> QED
  BY <1>1, NestedStep, PTL DEF Spec

\* Spans nest as the calls do, all are closed when run or resume_confirmation is
\* left, and an exception is recorded in those it has crossed and in no other.
THEOREM SpansTrue == Spec => []SpansTellTheTruth
<1>1. Nested => SpansTellTheTruth
  <2> SUFFICES ASSUME Nested PROVE SpansTellTheTruth
    OBVIOUS
  <2>1. CASE step \in Over
    <3>1. spans \in Seq(SpanNames) /\ Len(spans) = 0
      BY <2>1 DEF Nested, Over, Escaped
    <3>2. spans = <<>>
      BY <3>1, EmptySeq
    <3> QED
      BY <2>1, <3>2 DEF Nested, SpansTellTheTruth
  <2>2. CASE step \notin Over
    <3>1. spans \in Seq(SpanNames) /\ Len(spans) >= 1 /\ spans[1] \in Roots
      BY <2>2 DEF Nested
    <3>2. spans # <<>>
      BY <3>1
    <3>3. /\ Head(spans) = spans[1]
          /\ Tail(spans) \in Seq(SpanNames) /\ Len(Tail(spans)) = Len(spans) - 1
          /\ \A i \in 1..Len(Tail(spans)) : Tail(spans)[i] = spans[i + 1]
      BY <3>1, <3>2, HeadTailProperties
    <3>4. TracedAt(step) \in Seq(SpanNames) /\ Len(TracedAt(step)) = Len(Tail(spans))
      BY <2>2, <3>3 DEF TracedAt, Nested, SpanNames
    <3>5. \A i \in 1..Len(Tail(spans)) : Tail(spans)[i] = TracedAt(step)[i]
      BY <2>2, <3>3 DEF TracedAt, Nested
    <3>6. Tail(spans) = TracedAt(step)
      BY <3>3, <3>4, <3>5, SeqEqual
    <3> QED
      BY <2>2, <3>1, <3>2, <3>3, <3>6 DEF Nested, SpansTellTheTruth
  <2> QED
    BY <2>1, <2>2
<1> QED
  BY <1>1, NestedAlways, PTL

-----------------------------------------------------------------------------
(* The other variables *)

\* What a chain can come to, and the one rule that can have suggested a rewrite.
LEMMA VerdictFacts ==
  ASSUME NEW a \in Action, NEW restricted \in BOOLEAN
  PROVE  /\ Evaluate(a, restricted) \in Verdicts \cup {None, Raises}
         /\ Evaluate(a, restricted) = "REWRITE" => a.arguments.command \in Rewritable
<1>1. CASE Evaluate(a, restricted) = None
  BY <1>1 DEF None
<1>2. CASE Evaluate(a, restricted) # None
  <2>1. PICK i \in 1..Len(DefaultRules(restricted)) :
          Evaluate(a, restricted) = Apply(DefaultRules(restricted)[i], a)
    BY <1>2, FirstVerdict
  <2>2. DefaultRules(restricted)[i] \in {"ToolAuthorization", "DangerousCommand",
                                         "ArgumentsSchema", "PathRestriction", "RiskLevel"}
    BY DEF DefaultRules
  <2>3. Apply(DefaultRules(restricted)[i], a) \in
          {ToolAuthorizationRule(a), DangerousCommandRule(a), ArgumentsSchemaRule(a),
           PathRestrictionRule(a), RiskLevelRule(a)}
    BY <2>2 DEF Apply
  <2>4. DangerousCommandRule(a) = "REWRITE" => a.arguments.command \in Rewritable
    BY DEF DangerousCommandRule, None
  <2> QED
    BY <2>1, <2>3, <2>4, RuleFacts DEF Verdicts, None, Raises
<1> QED
  BY <1>1, <1>2

Observations == {"EXECUTION_RESULT", "EXECUTION_ERROR", "POLICY_REJECTION", "CONFIRMATION_DENIED"}

\* The variables that neither Attempted nor Nested knows, and what a suggestion
\* never is.
Typed ==
  /\ action \in Action \cup {NoAction}
  /\ verdict \in Verdicts \cup {None, Raises}
  /\ outcome \in ToolOutcome \cup {NoOutcome}
  /\ result \in ExecutorErrors \cup {"RESULT", "ValidationError", None}
  /\ observation \in Observations \cup {None}
  /\ suggestion \in Action /\ suggestion.arguments.command \notin Rewritable

LEMMA NoActionFacts == NoAction \in Action /\ NoAction.arguments.command = "absent"
BY DEF NoAction, Action, Commands, Paths, Extras

LEMMA SuggestedFacts ==
  ASSUME NEW a \in Action
  PROVE  Suggested(a) \in Action /\ Suggested(a).arguments.command \in {"text", "unrunnable"}
BY DEF Suggested, Action, Commands

LEMMA OutcomeFacts ==
  ASSUME NEW a \in Action, NEW did \in Outcomes(a)
  PROVE  did \in ToolOutcome
<1>1. CASE a.tool \in Builtin
  <2>1. did \in {Succeeds, Fails("text"), Raised("text"), Raised("empty")}
    BY <1>1 DEF Outcomes, Execute, CallShell, CallPath, WorkspaceRaises, SystemAnswer
  <2> QED
    BY <2>1 DEF ToolOutcome, Succeeds, Fails, Raised
<1>2. CASE a.tool \notin Builtin
  BY <1>2 DEF Outcomes
<1> QED
  BY <1>1, <1>2

LEMMA TypedStep == Judged /\ Typed /\ [Next]_cycleVars => Typed'
<1> SUFFICES ASSUME Judged, Typed, [Next]_cycleVars PROVE Typed'
  OBVIOUS
<1>1. CASE Ask \/ Grant \/ DecideFinish
  BY <1>1 DEF Ask, Grant, DecideFinish, ran, Typed
<1>2. ASSUME NEW exchange \in Exchange,
             Retry(exchange) \/ GiveUp(exchange) \/ AttemptRaises(exchange)
      PROVE  Typed'
  BY <1>2 DEF Retry, GiveUp, AttemptRaises, ran, Typed
<1>3. ASSUME NEW decided \in Action, DecideAction(decided) PROVE Typed'
  BY <1>3 DEF DecideAction, ran, Typed
<1>4. CASE Judge
  <2>1. action \in Action /\ rooted \in BOOLEAN /\ verdict' = Evaluate(action, rooted)
    BY <1>4 DEF Judge, Judged
  <2>2. verdict' \in Verdicts \cup {None, Raises}
    BY <2>1, VerdictFacts
  <2>3. suggestion' \in {suggestion, NoAction, Suggested(action)}
    BY <1>4 DEF Judge
  <2>4. suggestion' \in Action /\ suggestion'.arguments.command \notin Rewritable
    BY <2>1, <2>3, NoActionFacts, SuggestedFacts DEF Typed, Rewritable
  <2>5. observation' \in {observation, "POLICY_REJECTION"} /\ UNCHANGED <<action, outcome, result>>
    BY <1>4 DEF Judge, ran
  <2> QED
    BY <2>2, <2>4, <2>5 DEF Typed, Observations
<1>5. CASE Deny
  BY <1>5 DEF Deny, ran, Typed, Observations
<1>6. ASSUME NEW did \in Outcomes(action), ExecuteTool(did) \/ ExecutorRaises(did)
      PROVE  Typed'
  <2>1. RunTool(did) /\ action \in Action
    BY <1>6 DEF ExecuteTool, ExecutorRaises, RunTool, Judged, LetGo
  <2>2. did \in ToolOutcome /\ outcome' = did
    BY <2>1, OutcomeFacts DEF RunTool
  <2>3. did.does \in {"succeed", "fail", "raise"}
    BY <2>2 DEF ToolOutcome
  <2>4. result' \in ExecutorErrors \cup {"RESULT", "ValidationError"}
    BY <2>1, <2>3 DEF RunTool, RunResult, ErrorOrRaise, ExecutorErrors
  <2>5. observation' \in {observation, "EXECUTION_RESULT", "EXECUTION_ERROR"}
    BY <1>6 DEF ExecuteTool, ExecutorRaises, ObservationOf
  <2>6. UNCHANGED <<action, verdict, suggestion>>
    BY <1>6 DEF ExecuteTool, ExecutorRaises
  <2> QED
    BY <2>2, <2>4, <2>5, <2>6 DEF Typed, Observations
<1>7. CASE NextCycle
  BY <1>7 DEF NextCycle, Typed
<1>8. CASE ResumeUnderOtherRoot \/ UNCHANGED cycleVars
  BY <1>8 DEF ResumeUnderOtherRoot, cycleVars, ran, Typed
<1> QED
  BY <1>1, <1>2, <1>3, <1>4, <1>5, <1>6, <1>7, <1>8 DEF Next, InOneProcess, Step

LEMMA TypedAlways == Spec => []Typed
<1>1. Init => Typed
  BY NoActionFacts DEF Init, Typed, Rewritable
<1> QED
  BY <1>1, TypedStep, JudgedAlways, PTL DEF Spec

\* Type correctness of a cycle.
THEOREM CycleTypes == Spec => []CycleTypeOK
<1>1. Attempted /\ Judged /\ Nested /\ Typed => CycleTypeOK
  BY NoActionFacts DEF Attempted, Judged, Nested, Typed, CycleTypeOK, Observations
<1> QED
  BY <1>1, AttemptedAlways, JudgedAlways, NestedAlways, TypedAlways, PTL

\* A model that takes up the rewrite it was offered is never offered another,
\* whatever the tools and their schemas are.
THEOREM RewritesConverge == Spec => RewriteConverges
<1>1. Judged /\ Typed /\ [Next]_cycleVars
        => [verdict' = "REWRITE" /\ verdict # "REWRITE" => action # suggestion]_cycleVars
  <2> SUFFICES ASSUME Judged, Typed, Next, verdict' = "REWRITE", verdict # "REWRITE"
               PROVE  action # suggestion
    OBVIOUS
  <2>1. CASE Judge
    <3>1. action \in Action /\ rooted \in BOOLEAN /\ verdict' = Evaluate(action, rooted)
      BY <2>1 DEF Judge, Judged
    <3> QED
      BY <3>1, VerdictFacts DEF Typed
  <2>2. CASE ~Judge
    <3>1. verdict' = verdict \/ verdict' = None
      BY <2>2 DEF Next, InOneProcess, Step, Ask, Retry, GiveUp, AttemptRaises, DecideFinish,
                  DecideAction, Grant, Deny, ExecuteTool, ExecutorRaises, NextCycle,
                  ResumeUnderOtherRoot
    <3> QED
      BY <3>1 DEF None
  <2> QED
    BY <2>1, <2>2
<1> QED
  BY <1>1, JudgedAlways, TypedAlways, PTL DEF Spec, RewriteConverges
=============================================================================
