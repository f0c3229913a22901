------------------------------- MODULE Policy -------------------------------
(***************************************************************************)
(* src/peon/policy.py and src/peon/guardrails.py: the chain of rules that  *)
(* judges an action.  Each rule gives a verdict or None, and the first     *)
(* verdict of the chain is the policy's.                                   *)
(*                                                                         *)
(* An action names a tool and gives values to arguments.  Of a value the   *)
(* rules only tell its form, for each of the two arguments they know:      *)
(*   "absent", "not_text"  the key is missing, the value is no string      *)
(*   "blank"               an empty string or blanks only                  *)
(*   command               "rm_unsafe"  rm -rf of ".", "..", "/", "~" or   *)
(*                                      of a target that starts / or ~     *)
(*                         "rm_target"  rm -rf of any other single target  *)
(*                         "rm_unrunnable"  the same, with a NUL in the    *)
(*                                      target: nothing can run it         *)
(*                         "unrunnable" any other command with a NUL, or   *)
(*                                      a character that has no encoding   *)
(*                         "text"       any other command                  *)
(*   path                  "inside" or "outside" the configured root once  *)
(*                         resolved; "unresolvable" when Path.resolve      *)
(*                         raises on it (a NUL in it)                      *)
(* "extra" stands for an argument that no tool declares.                   *)
(***************************************************************************)
EXTENDS Naturals, Sequences, FiniteSets

CONSTANTS
  Tools,           \* the names in the ToolRegistry
  SpecOf           \* the ToolSpec of each of them

ToolSpec == [risk : {"low", "medium", "high"},
             properties : SUBSET {"command", "path"},
             required : SUBSET {"command", "path"},
             closed : BOOLEAN]            \* additionalProperties: false

ASSUME SpecAssumption == SpecOf \in [Tools -> ToolSpec]

Unregistered == "unregistered"
ASSUME NamesAssumption == Unregistered \notin Tools

Rewritable == {"rm_target", "rm_unrunnable"}
Commands == {"absent", "not_text", "blank", "text", "unrunnable", "rm_unsafe"} \cup Rewritable
Paths    == {"absent", "not_text", "blank", "inside", "outside", "unresolvable"}
Extras   == {"absent", "text"}

Action == [tool : Tools \cup {Unregistered},
           arguments : [command : Commands, path : Paths, extra : Extras]]

Verdicts == {"ALLOWED", "DENIED", "REQUIRES_CONFIRMATION", "REWRITE"}
None == "None"
Raises == "ValueError"

Registered(action) == action.tool \in Tools
SpecFor(action) == SpecOf[action.tool]

-----------------------------------------------------------------------------
(* The rules *)

ToolAuthorizationRule(action) ==
  IF Registered(action) THEN None ELSE "DENIED"

DangerousCommandRule(action) ==
  CASE action.arguments.command = "rm_unsafe" -> "DENIED"
    [] action.arguments.command \in Rewritable -> "REWRITE"
    [] OTHER -> None

\* What the rewrite suggests: the same call with "rm -rf -- ./target", which
\* no longer has the form the rule looks for, but still has the target's NUL.
SuggestedUnchanged(action) == action
Suggested(action) ==
  [action EXCEPT !.arguments.command = IF @ = "rm_target" THEN "text" ELSE "unrunnable"]

\* _validate: a required field missing, an undeclared field where the schema
\* is closed, a declared field that is no string.
SchemaViolatedTypeOnly(arguments, spec) ==
  \E field \in spec.properties : arguments[field] = "not_text"
SchemaViolated(arguments, spec) ==
  \/ \E field \in spec.required : arguments[field] = "absent"
  \/ /\ spec.closed
     /\ \E field \in DOMAIN arguments \ spec.properties : arguments[field] # "absent"
  \/ \E field \in spec.properties : arguments[field] = "not_text"

ArgumentsSchemaRule(action) ==
  IF Registered(action) /\ SchemaViolated(action.arguments, SpecFor(action)) THEN "DENIED" ELSE None

PathRestrictionRule(action) ==
  IF ~Registered(action) \/ "path" \notin SpecFor(action).properties THEN None
  ELSE CASE action.arguments.path = "outside" -> "DENIED"
         [] action.arguments.path = "unresolvable" -> Raises
         [] OTHER -> None

RiskLevelRule(action) ==
  IF ~Registered(action) THEN None
  ELSE IF SpecFor(action).risk = "high" THEN "REQUIRES_CONFIRMATION" ELSE "ALLOWED"

-----------------------------------------------------------------------------
(* The chain *)

\* _default_rules, in the order the comment there calls invariant; rooted says
\* whether PolicyEngine was given a workspace_root.
DefaultRulesRiskFirst(rooted) ==
  IF rooted
  THEN <<"ToolAuthorization", "RiskLevel", "DangerousCommand", "ArgumentsSchema", "PathRestriction">>
  ELSE <<"ToolAuthorization", "RiskLevel", "DangerousCommand", "ArgumentsSchema">>
DefaultRules(rooted) ==
  IF rooted
  THEN <<"ToolAuthorization", "DangerousCommand", "ArgumentsSchema", "PathRestriction", "RiskLevel">>
  ELSE <<"ToolAuthorization", "DangerousCommand", "ArgumentsSchema", "RiskLevel">>

Apply(rule, action) ==
  CASE rule = "ToolAuthorization" -> ToolAuthorizationRule(action)
    [] rule = "DangerousCommand"  -> DangerousCommandRule(action)
    [] rule = "ArgumentsSchema"   -> ArgumentsSchemaRule(action)
    [] rule = "PathRestriction"   -> PathRestrictionRule(action)
    [] rule = "RiskLevel"         -> RiskLevelRule(action)

\* evaluate: the first rule that does not pass.  None is the AssertionError of a
\* chain in which every rule passes, Raises an exception out of a rule.
Evaluate(action, rooted) ==
  LET rules    == DefaultRules(rooted)
      deciding == {i \in 1..Len(rules) : Apply(rules[i], action) # None}
  IN  IF deciding = {} THEN None
      ELSE Apply(rules[CHOOSE i \in deciding : \A j \in deciding : i <= j], action)
=============================================================================
