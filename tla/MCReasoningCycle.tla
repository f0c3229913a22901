-------------------------- MODULE MCReasoningCycle --------------------------
(***************************************************************************)
(* ReasoningCycle over the tools of src/peon/tools/, and one more of a     *)
(* kind the schema rule supports: high risk, a closed schema, an optional  *)
(* argument.                                                               *)
(***************************************************************************)
EXTENDS ReasoningCycle

MCTools == Builtin \cup {"closed_tool"}

MCSpecOf ==
  [tool \in MCTools |->
     IF tool \in Builtin THEN BuiltinSpec(tool)
     ELSE [risk |-> "high", properties |-> {"command", "path"}, required |-> {"path"},
           closed |-> TRUE]]
=============================================================================
