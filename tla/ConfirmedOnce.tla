---------------------------- MODULE ConfirmedOnce ----------------------------
(***************************************************************************)
(* What the confirmation gate promises of a high-risk action, whatever     *)
(* crashes and resumes happen.  Its request is open from the moment it is  *)
(* issued; the action is run only after the user has granted it, and then  *)
(* once at most.  A grant that was lost with its process before anything   *)
(* was run may leave the request open, to be asked again.  A request that  *)
(* is dropped (refused, replaced, or lost) never opens again.              *)
(***************************************************************************)
EXTENDS Naturals

CONSTANT Requests

VARIABLES
  phase,       \* per request: where it stands
  executions   \* per request: how often its action was run

Phases == {"unissued", "open", "granted", "executed", "dropped"}

Init ==
  /\ phase = [r \in Requests |-> "unissued"]
  /\ executions = [r \in Requests |-> 0]

Move(r, from, to) ==
  /\ phase[r] \in from
  /\ phase' = [phase EXCEPT ![r] = to]
  /\ UNCHANGED executions

Issue(r)  == Move(r, {"unissued"}, "open")
Grant(r)  == Move(r, {"open"}, "granted")
Reopen(r) == Move(r, {"granted"}, "open")
Drop(r)   == Move(r, {"open", "granted"}, "dropped")

Execute(r) ==
  /\ phase[r] = "granted"
  /\ phase' = [phase EXCEPT ![r] = "executed"]
  /\ executions' = [executions EXCEPT ![r] = @ + 1]

Next == \E r \in Requests : Issue(r) \/ Grant(r) \/ Reopen(r) \/ Drop(r) \/ Execute(r)

Spec == Init /\ [][Next]_<<phase, executions>>
=============================================================================
