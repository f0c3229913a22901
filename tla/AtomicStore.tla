---------------------------- MODULE AtomicStore ----------------------------
(***************************************************************************)
(* What a file of the storage promises to the processes that save to it.   *)
(* A save takes effect at one instant between its call and its end, whole  *)
(* or not at all, and once.  A save that returns has taken effect; one     *)
(* that is lost, to an exception or with its process, may have or may not  *)
(* have.  Each save either adds its item to what is stored or replaces it. *)
(***************************************************************************)
EXTENDS Naturals, Sequences

CONSTANTS
  Processes,   \* who may save
  Items,       \* what may be saved
  Appends      \* whether a save adds to the stored items or replaces them

VARIABLES
  content,      \* the stored items
  call,         \* per process: the save it is in, if any
  acknowledged  \* the items whose save has returned

atomicVars == <<content, call, acknowledged>>

NoCall == [state |-> "idle", item |-> 0]

Init ==
  /\ content = <<>>
  /\ call = [p \in Processes |-> NoCall]
  /\ acknowledged = {}

Call(p, item) ==
  /\ call[p].state = "idle"
  /\ call' = [call EXCEPT ![p] = [state |-> "called", item |-> item]]
  /\ UNCHANGED <<content, acknowledged>>

TakeEffect(p) ==
  /\ call[p].state = "called"
  /\ content' = IF Appends THEN Append(content, call[p].item) ELSE <<call[p].item>>
  /\ call' = [call EXCEPT ![p].state = "done"]
  /\ UNCHANGED acknowledged

Return(p) ==
  /\ call[p].state = "done"
  /\ acknowledged' = acknowledged \cup {call[p].item}
  /\ call' = [call EXCEPT ![p] = NoCall]
  /\ UNCHANGED content

Lose(p) ==
  /\ call[p].state # "idle"
  /\ call' = [call EXCEPT ![p] = NoCall]
  /\ UNCHANGED <<content, acknowledged>>

Next ==
  \E p \in Processes :
    (\E item \in Items : Call(p, item)) \/ TakeEffect(p) \/ Return(p) \/ Lose(p)

Spec == Init /\ [][Next]_atomicVars
=============================================================================
