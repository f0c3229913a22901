------------------------------ MODULE MCPeonCli ------------------------------
(***************************************************************************)
(* Instances of PeonCli for TLC: the stages a process may be killed at.    *)
(***************************************************************************)
EXTENDS PeonCli

\* Everywhere.
AnyStage == Busy

\* Everywhere but between save_checkpoint and persist_events.
OutsideSaving == Busy \ EventStages

\* Only between the two writes of a pause.
WhilePausing == {"pause_events"}

\* Nowhere.
NoStage == {}
=============================================================================
