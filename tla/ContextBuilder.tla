--------------------------- MODULE ContextBuilder ---------------------------
(***************************************************************************)
(* How src/peon/context_builder.py reads an event log: the observations of *)
(* the events that follow the most recent MISSION_CREATED (all of them     *)
(* when there is none), in order.  The event log itself never says which   *)
(* mission an event belongs to.  A sublist of the log is the set of its    *)
(* positions there.                                                        *)
(***************************************************************************)
EXTENDS Naturals, Sequences, FiniteSets

IsMissionStart(event) == event.type = "MISSION_CREATED"
IsObservation(event) == event.type = "OBSERVATION_PRODUCED"

MissionStarts(events) == {i \in 1..Len(events) : IsMissionStart(events[i])}

CurrentMissionEventsUnfiltered(events) == 1..Len(events)
CurrentMissionEvents(events) ==
  {i \in 1..Len(events) : \A start \in MissionStarts(events) : start <= i}

CurrentObservations(events) ==
  {i \in CurrentMissionEvents(events) : IsObservation(events[i])}

\* The n-th of some positions, in the order of the log.
Nth(positions, n) ==
  CHOOSE i \in positions : Cardinality({j \in positions : j <= i}) = n

ToObservation(event) == event.observation

BuildFromEventLog(events) ==
  LET produced == CurrentObservations(events)
  IN  [n \in 1..Cardinality(produced) |-> ToObservation(events[Nth(produced, n)])]
=============================================================================
