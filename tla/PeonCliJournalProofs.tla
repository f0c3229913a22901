------------------------ MODULE PeonCliJournalProofs ------------------------
(***************************************************************************)
(* Proofs about what the log of PeonCli tells, in memory and on file: the  *)
(* observations of the mission, and the chain of its transitions.          *)
(***************************************************************************)
EXTENDS PeonCliProofs, ContextBuilderProofs

-----------------------------------------------------------------------------
(* The inductive invariants *)

\* What has been persisted is part of the log, and a process that has ended
\* has taken its log with it.
LogKept ==
  /\ persisted <= Len(log)
  /\ stage \in Idle => log = <<>> /\ persisted = 0

\* The events file as the next call of persist_events will leave it.
Whole == eventsFile \o NewEvents(log, persisted)

(***************************************************************************)
(* The file to be tells the lives of the missions in order, up to the      *)
(* status and the observations of the mission in memory.                   *)
(***************************************************************************)
Told ==
  /\ Cardinality(MissionStarts(Whole)) <= started
  /\ Chained(Whole)
  /\ stage \in Busy => /\ EndsIn(Whole, mission.status)
                       /\ BuildFromEventLog(Whole) = history
                       /\ BuildFromEventLog(log) = history

\* The file that is tells the same of the checkpoint, but for the moment
\* between the two writes, when the checkpoint is already the mission's.
Matching ==
  /\ stage \in EventStages => checkpoint.mission = mission /\ savedHistory = history
  /\ (stage \notin EventStages /\ checkpoint # NoCheckpoint /\ Readable(eventsFile))
       => /\ EndsIn(eventsFile, checkpoint.mission.status)
          /\ BuildFromEventLog(eventsFile) = savedHistory

JournalInv == TypeInv /\ LogKept /\ Told /\ Matching

\* A process is killed between save_checkpoint and persist_events.
Torn == stage \in EventStages /\ stage' = "killed"

NeverTorn == [][~Torn]_vars

-----------------------------------------------------------------------------
(* What a log tells of the status, and events behind it *)

\* Events of which one is a transition, and none else tells of a status.
OneMove(events, from, to) ==
  \E k \in 1..Len(events) :
    /\ IsTransition(events[k]) /\ events[k].from = from /\ events[k].to = to
    /\ \A i \in 1..Len(events) : i # k => ~IsStatusEvent(events[i])

\* What is told of a position in a log is told of it in a longer one.
LEMMA TellsLastJoined ==
  ASSUME NEW S, NEW log0 \in Seq(S), NEW events \in Seq(S),
         NEW j \in 1..Len(log0), NEW i \in 1..(Len(log0) + 1)
  PROVE  TellsLast(log0 \o events, j, i) <=> TellsLast(log0, j, i)
<1>1. Len(log0) \in Nat /\ \A k \in 1..Len(log0) : (log0 \o events)[k] = log0[k]
  BY JoinedFacts
<1>2. \A k \in (j + 1)..(i - 1) : k \in 1..Len(log0)
  BY <1>1
<1> QED
  BY <1>1, <1>2 DEF TellsLast

\* The beginning of a chained log is chained.
LEMMA ChainedPrefix ==
  ASSUME NEW S, NEW log0 \in Seq(S), NEW events \in Seq(S), Chained(log0 \o events)
  PROVE  Chained(log0)
<1> DEFINE all == log0 \o events
<1>1. /\ Len(log0) \in Nat /\ Len(events) \in Nat /\ Len(all) = Len(log0) + Len(events)
      /\ \A k \in 1..Len(log0) : all[k] = log0[k]
  BY JoinedFacts
<1>2. SUFFICES ASSUME NEW i \in 1..Len(log0), IsTransition(log0[i])
               PROVE  \E j \in 1..Len(log0) :
                        TellsLast(log0, j, i) /\ StatusTold(log0[j]) = log0[i].from
  BY DEF Chained
<1>3. i \in 1..Len(all) /\ all[i] = log0[i]
  BY <1>1
<1>4. PICK j \in 1..Len(all) : TellsLast(all, j, i) /\ StatusTold(all[j]) = all[i].from
  BY <1>2, <1>3 DEF Chained
<1>5. j \in 1..Len(log0) /\ i \in 1..(Len(log0) + 1)
  BY <1>1, <1>4 DEF TellsLast
<1> QED
  BY <1>1, <1>3, <1>4, <1>5, TellsLastJoined

\* Events that tell of no status leave the chain and its end as they are.
LEMMA QuietKeepsChain ==
  ASSUME NEW S, NEW log0 \in Seq(S), NEW events \in Seq(S),
         \A i \in 1..Len(events) : ~IsStatusEvent(events[i]), Chained(log0)
  PROVE  /\ Chained(log0 \o events)
         /\ \A status : EndsIn(log0, status) => EndsIn(log0 \o events, status)
<1> DEFINE all == log0 \o events
<1>1. /\ Len(log0) \in Nat /\ Len(events) \in Nat /\ Len(all) = Len(log0) + Len(events)
      /\ \A k \in 1..Len(log0) : all[k] = log0[k]
      /\ \A k \in 1..Len(all) : k \notin 1..Len(log0) => ~IsStatusEvent(all[k])
  BY JoinedFacts
<1>2. Chained(all)
  <2> SUFFICES ASSUME NEW i \in 1..Len(all), IsTransition(all[i])
               PROVE  \E j \in 1..Len(all) : TellsLast(all, j, i) /\ StatusTold(all[j]) = all[i].from
    BY DEF Chained
  <2>1. i \in 1..Len(log0)
    BY <1>1 DEF IsStatusEvent
  <2>2. PICK j \in 1..Len(log0) : TellsLast(log0, j, i) /\ StatusTold(log0[j]) = log0[i].from
    BY <1>1, <2>1 DEF Chained
  <2>3. TellsLast(all, j, i)
    BY <1>1, <2>1, <2>2, TellsLastJoined
  <2> QED
    BY <1>1, <2>1, <2>2, <2>3
<1>3. ASSUME NEW status, EndsIn(log0, status) PROVE EndsIn(all, status)
  <2>1. PICK j \in 1..Len(log0) :
          TellsLast(log0, j, Len(log0) + 1) /\ IsTransition(log0[j]) /\ log0[j].to = status
    BY <1>3 DEF EndsIn
  <2>2. TellsLast(all, j, Len(log0) + 1)
    BY <1>1, <2>1, TellsLastJoined
  <2>3. TellsLast(all, j, Len(all) + 1)
    <3>1. \A k \in (j + 1)..Len(all) : k \in (j + 1)..Len(log0) \/ k \notin 1..Len(log0)
      BY <1>1
    <3>2. \A k \in (j + 1)..Len(all) : k \in 1..Len(all)
      BY <1>1
    <3> QED
      BY <1>1, <2>2, <3>1, <3>2 DEF TellsLast
  <2> QED
    BY <1>1, <2>1, <2>3 DEF EndsIn
<1> QED
  BY <1>2, <1>3

\* A transition from the status that the chain ends in is one more link of it.
LEMMA MoveKeepsChain ==
  ASSUME NEW S, NEW log0 \in Seq(S), NEW events \in Seq(S), NEW from, NEW to,
         OneMove(events, from, to), Chained(log0), EndsIn(log0, from)
  PROVE  Chained(log0 \o events) /\ EndsIn(log0 \o events, to)
<1> DEFINE all == log0 \o events
           n == Len(log0)
<1>1. PICK k \in 1..Len(events) :
        /\ IsTransition(events[k]) /\ events[k].from = from /\ events[k].to = to
        /\ \A i \in 1..Len(events) : i # k => ~IsStatusEvent(events[i])
  BY DEF OneMove
<1>2. /\ n \in Nat /\ Len(events) \in Nat /\ Len(all) = n + Len(events)
      /\ \A i \in 1..n : all[i] = log0[i]
      /\ all[n + k] = events[k] /\ n + k \in 1..Len(all)
  BY JoinedFacts
<1>3. \A i \in 1..Len(all) : i \notin 1..n /\ i # n + k => ~IsStatusEvent(all[i])
  <2> SUFFICES ASSUME NEW i \in 1..Len(all), i \notin 1..n, i # n + k
               PROVE  ~IsStatusEvent(all[i])
    OBVIOUS
  <2>1. i - n \in 1..Len(events) /\ all[i] = events[i - n]
    BY JoinedFacts
  <2>2. i - n # k
    BY <1>2
  <2> QED
    BY <1>1, <2>1, <2>2
<1>4. PICK last \in 1..n : TellsLast(log0, last, n + 1) /\ IsTransition(log0[last]) /\ log0[last].to = from
  BY DEF EndsIn
<1> HIDE DEF all, n
<1>5. Chained(all)
  <2> SUFFICES ASSUME NEW i \in 1..Len(all), IsTransition(all[i])
               PROVE  \E j \in 1..Len(all) : TellsLast(all, j, i) /\ StatusTold(all[j]) = all[i].from
    BY DEF Chained
  <2>1. CASE i \in 1..n
    <3>1. PICK j \in 1..n : TellsLast(log0, j, i) /\ StatusTold(log0[j]) = log0[i].from
      BY <1>2, <2>1 DEF Chained, n
    <3>2. TellsLast(all, j, i)
      BY <1>2, <2>1, <3>1, TellsLastJoined DEF all, n
    <3> QED
      BY <1>2, <2>1, <3>1, <3>2
  <2>2. CASE i = n + k
    <3>1. TellsLast(all, last, n + 1)
      BY <1>2, <1>4, TellsLastJoined DEF all, n
    <3>2. \A l \in (last + 1)..(i - 1) : l \in (last + 1)..n \/ (l \in 1..Len(all) /\ l \notin 1..n /\ l # n + k)
      BY <1>2, <2>2
    <3>3. TellsLast(all, last, i)
      BY <1>2, <1>3, <2>2, <3>1, <3>2 DEF TellsLast
    <3>4. StatusTold(all[last]) = all[i].from /\ last \in 1..Len(all)
      BY <1>1, <1>2, <1>4, <2>2 DEF StatusTold, IsTransition, IsMissionStart
    <3> QED
      BY <3>3, <3>4
  <2> QED
    BY <1>3, <2>1, <2>2 DEF IsStatusEvent
<1>6. EndsIn(all, to)
  <2>1. IsTransition(all[n + k]) /\ all[n + k].to = to
    BY <1>1, <1>2
  <2>2. TellsLast(all, n + k, Len(all) + 1)
    <3>1. \A l \in (n + k + 1)..(Len(all) + 1 - 1) : l \in 1..Len(all) /\ l \notin 1..n /\ l # n + k
      BY <1>2
    <3> QED
      BY <1>2, <1>3, <2>1, <3>1 DEF TellsLast, IsStatusEvent
  <2> QED
    BY <1>2, <2>1, <2>2 DEF EndsIn
<1> QED
  BY <1>5, <1>6 DEF all

\* A mission that begins, and leaves CREATED, is one more life in the chain.
LEMMA StartKeepsChain ==
  ASSUME NEW S, NEW log0 \in Seq(S), NEW start \in S, NEW move \in S,
         IsMissionStart(start), IsTransition(move), move.from = "CREATED", Chained(log0)
  PROVE  /\ Chained(log0 \o <<start, move>>)
         /\ EndsIn(log0 \o <<start, move>>, move.to)
         /\ MissionStarts(log0 \o <<start, move>>) = MissionStarts(log0) \cup {Len(log0) + 1}
<1> DEFINE all == log0 \o <<start, move>>
           n == Len(log0)
<1>1. <<start, move>> \in Seq(S) /\ Len(<<start, move>>) = 2
  OBVIOUS
<1>2. /\ n \in Nat /\ Len(all) = n + 2
      /\ \A i \in 1..n : all[i] = log0[i]
      /\ all[n + 1] = start /\ all[n + 2] = move
  <2>1. n \in Nat /\ Len(all) = n + 2 /\ \A i \in 1..n : all[i] = log0[i]
    BY <1>1, JoinedFacts
  <2>2. \A i \in 1..Len(<<start, move>>) : all[n + i] = <<start, move>>[i]
    BY <1>1, JoinedFacts
  <2> QED
    BY <1>1, <2>1, <2>2
<1> HIDE DEF all
<1>3. ~IsTransition(start) /\ ~IsMissionStart(move)
  BY DEF IsTransition, IsMissionStart
<1>4. Chained(all)
  <2> SUFFICES ASSUME NEW i \in 1..Len(all), IsTransition(all[i])
               PROVE  \E j \in 1..Len(all) : TellsLast(all, j, i) /\ StatusTold(all[j]) = all[i].from
    BY DEF Chained
  <2>1. CASE i \in 1..n
    <3>1. PICK j \in 1..n : TellsLast(log0, j, i) /\ StatusTold(log0[j]) = log0[i].from
      BY <1>2, <2>1 DEF Chained
    <3>2. i \in 1..(n + 1)
      BY <1>2, <2>1
    <3>3. \A events \in Seq(S) : TellsLast(log0 \o events, j, i) <=> TellsLast(log0, j, i)
      BY <3>2, TellsLastJoined
    <3>4. TellsLast(all, j, i)
      BY <1>1, <3>1, <3>3 DEF all
    <3> QED
      BY <1>2, <2>1, <3>1, <3>4
  <2>2. CASE i = n + 2
    <3>1. TellsLast(all, n + 1, i) /\ StatusTold(all[n + 1]) = all[i].from
      BY <1>2, <2>2 DEF TellsLast, StatusTold, IsStatusEvent
    <3> QED
      BY <1>2, <3>1
  <2> QED
    BY <1>2, <1>3, <2>1, <2>2
<1>5. EndsIn(all, move.to)
  <2>1. TellsLast(all, n + 2, Len(all) + 1)
    BY <1>2 DEF TellsLast, IsStatusEvent
  <2> QED
    BY <1>2, <2>1 DEF EndsIn
<1>6. MissionStarts(all) = MissionStarts(log0) \cup {n + 1}
  BY <1>2, <1>3 DEF MissionStarts
<1> QED
  BY <1>4, <1>5, <1>6 DEF all

-----------------------------------------------------------------------------
(* The log and the file to be, step by step *)

\* What is logged comes at the end of what the file is to be.
LEMMA WholeExtended ==
  ASSUME JournalTypes, persisted <= Len(log), NEW events \in Seq(LoggedEvent),
         log' = log \o events, UNCHANGED <<persisted, eventsFile>>
  PROVE  /\ Whole \in Seq(LoggedEvent)
         /\ Whole' = Whole \o events
         /\ persisted' <= Len(log')
<1> DEFINE new == NewEvents(log, persisted)
           joined == log \o events
           longer == NewEvents(joined, persisted)
<1>1. /\ log \in Seq(LoggedEvent) /\ eventsFile \in Seq(LoggedEvent) /\ persisted \in Nat
      /\ Len(log) \in Nat /\ Len(events) \in Nat /\ joined \in Seq(LoggedEvent)
      /\ Len(joined) = Len(log) + Len(events)
      /\ \A i \in 1..Len(joined) : joined[i] = IF i <= Len(log) THEN log[i] ELSE events[i - Len(log)]
  BY ConcatProperties, LenProperties DEF JournalTypes
<1> HIDE DEF joined
<1>2. /\ new \in Seq(LoggedEvent) /\ Len(new) = Len(log) - persisted
      /\ \A i \in 1..Len(new) : new[i] = log[persisted + i]
  <2>1. \A i \in persisted + 1 .. Len(log) : log[i] \in LoggedEvent
    BY <1>1
  <2> QED
    BY <1>1, <2>1, SubSeqProperties DEF NewEvents
<1>3. /\ longer \in Seq(LoggedEvent) /\ Len(longer) = Len(joined) - persisted
      /\ \A i \in 1..Len(longer) : longer[i] = joined[persisted + i]
  <2>1. \A i \in persisted + 1 .. Len(joined) : joined[i] \in LoggedEvent
    BY <1>1
  <2>2. persisted <= Len(joined)
    BY <1>1
  <2> QED
    BY <1>1, <2>1, <2>2, SubSeqProperties DEF NewEvents
<1> HIDE DEF new, longer
<1>4. longer = new \o events
  <2>1. /\ new \o events \in Seq(LoggedEvent) /\ Len(new \o events) = Len(longer)
        /\ \A i \in 1..Len(longer) :
             (new \o events)[i] = IF i <= Len(new) THEN new[i] ELSE events[i - Len(new)]
    <3>1. \A s, t \in Seq(LoggedEvent) :
            /\ s \o t \in Seq(LoggedEvent) /\ Len(s \o t) = Len(s) + Len(t)
            /\ \A i \in 1..(Len(s) + Len(t)) : (s \o t)[i] = IF i <= Len(s) THEN s[i] ELSE t[i - Len(s)]
      BY ConcatProperties
    <3>2. Len(longer) = Len(new) + Len(events)
      BY <1>1, <1>2, <1>3
    <3> QED
      BY <1>1, <1>2, <3>1, <3>2
  <2>2. \A i \in 1..Len(longer) : longer[i] = (new \o events)[i]
    <3> TAKE i \in 1..Len(longer)
    <3>1. CASE i <= Len(new)
      <4>1. i \in 1..Len(new) /\ persisted + i \in 1..Len(joined) /\ persisted + i <= Len(log)
        BY <1>1, <1>2, <1>3, <3>1
      <4>2. longer[i] = joined[persisted + i] /\ joined[persisted + i] = log[persisted + i]
        BY <1>1, <1>3, <4>1
      <4>3. new[i] = log[persisted + i] /\ (new \o events)[i] = new[i]
        BY <1>2, <2>1, <3>1, <4>1
      <4> QED
        BY <4>2, <4>3
    <3>2. CASE ~(i <= Len(new))
      <4>1. persisted + i \in 1..Len(joined) /\ ~(persisted + i <= Len(log))
            /\ persisted + i - Len(log) = i - Len(new)
        BY <1>1, <1>2, <1>3, <3>2
      <4>2. joined[persisted + i] = events[persisted + i - Len(log)]
        BY <1>1, <4>1
      <4> QED
        BY <1>3, <2>1, <3>2, <4>1, <4>2
    <3> QED
      BY <3>1, <3>2
  <2> QED
    BY <1>3, <2>1, <2>2, SeqEqual
<1>5. Whole = eventsFile \o new /\ Whole' = eventsFile \o longer
  BY DEF Whole, new, longer, joined
<1>6. eventsFile \o (new \o events) = (eventsFile \o new) \o events
  <2>1. \A s, t, u \in Seq(LoggedEvent) : (s \o t) \o u = s \o (t \o u)
    BY ConcatAssociative
  <2> QED
    BY <1>1, <1>2, <2>1
<1>7. Whole \in Seq(LoggedEvent)
  BY <1>1, <1>2, <1>5, ConcatProperties
<1>8. persisted' <= Len(log')
  BY <1>1 DEF joined
<1> QED
  BY <1>4, <1>5, <1>6, <1>7, <1>8

\* Nothing is to be persisted of an empty log.
LEMMA NothingNew ==
  ASSUME JournalTypes
  PROVE  /\ NewEvents(log, Len(log)) = <<>>
         /\ eventsFile \o NewEvents(log, Len(log)) = eventsFile
         /\ eventsFile \o NewEvents(<<>>, 0) = eventsFile
         /\ eventsFile \o NewEvents(eventsFile, Len(eventsFile)) = eventsFile
<1>1. /\ Len(log) \in Nat /\ Len(eventsFile) \in Nat /\ Len(<<>>) = 0
      /\ eventsFile \in Seq(LoggedEvent)
  BY LenProperties DEF JournalTypes
<1>2. \A n \in Nat : \A events : SubSeq(events, n + 1, n) = <<>>
  BY SubSeqEmpty
<1>3. /\ NewEvents(log, Len(log)) = <<>> /\ NewEvents(<<>>, 0) = <<>>
      /\ NewEvents(eventsFile, Len(eventsFile)) = <<>>
  BY <1>1, <1>2 DEF NewEvents
<1> QED
  BY <1>1, <1>3, ConcatEmptySeq

\* What a step in memory leaves alone.
OnDisk == <<persisted, disk, started>>

\* A step in memory that logs events and no observation, one of them the
\* transition to the mission's new status, if it is another one.
LEMMA MovedKeeps ==
  ASSUME JournalInv, NEW events \in Seq(LoggedEvent), Mute(events),
         \/ OneMove(events, mission.status, mission'.status)
         \/ mission'.status = mission.status /\ \A i \in 1..Len(events) : ~IsStatusEvent(events[i]),
         NothingRecorded(events),
         UNCHANGED OnDisk, stage \in Busy \ EventStages, stage' \in Busy \ EventStages
  PROVE  LogKept' /\ Told' /\ Matching'
<1>1. /\ JournalTypes /\ persisted <= Len(log) /\ log \in Seq(LoggedEvent)
      /\ log' = log \o events /\ history' = history
      /\ UNCHANGED <<persisted, eventsFile, checkpoint, savedHistory, started>>
  BY DEF JournalInv, TypeInv, TypeOK, LogKept, NothingRecorded, OnDisk, disk, JournalTypes
<1>2. PICK w \in Seq(LoggedEvent) : w = Whole
  BY <1>1, WholeExtended
<1>3. Whole' = w \o events /\ persisted' <= Len(log')
  BY <1>1, <1>2, WholeExtended
<1>4. /\ Chained(w) /\ EndsIn(w, mission.status) /\ Cardinality(MissionStarts(w)) <= started
      /\ BuildFromEventLog(w) = history /\ BuildFromEventLog(log) = history
  BY <1>2 DEF JournalInv, Told
<1>5. Chained(w \o events) /\ EndsIn(w \o events, mission'.status)
  BY <1>4, MoveKeepsChain, QuietKeepsChain
<1>6. /\ MissionStarts(w \o events) = MissionStarts(w)
      /\ BuildFromEventLog(w \o events) = history
      /\ BuildFromEventLog(log \o events) = history
  BY <1>1, <1>4, StartsKept, BuildKept DEF Mute
<1>7. Told'
  BY <1>1, <1>3, <1>4, <1>5, <1>6 DEF Told
<1>8. stage' \notin Idle
  BY DEF Idle, Busy, CheckpointStages, EventStages, RuntimeStages, CliStages
<1> QED
  BY <1>1, <1>3, <1>7, <1>8 DEF LogKept, Matching, JournalInv

\* A step in memory that records an observation behind such events.
LEMMA ObservedKeeps ==
  ASSUME JournalInv, NEW events \in Seq(LoggedEvent), Mute(events),
         OneMove(events, mission.status, mission'.status),
         NEW observation \in Observation, RecordObservation(observation, events),
         UNCHANGED OnDisk, stage \in Busy \ EventStages, stage' \in Busy \ EventStages
  PROVE  LogKept' /\ Told' /\ Matching'
<1> DEFINE event == Produced(observation)
           all == Append(events, event)
<1>1. /\ JournalTypes /\ persisted <= Len(log) /\ log \in Seq(LoggedEvent)
      /\ log' = log \o all /\ history' = Append(history, observation)
      /\ UNCHANGED <<persisted, eventsFile, checkpoint, savedHistory, started>>
  BY DEF JournalInv, TypeInv, TypeOK, LogKept, RecordObservation, OnDisk, disk, JournalTypes
<1>2. /\ event \in LoggedEvent /\ IsObservation(event) /\ ~IsStatusEvent(event)
      /\ ~IsMissionStart(event) /\ ToObservation(event) = observation
  BY DEF Produced, LoggedEvent, IsObservation, IsMissionStart, IsTransition, IsStatusEvent, ToObservation
<1> HIDE DEF event
<1>3. /\ all \in Seq(LoggedEvent) /\ Len(all) = Len(events) + 1 /\ Len(events) \in Nat
      /\ \A i \in 1..Len(events) : all[i] = events[i]
      /\ all[Len(events) + 1] = event
  BY <1>2, AppendProperties, LenProperties
<1> HIDE DEF all
<1>4. PICK w \in Seq(LoggedEvent) : w = Whole
  BY <1>1, <1>3, WholeExtended
<1>5. Whole' = w \o all /\ persisted' <= Len(log')
  BY <1>1, <1>3, <1>4, WholeExtended
<1>6. /\ Chained(w) /\ EndsIn(w, mission.status) /\ Cardinality(MissionStarts(w)) <= started
      /\ BuildFromEventLog(w) = history /\ BuildFromEventLog(log) = history
  BY <1>4 DEF JournalInv, Told
<1>7. OneMove(all, mission.status, mission'.status)
  <2>1. PICK k \in 1..Len(events) :
          /\ IsTransition(events[k]) /\ events[k].from = mission.status /\ events[k].to = mission'.status
          /\ \A i \in 1..Len(events) : i # k => ~IsStatusEvent(events[i])
    BY DEF OneMove
  <2>2. k \in 1..Len(all) /\ all[k] = events[k]
    BY <1>3
  <2>3. \A i \in 1..Len(all) : i # k => ~IsStatusEvent(all[i])
    <3>1. \A i \in 1..Len(all) : i \in 1..Len(events) \/ i = Len(events) + 1
      BY <1>3
    <3> QED
      BY <1>2, <1>3, <2>1, <3>1
  <2> QED
    BY <2>1, <2>2, <2>3 DEF OneMove
<1>8. Chained(w \o all) /\ EndsIn(w \o all, mission'.status)
  BY <1>3, <1>6, <1>7, MoveKeepsChain
<1>9. MissionStarts(w \o all) = MissionStarts(w)
  <2>1. \A i \in 1..Len(all) : ~IsMissionStart(all[i])
    BY <1>2, <1>3 DEF Mute
  <2> QED
    BY <1>3, <2>1, StartsKept
<1>10. \A seq \in Seq(LoggedEvent) :
         BuildFromEventLog(seq \o all) = Append(BuildFromEventLog(seq), observation)
  BY <1>2, BuildRecorded DEF all
<1>11. Told'
  BY <1>1, <1>5, <1>6, <1>8, <1>9, <1>10 DEF Told
<1>12. stage' \notin Idle
  BY DEF Idle, Busy, CheckpointStages, EventStages, RuntimeStages, CliStages
<1> QED
  BY <1>1, <1>5, <1>11, <1>12 DEF LogKept, Matching, JournalInv

\* What is on file already is as well told as what is to be.
LEMMA FileOfWhole ==
  ASSUME JournalInv
  PROVE  Chained(eventsFile) /\ Cardinality(MissionStarts(eventsFile)) <= started
<1>1. /\ log \in Seq(LoggedEvent) /\ eventsFile \in Seq(LoggedEvent) /\ persisted \in Nat
      /\ Len(log) \in Nat /\ \A i \in persisted + 1 .. Len(log) : log[i] \in LoggedEvent
  BY LenProperties DEF JournalInv, TypeInv, TypeOK, JournalTypes
<1>2. PICK new \in Seq(LoggedEvent) : Whole = eventsFile \o new
  <2>1. NewEvents(log, persisted) \in Seq(LoggedEvent)
    BY <1>1, SubSeqProperties DEF NewEvents
  <2> QED
    BY <2>1 DEF Whole
<1>3. Chained(eventsFile)
  BY <1>1, <1>2, ChainedPrefix DEF JournalInv, Told
<1>4. /\ MissionStarts(eventsFile) \subseteq MissionStarts(eventsFile \o new)
      /\ Len(eventsFile \o new) \in Nat
  BY <1>1, <1>2, JoinedFacts DEF MissionStarts
<1>5. /\ IsFiniteSet(MissionStarts(eventsFile \o new))
      /\ Cardinality(MissionStarts(eventsFile \o new)) \in Nat
  BY <1>4, PositionFacts DEF MissionStarts
<1>6. /\ Cardinality(MissionStarts(eventsFile)) <= Cardinality(MissionStarts(eventsFile \o new))
      /\ Cardinality(MissionStarts(eventsFile)) \in Nat
  BY <1>4, <1>5, FS_Subset, FS_CardinalityType
<1>7. started \in Nat
  BY MissionsAssumption DEF JournalInv, TypeInv, TypeOK, ControlTypes
<1> QED
  BY <1>2, <1>3, <1>5, <1>6, <1>7 DEF JournalInv, Told

\* A process that ends with nothing left to save, or with a file that cannot be
\* read any more, leaves the file as it is.
LEMMA EndedKeeps ==
  ASSUME JournalInv, stage' \in Idle, log' = <<>>, persisted' = 0, UNCHANGED <<disk, started>>,
         stage \in EventStages => ~Readable(eventsFile)
  PROVE  LogKept' /\ Told' /\ Matching'
<1>1. /\ JournalTypes /\ log \in Seq(LoggedEvent) /\ eventsFile \in Seq(LoggedEvent) /\ persisted <= Len(log)
      /\ UNCHANGED <<checkpoint, savedHistory, eventsFile, started>>
  BY DEF JournalInv, TypeInv, TypeOK, LogKept, JournalTypes, disk
<1>2. /\ stage' \notin Busy /\ stage' \notin EventStages
  BY DEF Idle, Busy, CheckpointStages, EventStages, RuntimeStages, CliStages
<1>3. Whole' = eventsFile
  BY <1>1, NothingNew DEF Whole
<1>4. Chained(eventsFile) /\ Cardinality(MissionStarts(eventsFile)) <= started
  BY FileOfWhole
<1> QED
  BY <1>1, <1>2, <1>3, <1>4 DEF LogKept, Told, Matching, JournalInv

-----------------------------------------------------------------------------
(* What the handlers log *)

\* The types of the events that say nothing of a mission's beginning.
NoteType == PlainType \ {"MISSION_CREATED"}

\* What the events of the handlers are.
LEMMA EventFacts ==
  /\ \A type \in NoteType : /\ Event(type) \in LoggedEvent
                            /\ ~IsStatusEvent(Event(type)) /\ ~IsMissionStart(Event(type))
                            /\ ~IsObservation(Event(type))
  /\ \A m, event : /\ IsTransition(Transitioned(m, event))
                   /\ ~IsMissionStart(Transitioned(m, event)) /\ ~IsObservation(Transitioned(m, event))
                   /\ Transitioned(m, event).from = m.status
                   /\ Transitioned(m, event).to = Transition(m.status, event)
BY PlainEvent DEF NoteType, PlainType, Event, Transitioned, IsStatusEvent, IsTransition, IsMissionStart, IsObservation

\* One note and a transition.
LEMMA NotedMove ==
  ASSUME NEW m \in Mission, NEW event, NEW s \in MissionStatus, Transition(m.status, event) = s,
         NEW type \in NoteType
  PROVE  LET events == <<Event(type), Transitioned(m, event)>>
         IN  events \in Seq(LoggedEvent) /\ Mute(events) /\ OneMove(events, m.status, s)
<1>1. PICK note \in LoggedEvent : /\ note = Event(type) /\ ~IsStatusEvent(note)
                                 /\ ~IsMissionStart(note) /\ ~IsObservation(note)
  BY EventFacts
<1>2. PICK move \in LoggedEvent : /\ move = Transitioned(m, event) /\ IsTransition(move)
                                 /\ ~IsMissionStart(move) /\ ~IsObservation(move)
                                 /\ move.from = m.status /\ move.to = s
  BY EventFacts, TransitionEvent
<1> DEFINE events == <<note, move>>
<1>3. events \in Seq(LoggedEvent) /\ Len(events) = 2 /\ events[1] = note /\ events[2] = move
  OBVIOUS
<1> HIDE DEF events
<1>4. Mute(events)
  BY <1>1, <1>2, <1>3 DEF Mute
<1>5. OneMove(events, m.status, s)
  BY <1>1, <1>2, <1>3 DEF OneMove
<1> QED
  BY <1>1, <1>2, <1>3, <1>4, <1>5 DEF events

\* Two notes and a transition.
LEMMA TwiceNotedMove ==
  ASSUME NEW m \in Mission, NEW event, NEW s \in MissionStatus, Transition(m.status, event) = s,
         NEW first \in NoteType, NEW second \in NoteType
  PROVE  LET events == <<Event(first), Event(second), Transitioned(m, event)>>
         IN  events \in Seq(LoggedEvent) /\ Mute(events) /\ OneMove(events, m.status, s)
<1>1. PICK note1 \in LoggedEvent : /\ note1 = Event(first) /\ ~IsStatusEvent(note1)
                                  /\ ~IsMissionStart(note1) /\ ~IsObservation(note1)
  BY EventFacts
<1>2. PICK note2 \in LoggedEvent : /\ note2 = Event(second) /\ ~IsStatusEvent(note2)
                                  /\ ~IsMissionStart(note2) /\ ~IsObservation(note2)
  BY EventFacts
<1>3. PICK move \in LoggedEvent : /\ move = Transitioned(m, event) /\ IsTransition(move)
                                 /\ ~IsMissionStart(move) /\ ~IsObservation(move)
                                 /\ move.from = m.status /\ move.to = s
  BY EventFacts, TransitionEvent
<1> DEFINE events == <<note1, note2, move>>
<1>4. /\ events \in Seq(LoggedEvent) /\ Len(events) = 3
      /\ events[1] = note1 /\ events[2] = note2 /\ events[3] = move
  OBVIOUS
<1> HIDE DEF events
<1>5. Mute(events)
  BY <1>1, <1>2, <1>3, <1>4 DEF Mute
<1>6. OneMove(events, m.status, s)
  BY <1>1, <1>2, <1>3, <1>4 DEF OneMove
<1> QED
  BY <1>1, <1>2, <1>3, <1>4, <1>5, <1>6 DEF events

\* The same, and one more note.
LEMMA MoveThenNote ==
  ASSUME NEW events \in Seq(LoggedEvent), NEW from, NEW to, Mute(events), OneMove(events, from, to),
         NEW type \in NoteType
  PROVE  LET more == Append(events, Event(type))
         IN  more \in Seq(LoggedEvent) /\ Mute(more) /\ OneMove(more, from, to)
<1>1. PICK note \in LoggedEvent : /\ note = Event(type) /\ ~IsStatusEvent(note)
                                 /\ ~IsMissionStart(note) /\ ~IsObservation(note)
  BY EventFacts
<1> DEFINE more == Append(events, note)
<1>2. /\ more \in Seq(LoggedEvent) /\ Len(more) = Len(events) + 1 /\ Len(events) \in Nat
      /\ \A i \in 1..Len(events) : more[i] = events[i]
      /\ more[Len(events) + 1] = note
  BY AppendProperties, LenProperties
<1> HIDE DEF more
<1>3. \A i \in 1..Len(more) : i \in 1..Len(events) \/ i = Len(events) + 1
  BY <1>2
<1>4. Mute(more)
  BY <1>1, <1>2, <1>3 DEF Mute
<1>5. OneMove(more, from, to)
  <2>1. PICK k \in 1..Len(events) :
          /\ IsTransition(events[k]) /\ events[k].from = from /\ events[k].to = to
          /\ \A i \in 1..Len(events) : i # k => ~IsStatusEvent(events[i])
    BY DEF OneMove
  <2>2. k \in 1..Len(more) /\ more[k] = events[k]
    BY <1>2
  <2>3. \A i \in 1..Len(more) : i # k => ~IsStatusEvent(more[i])
    BY <1>1, <1>2, <1>3, <2>1
  <2> QED
    BY <2>1, <2>2, <2>3 DEF OneMove
<1> QED
  BY <1>1, <1>2, <1>4, <1>5 DEF more

\* A handler of the running process logs events behind the others, one of them
\* the transition to the mission's new status, and at most one observation.
Logs ==
  /\ stage \in Busy \ EventStages /\ stage' \in Busy \ EventStages
  /\ UNCHANGED OnDisk
  /\ \E events \in Seq(LoggedEvent) :
       /\ Mute(events)
       /\ \/ /\ OneMove(events, mission.status, mission'.status)
             /\ \/ NothingRecorded(events)
                \/ \E observation \in Observation : RecordObservation(observation, events)
          \/ /\ mission'.status = mission.status
             /\ \A i \in 1..Len(events) : ~IsStatusEvent(events[i])
             /\ NothingRecorded(events)

\* The handlers that log, and go on.
Handler ==
  \/ BeginCycle \/ ExhaustIterations \/ FailOnReasoningError \/ FinishSuccess \/ FinishFailure
  \/ \E verdict \in {"DENIED", "REWRITE"}, reason \in Texts : RejectAction(verdict, reason)
  \/ AllowAction \/ RequestConfirmation
  \/ \E text \in Texts : ExecutionSucceeds(text) \/ ExecutionFails(text)
  \/ Grant \/ Deny

\* One case per handler.
LEMMA HandlerLogs == TypeInv /\ Handler => Logs
<1> SUFFICES ASSUME TypeInv, Handler PROVE Logs
  OBVIOUS
<1> USE DEF TypeInv, TypeOK, ControlTypes, Control, StatusByStage, disk, OnDisk
<1> DEFINE InMemory == stage \in Busy \ EventStages /\ stage' \in Busy \ EventStages
<1> USE DEF Busy, CheckpointStages, EventStages, RuntimeStages, CliStages
<1>1. CASE BeginCycle
  <2> DEFINE events == <<Event("CONTEXT_BUILT")>>
  <2>1. "CONTEXT_BUILT" \in NoteType
    BY DEF NoteType, PlainType
  <2>2. PICK note \in LoggedEvent : /\ note = Event("CONTEXT_BUILT") /\ ~IsStatusEvent(note)
                                   /\ ~IsMissionStart(note) /\ ~IsObservation(note)
    BY <2>1, EventFacts
  <2>3. events = <<note>>
    BY <2>2
  <2>4. events \in Seq(LoggedEvent) /\ Len(events) = 1 /\ events[1] = note
    BY <2>3
  <2> HIDE DEF events
  <2>5. Mute(events) /\ \A i \in 1..Len(events) : ~IsStatusEvent(events[i])
    BY <2>2, <2>4 DEF Mute
  <2>6. mission'.status = mission.status /\ NothingRecorded(events) /\ InMemory
        /\ UNCHANGED OnDisk
    BY <1>1, WithNextIteration DEF BeginCycle, events
  <2> QED
    BY <2>4, <2>5, <2>6 DEF Logs
<1>2. CASE ExhaustIterations
  <2> DEFINE event == Simple("max_iterations_reached")
             events == <<Event("MAX_ITERATIONS_REACHED"), Transitioned(mission, event)>>
             over == Advance(mission, event)
  <2>1. over \in Mission /\ over.status = "MAX_ITERATIONS"
    BY <1>2, Advanced, TransitionFacts DEF ExhaustIterations, MissionStatus
  <2>2. mission' = [over EXCEPT !.iteration = @ + 1] /\ stage = "reasoning"
        /\ stage' = LoopHead(mission') /\ NothingRecorded(events) /\ UNCHANGED OnDisk
    BY <1>2 DEF ExhaustIterations, counters
  <2>3. /\ events \in Seq(LoggedEvent) /\ Mute(events)
        /\ OneMove(events, mission.status, "MAX_ITERATIONS")
    BY <2>2, NotedMove, TransitionFacts DEF MissionStatus, NoteType, PlainType
  <2> HIDE DEF over, events
  <2>4. mission'.status = "MAX_ITERATIONS"
    BY <2>1, <2>2, WithNextIteration
  <2>5. InMemory
    BY <2>2 DEF LoopHead
  <2> QED
    BY <2>2, <2>3, <2>4, <2>5 DEF Logs
<1>3. CASE FailOnReasoningError
  <2> DEFINE event == Simple("mission_failed")
             events == <<Event("MISSION_FAILED"), Transitioned(mission, event)>>
  <2>1. mission'.status = "FAILED" /\ stage = "deciding"
    BY <1>3, Advanced, TransitionFacts DEF FailOnReasoningError, MissionStatus
  <2>2. /\ events \in Seq(LoggedEvent) /\ Mute(events)
        /\ OneMove(events, mission.status, mission'.status)
    BY <2>1, NotedMove, TransitionFacts DEF MissionStatus, NoteType, PlainType
  <2>3. InMemory /\ NothingRecorded(events) /\ UNCHANGED OnDisk
    BY <1>3 DEF FailOnReasoningError, LoopHead, counters
  <2> HIDE DEF events
  <2> QED
    BY <2>2, <2>3 DEF Logs
<1>4. ASSUME NEW kind, NEW s \in MissionStatus, NEW type \in NoteType,
             Transition("REASONING", Simple(kind)) = s, FinishMission(Simple(kind), type)
      PROVE  Logs
  <2> DEFINE event == Simple(kind)
             events == <<Event("DECISION_RECEIVED"), Event(type), Transitioned(mission, event)>>
  <2>1. mission'.status = s /\ stage = "deciding" /\ mission.status = "REASONING"
    BY <1>4, Advanced DEF FinishMission
  <2>2. /\ events \in Seq(LoggedEvent) /\ Mute(events)
        /\ OneMove(events, mission.status, s)
    BY <1>4, <2>1, TwiceNotedMove DEF NoteType, PlainType
  <2>3. InMemory /\ NothingRecorded(events) /\ UNCHANGED OnDisk
    BY <1>4 DEF FinishMission, LoopHead, counters
  <2> HIDE DEF events
  <2> QED
    BY <2>1, <2>2, <2>3 DEF Logs
<1>5. CASE FinishSuccess
  BY <1>4, <1>5, TransitionFacts DEF FinishSuccess, MissionStatus, NoteType, PlainType
<1>6. CASE FinishFailure
  BY <1>4, <1>6, TransitionFacts DEF FinishFailure, MissionStatus, NoteType, PlainType
<1>7. ASSUME NEW event, NEW s \in MissionStatus, Transition("REASONING", event) = s,
             stage = "deciding"
      PROVE  /\ VerdictEvents(event) \in Seq(LoggedEvent) /\ Mute(VerdictEvents(event))
             /\ OneMove(VerdictEvents(event), mission.status, s)
  BY <1>7, TwiceNotedMove DEF VerdictEvents, NoteType, PlainType
<1>8. ASSUME NEW verdict \in {"DENIED", "REWRITE"}, NEW reason \in Texts, RejectAction(verdict, reason)
      PROVE  Logs
  <2> DEFINE event == PolicyEvaluated(verdict)
  <2>1. mission'.status = "REASONING" /\ stage = "deciding"
    BY <1>8, Advanced, TransitionFacts DEF RejectAction, MissionStatus
  <2>2. /\ VerdictEvents(event) \in Seq(LoggedEvent) /\ Mute(VerdictEvents(event))
        /\ OneMove(VerdictEvents(event), mission.status, "REASONING")
    BY <1>7, <2>1, TransitionFacts DEF MissionStatus
  <2>3. NewObservation("POLICY_REJECTION", reason) \in Observation
    BY <1>8 DEF RejectAction, NewObservation, Observation, ObservationKind, Mission
  <2>4. /\ InMemory /\ UNCHANGED OnDisk
        /\ RecordObservation(NewObservation("POLICY_REJECTION", reason), VerdictEvents(event))
    BY <1>8 DEF RejectAction, LoopHead, counters
  <2> HIDE DEF event
  <2> QED
    BY <2>1, <2>2, <2>3, <2>4 DEF Logs
<1>9. CASE AllowAction
  <2> DEFINE event == PolicyEvaluated("ALLOWED")
  <2>1. mission'.status = "EXECUTING" /\ stage = "deciding"
    BY <1>9, Advanced, TransitionFacts DEF AllowAction, MissionStatus
  <2>2. /\ VerdictEvents(event) \in Seq(LoggedEvent) /\ Mute(VerdictEvents(event))
        /\ OneMove(VerdictEvents(event), mission.status, "EXECUTING")
    BY <1>7, <2>1, TransitionFacts DEF MissionStatus
  <2>3. InMemory /\ UNCHANGED OnDisk /\ NothingRecorded(VerdictEvents(event))
    BY <1>9 DEF AllowAction, counters
  <2> HIDE DEF event
  <2> QED
    BY <2>1, <2>2, <2>3 DEF Logs
<1>10. CASE RequestConfirmation
  <2> DEFINE event == PolicyEvaluated("REQUIRES_CONFIRMATION")
             asked == Append(VerdictEvents(event), Event("CONFIRMATION_REQUESTED"))
  <2>1. mission'.status = "AWAITING_CONFIRMATION" /\ stage = "deciding"
    BY <1>10, Advanced, TransitionFacts DEF RequestConfirmation, MissionStatus
  <2>2. /\ VerdictEvents(event) \in Seq(LoggedEvent) /\ Mute(VerdictEvents(event))
        /\ OneMove(VerdictEvents(event), mission.status, "AWAITING_CONFIRMATION")
    BY <1>7, <2>1, TransitionFacts DEF MissionStatus
  <2>3. /\ asked \in Seq(LoggedEvent) /\ Mute(asked)
        /\ OneMove(asked, mission.status, "AWAITING_CONFIRMATION")
    BY <2>2, MoveThenNote DEF NoteType, PlainType
  <2>4. InMemory /\ UNCHANGED OnDisk /\ NothingRecorded(asked)
    BY <1>10 DEF RequestConfirmation, LoopHead
  <2> HIDE DEF asked
  <2> QED
    BY <2>1, <2>3, <2>4 DEF Logs
<1>11. ASSUME NEW type \in NoteType, NEW kind \in ObservationKind, NEW text \in Texts,
              ExecuteAction(type, kind, text)
       PROVE  Logs
  <2> DEFINE event == Simple("tool_execution_finished")
             events == <<Event(type), Transitioned(mission, event)>>
  <2>1. mission'.status = "REASONING" /\ stage = "executing"
    BY <1>11, Advanced, TransitionFacts DEF ExecuteAction, MissionStatus
  <2>2. /\ events \in Seq(LoggedEvent) /\ Mute(events)
        /\ OneMove(events, mission.status, mission'.status)
    BY <2>1, NotedMove, TransitionFacts DEF MissionStatus
  <2>3. NewObservation(kind, text) \in Observation
    BY <1>11 DEF ExecuteAction, NewObservation, Observation, Mission
  <2>4. InMemory /\ UNCHANGED OnDisk /\ RecordObservation(NewObservation(kind, text), events)
    BY <1>11 DEF ExecuteAction, LoopHead
  <2> HIDE DEF events
  <2> QED
    BY <2>2, <2>3, <2>4 DEF Logs
<1>12. CASE \E text \in Texts : ExecutionSucceeds(text) \/ ExecutionFails(text)
  BY <1>11, <1>12 DEF ExecutionSucceeds, ExecutionFails, NoteType, PlainType, ObservationKind
<1>13. CASE Grant
  <2> DEFINE event == Simple("confirmation_granted")
             events == <<Event("CONFIRMATION_GRANTED"), Transitioned(mission, event)>>
  <2>1. mission'.status = "EXECUTING" /\ stage = "asking" /\ mission.status = "AWAITING_CONFIRMATION"
    BY <1>13, Advanced, TransitionFacts DEF Grant, ConfirmationGranted, GrantTo, MissionStatus
  <2>2. /\ events \in Seq(LoggedEvent) /\ Mute(events)
        /\ OneMove(events, mission.status, mission'.status)
    BY <2>1, NotedMove, TransitionFacts DEF MissionStatus, NoteType, PlainType
  <2>3. InMemory /\ UNCHANGED OnDisk /\ NothingRecorded(events)
    BY <1>13 DEF Grant, ConfirmationGranted, GrantTo, counters
  <2> HIDE DEF events
  <2> QED
    BY <2>2, <2>3 DEF Logs
<1>14. CASE Deny
  <2> DEFINE event == Simple("confirmation_denied")
             events == <<Event("CONFIRMATION_DENIED"), Transitioned(mission, event)>>
  <2>1. mission'.status = "REASONING" /\ stage = "asking" /\ mission.status = "AWAITING_CONFIRMATION"
    BY <1>14, Advanced, TransitionFacts DEF Deny, ConfirmationDenied, DenyTo, MissionStatus
  <2>2. /\ events \in Seq(LoggedEvent) /\ Mute(events)
        /\ OneMove(events, mission.status, mission'.status)
    BY <2>1, NotedMove, TransitionFacts DEF MissionStatus, NoteType, PlainType
  <2>3. NewObservation("CONFIRMATION_DENIED", "plain") \in Observation
    BY <1>14 DEF Deny, NewObservation, Observation, ObservationKind, Mission
  <2>4. InMemory /\ UNCHANGED OnDisk
        /\ RecordObservation(NewObservation("CONFIRMATION_DENIED", "plain"), events)
    BY <1>14 DEF Deny, ConfirmationDenied, DenyTo, counters
  <2> HIDE DEF events
  <2> QED
    BY <2>2, <2>3, <2>4 DEF Logs
<1> QED
  BY <1>1, <1>2, <1>3, <1>5, <1>6, <1>8, <1>9, <1>10, <1>12, <1>13, <1>14 DEF Handler

-----------------------------------------------------------------------------
(* Every step keeps the invariant *)

\* `peon run` begins a mission behind whatever the file holds.
LEMMA RunKeeps ==
  ASSUME JournalInv, NEW limit \in Limits, RunCommand(limit)
  PROVE  LogKept' /\ Told' /\ Matching'
<1> DEFINE new == [id |-> started + 1, status |-> "CREATED", iteration |-> 0, limit |-> limit]
           opening == Simple("mission_created")
<1>1. /\ JournalTypes /\ eventsFile \in Seq(LoggedEvent) /\ stage \in Idle
      /\ log = <<>> /\ persisted = 0 /\ persisted <= Len(log) /\ log \in Seq(LoggedEvent)
      /\ started \in Nat /\ started' = started + 1
      /\ UNCHANGED <<persisted, checkpoint, savedHistory, eventsFile>>
      /\ mission' = Advance(new, opening) /\ stage' = LoopHead(mission') /\ history' = <<>>
      /\ log' = log \o <<Event("MISSION_CREATED"), Transitioned(new, opening)>>
  BY MissionsAssumption
     DEF RunCommand, Run, JournalInv, TypeInv, TypeOK, ControlTypes, LogKept, JournalTypes, disk
<1>2. new \in Mission /\ new.status = "CREATED"
  BY <1>1, MissionsAssumption DEF RunCommand, Run, Mission, Missions, MissionStatus, ControlTypes
<1> HIDE DEF new
<1>3. mission'.status = "REASONING"
  BY <1>1, <1>2, Advanced, TransitionFacts DEF MissionStatus
<1>4. PICK start \in LoggedEvent : /\ start = Event("MISSION_CREATED") /\ IsMissionStart(start)
                                  /\ ~IsObservation(start)
  BY PlainEvent DEF PlainType, Event, IsMissionStart, IsObservation
<1>5. PICK move \in LoggedEvent : /\ move = Transitioned(new, opening) /\ IsTransition(move)
                                 /\ ~IsObservation(move) /\ move.from = "CREATED"
                                 /\ move.to = "REASONING"
  BY <1>2, EventFacts, TransitionEvent, TransitionFacts DEF MissionStatus
<1> DEFINE events == <<start, move>>
<1>6. /\ events \in Seq(LoggedEvent) /\ Len(events) = 2 /\ events[1] = start /\ events[2] = move
      /\ log' = log \o events
  BY <1>1, <1>4, <1>5
<1>7. /\ Chained(eventsFile \o events) /\ EndsIn(eventsFile \o events, "REASONING")
      /\ MissionStarts(eventsFile \o events) = MissionStarts(eventsFile) \cup {Len(eventsFile) + 1}
  <2>1. Whole = eventsFile
    BY <1>1, NothingNew DEF Whole
  <2>2. Chained(eventsFile)
    BY <2>1 DEF JournalInv, Told
  <2> QED
    BY <1>1, <1>4, <1>5, <2>2, StartKeepsChain
<1> HIDE DEF events
<1>8. Whole' = eventsFile \o events /\ persisted' <= Len(log')
  <2>1. Whole = eventsFile
    BY <1>1, NothingNew DEF Whole
  <2> QED
    BY <1>1, <1>6, <2>1, WholeExtended
<1>9. Cardinality(MissionStarts(eventsFile \o events)) <= started + 1
  <2>1. Whole = eventsFile
    BY <1>1, NothingNew DEF Whole
  <2>2. Cardinality(MissionStarts(eventsFile)) <= started
    BY <2>1 DEF JournalInv, Told
  <2>3. Len(eventsFile) \in Nat /\ MissionStarts(eventsFile) \in SUBSET (1..Len(eventsFile))
    BY <1>1, LenProperties DEF MissionStarts
  <2>4. IsFiniteSet(MissionStarts(eventsFile)) /\ Cardinality(MissionStarts(eventsFile)) \in Nat
    BY <2>3, PositionFacts
  <2>5. Len(eventsFile) + 1 \notin MissionStarts(eventsFile)
    BY <2>3
  <2>6. Cardinality(MissionStarts(eventsFile) \cup {Len(eventsFile) + 1}) =
          Cardinality(MissionStarts(eventsFile)) + 1
    BY <2>4, <2>5, FS_AddElement
  <2> QED
    BY <1>1, <1>7, <2>2, <2>4, <2>6
<1>10. /\ BuildFromEventLog(eventsFile \o events) = <<>>
       /\ BuildFromEventLog(log \o events) = <<>>
  <2>1. \A i \in 1..Len(events) : ~IsObservation(events[i])
    BY <1>4, <1>5, <1>6
  <2>2. 1 \in 1..Len(events) /\ IsMissionStart(events[1])
    BY <1>4, <1>6
  <2> QED
    BY <1>1, <1>6, <2>1, <2>2, BuildStarted
<1>11. stage' = "reasoning" /\ stage \notin EventStages
  BY <1>1, <1>3 DEF LoopHead, Idle, EventStages
<1>12. Told'
  BY <1>1, <1>3, <1>6, <1>7, <1>8, <1>9, <1>10 DEF Told
<1> QED
  BY <1>1, <1>8, <1>11, <1>12 DEF LogKept, Matching, JournalInv, Idle, EventStages

\* `peon resume` takes up what the file tells of the checkpoint's mission.
LEMMA ResumeKeeps == ASSUME JournalInv, ResumeAndAsk PROVE LogKept' /\ Told' /\ Matching'
<1>1. /\ JournalTypes /\ eventsFile \in Seq(LoggedEvent) /\ Len(eventsFile) \in Nat
      /\ stage \in Idle /\ log = <<>> /\ persisted = 0
      /\ UNCHANGED <<checkpoint, savedHistory, eventsFile, started>>
      /\ mission' = checkpoint.mission /\ stage' = "asking" /\ history' = savedHistory
      /\ log' = eventsFile /\ persisted' = Len(eventsFile)
      /\ checkpoint # NoCheckpoint /\ Readable(eventsFile)
  BY LenProperties
     DEF ResumeAndAsk, ResumeMission, ResumedMission, Loadable, JournalInv, TypeInv, TypeOK, JournalTypes,
         LogKept, disk, counters
<1>2. Whole = eventsFile /\ Whole' = eventsFile
  BY <1>1, NothingNew DEF Whole
<1>3. stage \notin EventStages
  BY <1>1 DEF Idle, EventStages
<1>4. EndsIn(eventsFile, checkpoint.mission.status) /\ BuildFromEventLog(eventsFile) = savedHistory
  BY <1>1, <1>3 DEF JournalInv, Matching
<1>5. Told'
  BY <1>1, <1>2, <1>4 DEF JournalInv, Told
<1> QED
  BY <1>1, <1>4, <1>5 DEF LogKept, Matching, Idle, EventStages

\* persist_events makes the file what it was to be.
LEMMA PersistKeeps == ASSUME JournalInv, WriteEvents PROVE LogKept' /\ Told' /\ Matching'
<1>1. /\ JournalTypes /\ Len(log) \in Nat /\ stage \in EventStages
      /\ eventsFile' = Whole /\ persisted' = Len(log)
      /\ UNCHANGED <<mission, log, history, checkpoint, savedHistory, started>>
      /\ stage' = AfterEvents(stage)
      /\ eventsFile \in Seq(LoggedEvent) /\ persisted <= Len(log)
  BY LenProperties
     DEF WriteEvents, PersistEvents, SavedEvents, Whole, JournalInv, TypeInv, TypeOK, JournalTypes,
         LogKept, counters
<1>2. JournalTypes'
  BY <1>1, JournalStep DEF JournalInv, Next, Proceed
<1>3. Whole' = eventsFile'
  <2>1. NewEvents(log, Len(log)) = <<>> /\ eventsFile' \in Seq(LoggedEvent)
    BY <1>1, <1>2, NothingNew DEF JournalTypes
  <2> QED
    BY <1>1, <2>1, ConcatEmptySeq DEF Whole
<1>4. stage \in Busy /\ stage' \notin EventStages /\ stage' \notin Idle
  BY <1>1 DEF EventStages, AfterEvents, LoopHead, Busy, CheckpointStages, RuntimeStages, CliStages, Idle
<1>5. /\ Cardinality(MissionStarts(Whole)) <= started /\ Chained(Whole)
      /\ EndsIn(Whole, mission.status) /\ BuildFromEventLog(Whole) = history
      /\ BuildFromEventLog(log) = history
      /\ checkpoint.mission = mission /\ savedHistory = history
  BY <1>1, <1>4 DEF JournalInv, Told, Matching
<1>6. PICK w : w = Whole
  OBVIOUS
<1>7. Whole' = w /\ eventsFile' = w
  BY <1>1, <1>3, <1>6
<1>8. Told'
  BY <1>1, <1>5, <1>6, <1>7 DEF Told
<1>9. Matching'
  BY <1>1, <1>4, <1>5, <1>6, <1>7 DEF Matching
<1>10. LogKept'
  BY <1>1, <1>4 DEF LogKept
<1> QED
  BY <1>8, <1>9, <1>10

\* One case per action of Next.
LEMMA ToldStep ==
  JournalInv /\ [Next]_vars /\ [~Torn]_vars => LogKept' /\ Told' /\ Matching'
<1> SUFFICES ASSUME JournalInv, [Next]_vars, [~Torn]_vars PROVE LogKept' /\ Told' /\ Matching'
  OBVIOUS
<1> USE DEF JournalInv, TypeInv, TypeOK, ControlTypes, Control, StatusByStage, disk, OnDisk
<1> USE DEF Busy, CheckpointStages, EventStages, RuntimeStages, CliStages
<1>1. ASSUME NEW limit \in Limits, RunCommand(limit) PROVE LogKept' /\ Told' /\ Matching'
  BY <1>1, RunKeeps
<1>2. CASE Handler
  <2>1. Logs
    BY <1>2, HandlerLogs
  <2> QED
    BY <2>1, MovedKeeps, ObservedKeeps DEF Logs
<1>3. CASE \/ DecideRaises \/ ExecutionRaises \/ WriteCheckpointRefused
            \/ Exit \/ Crash \/ CrashAfterEffect
  <2>1. stage' \in Idle /\ log' = <<>> /\ persisted' = 0 /\ UNCHANGED <<disk, started>>
    BY <1>3 DEF DecideRaises, ExecutionRaises, WriteCheckpointRefused, SaveCheckpointRefused,
       Raise, Exit, Crash, CrashAfterEffect, ForgetMemory, counters, Idle
  <2>2. stage \notin EventStages
    BY <1>3 DEF Torn, vars, DecideRaises, ExecutionRaises, WriteCheckpointRefused, Exit, Crash, CrashAfterEffect
  <2> QED
    BY <2>1, <2>2, EndedKeeps
<1>4. CASE WriteEventsRefused
  <2>1. /\ stage' \in Idle /\ log' = <<>> /\ persisted' = 0 /\ UNCHANGED <<disk, started>>
        /\ ~Readable(eventsFile)
    BY <1>4 DEF WriteEventsRefused, PersistEventsRefused, Raise, ForgetMemory, counters, Idle
  <2> QED
    BY <2>1, EndedKeeps
<1>5. CASE WriteCheckpoint
  <2>1. /\ checkpoint'.mission = mission /\ savedHistory' = history
        /\ stage \in CheckpointStages /\ stage' = AfterCheckpoint(stage)
        /\ UNCHANGED <<mission, log, persisted, history, eventsFile, started>>
    BY <1>5 DEF WriteCheckpoint, SaveCheckpoint, StoreCheckpoint, memory, counters
  <2>2. stage' \in EventStages
    BY <2>1 DEF AfterCheckpoint
  <2>3. Whole' = Whole /\ stage' \notin Idle
    BY <2>1, <2>2 DEF Whole, Idle
  <2> QED
    BY <2>1, <2>2, <2>3 DEF LogKept, Told, Matching
<1>6. CASE WriteEvents
  BY <1>6, PersistKeeps
<1>7. CASE \/ RunRefused \/ ResumeRefused \/ ResumeWithoutCheckpoint
            \/ ResumeCorruptedEventLog \/ ResumeNotPending
  <2>1. stage \in Idle /\ stage' \in Idle /\ UNCHANGED <<log, persisted, disk, started>>
    BY <1>7 DEF RunRefused, ResumeRefused, ResumeWithoutCheckpoint,
       ResumeCorruptedEventLog, ResumeNotPending, Leave, memory, counters, Idle
  <2>2. log' = <<>> /\ persisted' = 0 /\ stage \notin EventStages
    BY <2>1 DEF LogKept, Idle
  <2> QED
    BY <2>1, <2>2, EndedKeeps
<1>8. CASE ResumeAndAsk
  BY <1>8, ResumeKeeps
<1>9. CASE UNCHANGED vars
  <2>1. Whole' = Whole
    BY <1>9 DEF Whole, vars, memory
  <2> QED
    BY <1>9, <2>1 DEF LogKept, Told, Matching, vars, memory, counters
<1> QED
  BY <1>1, <1>2, <1>3, <1>4, <1>5, <1>6, <1>7, <1>8, <1>9
     DEF Next, Proceed, Command, Decide, Execute, Handler

\* Nothing is told before the first command.
LEMMA ToldInit == Init => LogKept /\ Told /\ Matching
<1> SUFFICES ASSUME Init PROVE LogKept /\ Told /\ Matching
  OBVIOUS
<1>1. /\ stage = "off" /\ log = <<>> /\ persisted = 0 /\ eventsFile = <<>> /\ started = 0
      /\ checkpoint = NoCheckpoint
  BY DEF Init
<1>2. JournalTypes /\ Len(<<>>) = 0
  BY TypeInit, EmptySeq DEF TypeInv, TypeOK
<1>3. Whole = <<>>
  BY <1>1, <1>2, NothingNew DEF Whole
<1>4. MissionStarts(<<>>) = {} /\ Chained(<<>>)
  BY <1>2 DEF MissionStarts, Chained
<1>5. stage \in Idle /\ stage \notin Busy /\ stage \notin EventStages
  BY <1>1 DEF Idle, Busy, CheckpointStages, EventStages, RuntimeStages, CliStages
<1>6. Told
  <2>1. Cardinality(MissionStarts(Whole)) = 0
    BY <1>3, <1>4, FS_EmptySet
  <2>2. Chained(Whole)
    BY <1>3, <1>4
  <2> QED
    BY <1>1, <1>5, <2>1, <2>2 DEF Told
<1> QED
  BY <1>1, <1>2, <1>5, <1>6 DEF LogKept, Matching

\* The invariant holds for ever, if no process is killed between the two writes.
LEMMA JournalAlways == Spec /\ NeverTorn => []JournalInv
<1>1. Init => JournalInv
  BY TypeInit, ToldInit DEF JournalInv
<1>2. JournalInv /\ [Next]_vars /\ [~Torn]_vars => JournalInv'
  <2>1. JournalInv /\ [Next]_vars => TypeInv'
    BY ControlStep, JournalStep DEF JournalInv, TypeInv, TypeOK
  <2> QED
    BY <2>1, ToldStep DEF JournalInv
<1> QED
  BY <1>1, <1>2, PTL DEF Spec, NeverTorn

\* Nothing but a kill at one of these stages tears a save: where the model kills
\* no process there, the hypothesis of the theorems below holds.
LEMMA TornOnlyByKills == ASSUME CrashPoints \cap EventStages = {} PROVE Spec => NeverTorn
<1>1. [Next]_vars => [~Torn]_vars
  <2>1. SUFFICES ASSUME [Next]_vars, stage \in EventStages, stage' = "killed" PROVE FALSE
    BY DEF Torn
  <2>2. stage \notin CrashPoints \cup Idle \cup {"returned", "consume_checkpoint", "outcome_checkpoint",
                                             "reasoning", "deciding", "executing", "asking", "done"}
    BY <2>1 DEF EventStages, Idle
  <2>3. stage' # stage
    BY <2>1 DEF EventStages
  <2>4. CASE Proceed
    <3>1. AfterEvents(stage) # "killed"
      BY <2>1 DEF AfterEvents, EventStages, LoopHead
    <3> QED
      BY <2>1, <2>2, <2>4, <3>1
         DEF Proceed, BeginCycle, ExhaustIterations, Decide, FailOnReasoningError, DecideRaises,
             FinishSuccess, FinishFailure, FinishMission, RejectAction, AllowAction, RequestConfirmation,
             Execute, ExecutionSucceeds, ExecutionFails, ExecuteAction, ExecutionRaises,
             WriteCheckpoint, WriteCheckpointRefused, CheckpointStages,
             WriteEvents, WriteEventsRefused, PersistEvents, PersistEventsRefused, Raise,
             Grant, Deny, Exit
  <2>5. CASE Command
    BY <2>1, <2>2, <2>5
       DEF Command, RunCommand, RunRefused, ResumeRefused, ResumeWithoutCheckpoint, ResumeCorruptedEventLog,
          ResumeNotPending, ResumeAndAsk, Leave
  <2>6. CASE Crash \/ CrashAfterEffect
    BY <2>2, <2>6 DEF Crash, CrashAfterEffect
  <2> QED
    BY <2>1, <2>3, <2>4, <2>5, <2>6 DEF Next, vars
<1> QED
  BY <1>1, PTL DEF Spec, NeverTorn

\* The context of every decision holds exactly the observations the mission has
\* gone through, in this process and in those before it.
THEOREM ContextIsTrue == Spec /\ NeverTorn => []ContextFaithful
<1>1. JournalInv => ContextFaithful
  BY DEF JournalInv, Told, ContextFaithful, Busy, RuntimeStages
<1> QED
  BY JournalAlways, <1>1, PTL

\* The events file tells every mission's life without a gap or a repetition.
THEOREM JournalIsChained == Spec /\ NeverTorn => []JournalChained
<1>1. JournalInv => JournalChained
  BY FileOfWhole DEF JournalChained
<1> QED
  BY JournalAlways, <1>1, PTL

\* Between the calls that save, the last transition on file is the one to the
\* status in the checkpoint.
THEOREM SnapshotIsJournals == Spec /\ NeverTorn => []SnapshotMatchesJournal
<1>1. JournalInv => SnapshotMatchesJournal
  BY DEF JournalInv, Matching, SnapshotMatchesJournal
<1> QED
  BY JournalAlways, <1>1, PTL

-----------------------------------------------------------------------------
(* The list of the Runtime and its log *)

MirrorInv == TypeInv /\ ObservationsMirrorLog

\* Whatever is killed, and wherever.
LEMMA MirrorStep == MirrorInv /\ [Next]_vars => ObservationsMirrorLog'
<1> SUFFICES ASSUME MirrorInv, [Next]_vars PROVE ObservationsMirrorLog'
  OBVIOUS
<1>1. log \in Seq(LoggedEvent) /\ (stage \in Busy => observations = BuildFromEventLog(log))
  BY DEF MirrorInv, TypeInv, TypeOK, JournalTypes, ObservationsMirrorLog
<1>2. ASSUME NEW limit \in Limits, RunCommand(limit) PROVE ObservationsMirrorLog'
  <2> DEFINE new == [id |-> started + 1, status |-> "CREATED", iteration |-> 0, limit |-> limit]
  <2>1. observations' = <<>> /\ stage \in Idle
        /\ log' = log \o <<Event("MISSION_CREATED"), Transitioned(new, Simple("mission_created"))>>
    BY <1>2 DEF RunCommand, Run
  <2>2. new \in Mission /\ new.status = "CREATED"
    BY <1>2, MissionsAssumption
       DEF RunCommand, Run, Mission, Missions, MissionStatus, ControlTypes, MirrorInv, TypeInv, TypeOK
  <2> HIDE DEF new
  <2>3. PICK start \in LoggedEvent : /\ start = Event("MISSION_CREATED") /\ IsMissionStart(start)
                                    /\ ~IsObservation(start)
    BY PlainEvent DEF PlainType, Event, IsMissionStart, IsObservation
  <2>4. PICK move \in LoggedEvent : /\ move = Transitioned(new, Simple("mission_created"))
                                   /\ ~IsObservation(move)
    BY <2>2, EventFacts, TransitionEvent, TransitionFacts DEF MissionStatus
  <2> DEFINE events == <<start, move>>
  <2>5. /\ events \in Seq(LoggedEvent) /\ Len(events) = 2 /\ events[1] = start /\ events[2] = move
        /\ log' = log \o events
    BY <2>1, <2>3, <2>4
  <2> HIDE DEF events
  <2>6. BuildFromEventLog(log \o events) = <<>>
    <3>1. \A i \in 1..Len(events) : ~IsObservation(events[i])
      BY <2>3, <2>4, <2>5
    <3>2. 1 \in 1..Len(events) /\ IsMissionStart(events[1])
      BY <2>3, <2>5
    <3> QED
      BY <1>1, <2>5, <3>1, <3>2, BuildStarted
  <2> QED
    BY <2>1, <2>5, <2>6 DEF ObservationsMirrorLog
<1>3. CASE Handler
  <2>1. Logs /\ observations = BuildFromEventLog(log)
    BY <1>1, <1>3, HandlerLogs DEF MirrorInv, Logs
  <2>2. PICK events \in Seq(LoggedEvent) :
          /\ Mute(events)
          /\ \/ NothingRecorded(events)
             \/ \E observation \in Observation : RecordObservation(observation, events)
    BY <2>1 DEF Logs
  <2>3. CASE NothingRecorded(events)
    BY <1>1, <2>1, <2>2, <2>3, BuildKept DEF NothingRecorded, ObservationsMirrorLog
  <2>4. ASSUME NEW observation \in Observation, RecordObservation(observation, events)
        PROVE  ObservationsMirrorLog'
    <3>1. PICK event \in LoggedEvent :
            /\ event = Produced(observation) /\ IsObservation(event) /\ ~IsMissionStart(event)
            /\ ToObservation(event) = observation
      <4>1. /\ Produced(observation) \in LoggedEvent
            /\ IsObservation(Produced(observation)) /\ ~IsMissionStart(Produced(observation))
            /\ ToObservation(Produced(observation)) = observation
        BY DEF Produced, LoggedEvent, IsObservation, IsMissionStart, ToObservation
      <4> QED
        BY <4>1
    <3>2. log' = log \o Append(events, event) /\ observations' = Append(observations, observation)
      BY <2>4, <3>1 DEF RecordObservation
    <3>3. BuildFromEventLog(log \o Append(events, event)) = Append(BuildFromEventLog(log), observation)
      BY <1>1, <2>2, <3>1, BuildRecorded
    <3> QED
      BY <2>1, <3>2, <3>3 DEF ObservationsMirrorLog
  <2> QED
    BY <2>2, <2>3, <2>4
<1>4. CASE \/ DecideRaises \/ ExecutionRaises \/ WriteCheckpointRefused \/ WriteEventsRefused
           \/ Exit \/ Crash \/ CrashAfterEffect
           \/ RunRefused \/ ResumeRefused \/ ResumeWithoutCheckpoint
           \/ ResumeCorruptedEventLog \/ ResumeNotPending
  <2>1. stage' \in Idle
    BY <1>4 DEF DecideRaises, ExecutionRaises, WriteCheckpointRefused, SaveCheckpointRefused,
       WriteEventsRefused, PersistEventsRefused, Raise, Exit, Crash, CrashAfterEffect, RunRefused,
       ResumeRefused, ResumeWithoutCheckpoint, ResumeCorruptedEventLog,
       ResumeNotPending, Leave, Idle
  <2> QED
    BY <2>1 DEF ObservationsMirrorLog, Idle, Busy, CheckpointStages, EventStages, RuntimeStages, CliStages
<1>5. CASE WriteCheckpoint \/ WriteEvents
  BY <1>1, <1>5 DEF WriteCheckpoint, SaveCheckpoint, StoreCheckpoint, WriteEvents, PersistEvents, memory, ObservationsMirrorLog, Busy
<1>6. CASE ResumeAndAsk
  BY <1>6 DEF ResumeAndAsk, ResumeMission, ObservationsMirrorLog
<1>7. CASE UNCHANGED vars
  BY <1>7 DEF vars, memory, MirrorInv, ObservationsMirrorLog
<1> QED
  BY <1>2, <1>3, <1>4, <1>5, <1>6, <1>7 DEF Next, Proceed, Command, Decide, Execute, Handler

\* The observations in memory and those told by the log never part, wherever a
\* process is killed.
THEOREM ListMirrorsLog == Spec => []ObservationsMirrorLog
<1>1. Init => MirrorInv
  BY TypeInit DEF Init, MirrorInv, ObservationsMirrorLog, Busy, CheckpointStages, EventStages,
     RuntimeStages, CliStages
<1>2. MirrorInv /\ [Next]_vars => MirrorInv'
  <2>1. MirrorInv /\ [Next]_vars => TypeInv'
    BY ControlStep, JournalStep DEF MirrorInv, TypeInv, TypeOK
  <2> QED
    BY <2>1, MirrorStep DEF MirrorInv
<1>3. MirrorInv => ObservationsMirrorLog
  BY DEF MirrorInv
<1> QED
  BY <1>1, <1>2, <1>3, PTL DEF Spec
=============================================================================
