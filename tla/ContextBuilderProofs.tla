------------------------ MODULE ContextBuilderProofs ------------------------
(***************************************************************************)
(* What an event that is appended to a log does to the context built from  *)
(* it.  The lemmas hold for every log and every observation.               *)
(***************************************************************************)
EXTENDS ContextBuilder, Integers, FiniteSetTheorems, SequenceTheorems, WellFoundedInduction, TLAPS

-----------------------------------------------------------------------------
(* The n-th position *)

LessNat == {ss \in Nat \X Nat : ss[1] < ss[2]}

\* A set of natural numbers that is not empty has a least element.
LEMMA LeastNat ==
  ASSUME NEW S, S \subseteq Nat, S # {}
  PROVE  \E m \in S : \A k \in S : m <= k
<1>1. IsWellFoundedOn(LessNat, Nat)
  BY NatLessThanWellFounded DEF OpToRel, LessNat
<1>2. PICK m \in S : \A k \in S : <<k, m>> \notin LessNat
  BY <1>1, WFMin
<1>3. ASSUME NEW k \in S PROVE m <= k
  <2>1. k \in Nat /\ m \in Nat
    OBVIOUS
  <2>2. ~(k < m)
    BY <1>2, <2>1 DEF LessNat
  <2> QED
    BY <2>1, <2>2
<1> QED
  BY <1>3

\* Positions up to N are a finite set of integers.
LEMMA PositionFacts ==
  ASSUME NEW N \in Nat, NEW P \in SUBSET (1..N)
  PROVE  IsFiniteSet(P) /\ Cardinality(P) \in Nat /\ \A j \in P : j \in Nat /\ 1 <= j /\ j <= N
<1>1. IsFiniteSet(1..N)
  BY FS_Interval
<1>2. IsFiniteSet(P)
  BY <1>1, FS_Subset
<1> QED
  BY <1>2, FS_CardinalityType

\* How many of some positions are not beyond m.
Count(P, m) == Cardinality({j \in P : j <= m})

\* That count grows by one at every position of P.
LEMMA CountFacts ==
  ASSUME NEW N \in Nat, NEW P \in SUBSET (1..N), NEW m \in Int
  PROVE  /\ Count(P, m) \in 0..Cardinality(P)
         /\ Count(P, m) = Count(P, m - 1) + (IF m \in P THEN 1 ELSE 0)
<1>1. IsFiniteSet(P) /\ \A j \in P : j \in Nat
  BY PositionFacts
<1>2. /\ Count(P, m) \in Nat /\ Cardinality(P) \in Nat /\ Count(P, m) <= Cardinality(P)
      /\ IsFiniteSet({j \in P : j <= m - 1}) /\ Count(P, m - 1) \in Nat
  BY <1>1, FS_Subset, FS_CardinalityType DEF Count
<1>3. CASE m \in P
  <2>1. \A j \in P : j <= m <=> j <= m - 1 \/ j = m
    BY <1>1
  <2>2. {j \in P : j <= m} = {j \in P : j <= m - 1} \cup {m}
    BY <1>3, <2>1
  <2>3. m \notin {j \in P : j <= m - 1}
    OBVIOUS
  <2> QED
    BY <1>2, <1>3, <2>2, <2>3, FS_AddElement DEF Count
<1>4. CASE m \notin P
  <2>1. \A j \in P : j <= m <=> j <= m - 1
    BY <1>1, <1>4
  <2>2. {j \in P : j <= m} = {j \in P : j <= m - 1}
    BY <2>1
  <2>3. Count(P, m) = Count(P, m - 1)
    BY <2>2 DEF Count
  <2> QED
    BY <1>2, <1>4, <2>3
<1> QED
  BY <1>2, <1>3, <1>4

\* None is counted before the first position, and all at the last.
LEMMA CountEnds ==
  ASSUME NEW N \in Nat, NEW P \in SUBSET (1..N)
  PROVE  Count(P, N) = Cardinality(P) /\ Count(P, 0) = 0
<1>1. \A j \in P : j <= N /\ ~(j <= 0)
  BY PositionFacts
<1>2. {j \in P : j <= N} = P /\ {j \in P : j <= 0} = {}
  BY <1>1
<1> QED
  BY <1>2, FS_EmptySet DEF Count

\* There is an n-th position as long as n does not exceed their number.
LEMMA NthFacts ==
  ASSUME NEW N \in Nat, NEW P \in SUBSET (1..N), NEW n \in 1..Cardinality(P)
  PROVE  Nth(P, n) \in P /\ Count(P, Nth(P, n)) = n
<1> DEFINE enough == {m \in Nat : Count(P, m) >= n}
<1>1. Cardinality(P) \in Nat
  BY PositionFacts
<1>2. N \in enough
  BY <1>1, CountEnds
<1>3. PICK m \in enough : \A k \in enough : m <= k
  BY <1>2, LeastNat
<1>4. m \in Nat /\ m # 0 /\ Count(P, m) >= n
  BY <1>1, <1>3, CountEnds
<1>5. Count(P, m) \in Nat /\ Count(P, m - 1) \in Nat
  <2>1. m \in Int /\ m - 1 \in Int
    BY <1>4
  <2>2. Count(P, m) \in 0..Cardinality(P)
    BY <2>1, CountFacts
  <2>3. Count(P, m - 1) \in 0..Cardinality(P)
    BY <2>1, CountFacts
  <2> QED
    BY <1>1, <2>2, <2>3
<1>6. Count(P, m - 1) < n
  <2>1. m - 1 \in Nat /\ m - 1 \notin enough
    BY <1>3, <1>4
  <2> QED
    BY <1>5, <2>1
<1>7. m \in P /\ Count(P, m) = n
  <2>1. Count(P, m) = Count(P, m - 1) + (IF m \in P THEN 1 ELSE 0)
    <3>1. m \in Int
      BY <1>4
    <3> QED
      BY <3>1, CountFacts
  <2> QED
    BY <1>1, <1>4, <1>5, <1>6, <2>1
<1> QED
  BY <1>7 DEF Nth, Count

\* It is the only one with that count.
LEMMA NthUnique ==
  ASSUME NEW N \in Nat, NEW P \in SUBSET (1..N), NEW i \in P
  PROVE  Count(P, i) \in 1..Cardinality(P) /\ Nth(P, Count(P, i)) = i
<1>1. /\ IsFiniteSet(P) /\ Cardinality(P) \in Nat
      /\ \A j \in P : j \in Nat
  BY PositionFacts
<1>2. \A j \in P : /\ Count(P, j) \in 0..Cardinality(P) /\ Count(P, j - 1) \in 0..Cardinality(P)
                   /\ Count(P, j) = Count(P, j - 1) + 1
  <2> TAKE j \in P
  <2>1. j \in Int /\ j - 1 \in Int
    BY <1>1
  <2>2. Count(P, j) \in 0..Cardinality(P) /\ Count(P, j) = Count(P, j - 1) + 1
    BY <2>1, CountFacts
  <2>3. Count(P, j - 1) \in 0..Cardinality(P)
    BY <2>1, CountFacts
  <2> QED
    BY <2>2, <2>3
<1>3. \A j, k \in P : j < k => Count(P, j) < Count(P, k)
  <2> SUFFICES ASSUME NEW j \in P, NEW k \in P, j < k PROVE Count(P, j) < Count(P, k)
    OBVIOUS
  <2>1. j \in Nat /\ k \in Nat /\ j <= k - 1
    BY <1>1
  <2>2. {l \in P : l <= j} \in SUBSET {l \in P : l <= k - 1}
    <3>1. \A l \in P : l <= j => l <= k - 1
      BY <1>1, <2>1
    <3> QED
      BY <3>1
  <2>3. IsFiniteSet({l \in P : l <= k - 1})
    BY <1>1, FS_Subset
  <2>4. Count(P, j) <= Count(P, k - 1)
    BY <2>2, <2>3, FS_Subset DEF Count
  <2> QED
    BY <1>1, <1>2, <2>4
<1>4. Count(P, i) \in 1..Cardinality(P)
  BY <1>1, <1>2
<1>5. PICK j \in P : j = Nth(P, Count(P, i)) /\ Count(P, j) = Count(P, i)
  BY <1>4, NthFacts
<1>6. j = i
  BY <1>1, <1>2, <1>3, <1>5
<1> QED
  BY <1>4, <1>5, <1>6

-----------------------------------------------------------------------------
(* The positions of the observations *)

\* Events that leave the context as it is.
Mute(events) ==
  \A i \in 1..Len(events) : ~IsMissionStart(events[i]) /\ ~IsObservation(events[i])

\* The current observations are among the positions of the log.
LEMMA ObservationPositions ==
  ASSUME NEW S, NEW log \in Seq(S)
  PROVE  Len(log) \in Nat /\ CurrentObservations(log) \in SUBSET (1..Len(log))
BY LenProperties DEF CurrentObservations, CurrentMissionEvents

\* What comes behind a log does not change what is at its positions.
LEMMA JoinedFacts ==
  ASSUME NEW S, NEW log \in Seq(S), NEW events \in Seq(S)
  PROVE  /\ Len(log) \in Nat /\ Len(events) \in Nat
         /\ Len(log \o events) = Len(log) + Len(events)
         /\ \A i \in 1..Len(log) : (log \o events)[i] = log[i]
         /\ \A i \in 1..Len(events) : (log \o events)[Len(log) + i] = events[i]
         /\ \A i \in 1..Len(log \o events) :
              i \notin 1..Len(log) => i - Len(log) \in 1..Len(events) /\ (log \o events)[i] = events[i - Len(log)]
BY ConcatProperties, LenProperties

\* Missions begin where they began before, as long as no other begins.
LEMMA StartsKept ==
  ASSUME NEW S, NEW log \in Seq(S), NEW events \in Seq(S),
         \A i \in 1..Len(events) : ~IsMissionStart(events[i])
  PROVE  MissionStarts(log \o events) = MissionStarts(log)
<1> DEFINE all == log \o events
<1>1. \A i \in 1..Len(all) : i \notin 1..Len(log) => ~IsMissionStart(all[i])
  BY JoinedFacts
<1>2. \A i \in 1..Len(log) : i \in 1..Len(all) /\ all[i] = log[i]
  BY JoinedFacts
<1> QED
  BY <1>1, <1>2 DEF MissionStarts

\* An event that is no observation and begins no mission is not in the context.
LEMMA ObservationsKept ==
  ASSUME NEW S, NEW log \in Seq(S), NEW events \in Seq(S), Mute(events)
  PROVE  CurrentObservations(log \o events) = CurrentObservations(log)
<1> DEFINE all == log \o events
<1>1. MissionStarts(all) = MissionStarts(log)
  BY StartsKept DEF Mute
<1>2. \A i \in 1..Len(all) : i \notin 1..Len(log) => ~IsObservation(all[i])
  BY JoinedFacts DEF Mute
<1>3. \A i \in 1..Len(log) : i \in 1..Len(all) /\ all[i] = log[i]
  BY JoinedFacts
<1> QED
  BY <1>1, <1>2, <1>3 DEF CurrentObservations, CurrentMissionEvents

\* An observation comes behind those there are, in the mission's own part.
LEMMA ObservationsGrow ==
  ASSUME NEW S, NEW log \in Seq(S), NEW event \in S,
         IsObservation(event), ~IsMissionStart(event)
  PROVE  CurrentObservations(Append(log, event)) = CurrentObservations(log) \cup {Len(log) + 1}
<1> DEFINE all == Append(log, event)
<1>1. /\ all = log \o <<event>> /\ <<event>> \in Seq(S)
      /\ Len(<<event>>) = 1 /\ <<event>>[1] = event
  BY AppendIsConcat
<1>2. MissionStarts(all) = MissionStarts(log)
  <2>1. \A i \in 1..Len(<<event>>) : ~IsMissionStart(<<event>>[i])
    BY <1>1
  <2> QED
    BY <1>1, <2>1, StartsKept
<1>3. /\ Len(log) \in Nat /\ Len(all) = Len(log) + 1
      /\ \A i \in 1..Len(log) : all[i] = log[i]
      /\ all[Len(log) + 1] = event
  BY <1>1, JoinedFacts
<1>4. \A i \in 1..Len(log) : i \in CurrentObservations(all) <=> i \in CurrentObservations(log)
  BY <1>2, <1>3 DEF CurrentObservations, CurrentMissionEvents
<1>5. Len(log) + 1 \in CurrentObservations(all)
  BY <1>2, <1>3 DEF CurrentObservations, CurrentMissionEvents, MissionStarts
<1>6. CurrentObservations(all) \subseteq 1..(Len(log) + 1) /\ CurrentObservations(log) \subseteq 1..Len(log)
  BY <1>3 DEF CurrentObservations, CurrentMissionEvents
<1> QED
  BY <1>3, <1>4, <1>5, <1>6

-----------------------------------------------------------------------------
(* The context *)

\* The context is a sequence of what the log holds.
LEMMA ContextFacts ==
  ASSUME NEW S, NEW log \in Seq(S)
  PROVE  LET P == CurrentObservations(log)
         IN  /\ Cardinality(P) \in Nat
             /\ \A n \in 1..Cardinality(P) :
                  Nth(P, n) \in P /\ Nth(P, n) \in 1..Len(log) /\ log[Nth(P, n)] \in S
             /\ BuildFromEventLog(log) \in Seq({ToObservation(event) : event \in S})
             /\ Len(BuildFromEventLog(log)) = Cardinality(P)
<1> DEFINE P == CurrentObservations(log)
           told == {ToObservation(event) : event \in S}
<1>1. Cardinality(P) \in Nat
  BY ObservationPositions, PositionFacts
<1>2. \A n \in 1..Cardinality(P) : Nth(P, n) \in P /\ Nth(P, n) \in 1..Len(log) /\ log[Nth(P, n)] \in S
  BY ObservationPositions, NthFacts, ElementOfSeq
<1>3. BuildFromEventLog(log) = [n \in 1..Cardinality(P) |-> ToObservation(log[Nth(P, n)])]
  BY DEF BuildFromEventLog
<1>4. \A n \in 1..Cardinality(P) : ToObservation(log[Nth(P, n)]) \in told
  BY <1>2
<1> HIDE DEF P, told
<1>5. BuildFromEventLog(log) \in [1..Cardinality(P) -> told]
  BY <1>3, <1>4
<1>6. BuildFromEventLog(log) \in Seq(told)
  BY <1>1, <1>5, SeqDef
<1>7. Len(BuildFromEventLog(log)) = Cardinality(P)
  BY <1>1, <1>5, <1>6, LenProperties
<1> QED
  BY <1>1, <1>2, <1>6, <1>7 DEF P, told

\* Events that are no observations leave the context as it is.
LEMMA BuildKept ==
  ASSUME NEW S, NEW log \in Seq(S), NEW events \in Seq(S), Mute(events)
  PROVE  BuildFromEventLog(log \o events) = BuildFromEventLog(log)
<1> DEFINE P == CurrentObservations(log)
           all == log \o events
<1>1. CurrentObservations(all) = P
  BY ObservationsKept
<1>2. \A n \in 1..Cardinality(P) : all[Nth(P, n)] = log[Nth(P, n)]
  <2> TAKE n \in 1..Cardinality(P)
  <2>1. Nth(P, n) \in 1..Len(log)
    BY ContextFacts
  <2> QED
    BY <2>1, JoinedFacts
<1>3. /\ BuildFromEventLog(log) = [n \in 1..Cardinality(P) |-> ToObservation(log[Nth(P, n)])]
      /\ BuildFromEventLog(all) = [n \in 1..Cardinality(P) |-> ToObservation(all[Nth(P, n)])]
  BY <1>1 DEF BuildFromEventLog
<1> HIDE DEF P, all
<1>4. BuildFromEventLog(all) = BuildFromEventLog(log)
  BY <1>2, <1>3
<1> QED
  BY <1>4 DEF all

\* An observation comes at the end of the context.
LEMMA BuildObserved ==
  ASSUME NEW S, NEW log \in Seq(S), NEW event \in S,
         IsObservation(event), ~IsMissionStart(event)
  PROVE  BuildFromEventLog(Append(log, event)) = Append(BuildFromEventLog(log), ToObservation(event))
<1> DEFINE P == CurrentObservations(log)
           all == Append(log, event)
           Q == CurrentObservations(all)
           last == Len(log) + 1
           c == Cardinality(P)
<1>1. /\ Len(log) \in Nat /\ last \in Nat /\ P \in SUBSET (1..Len(log)) /\ P \in SUBSET (1..last)
      /\ Q = P \cup {last} /\ last \notin P /\ Q \in SUBSET (1..last)
  BY ObservationPositions, ObservationsGrow
<1>2. c \in Nat /\ Cardinality(Q) = c + 1
  <2>1. IsFiniteSet(P) /\ c \in Nat
    BY <1>1, PositionFacts
  <2> QED
    BY <1>1, <2>1, FS_AddElement
<1>3. /\ all \in Seq(S) /\ Len(all) = last /\ all[last] = event
      /\ \A i \in 1..Len(log) : all[i] = log[i]
  BY <1>1, AppendProperties
<1> HIDE DEF P, Q, c, last, all
<1>4. \A i \in 1..Len(log) : Count(Q, i) = Count(P, i)
  <2> TAKE i \in 1..Len(log)
  <2>1. ~(last <= i)
    BY <1>1 DEF last
  <2>2. {j \in Q : j <= i} = {j \in P : j <= i}
    BY <1>1, <2>1
  <2> QED
    BY <2>2 DEF Count
<1>5. Nth(Q, c + 1) = last
  <2>1. Count(Q, last) = c + 1
    BY <1>1, <1>2, CountEnds
  <2>2. last \in Q
    BY <1>1
  <2> QED
    BY <1>1, <2>1, <2>2, NthUnique
<1>6. \A n \in 1..c : Nth(Q, n) = Nth(P, n) /\ all[Nth(Q, n)] = log[Nth(P, n)]
  <2> TAKE n \in 1..c
  <2>1. PICK i \in P : i = Nth(P, n) /\ Count(P, i) = n
    BY <1>1, NthFacts DEF c
  <2>2. i \in Q /\ Count(Q, i) = n /\ i \in 1..Len(log)
    BY <1>1, <1>4, <2>1
  <2>3. Nth(Q, n) = i
    BY <1>1, <2>2, NthUnique
  <2> QED
    BY <1>3, <2>1, <2>2, <2>3
<1> DEFINE old == BuildFromEventLog(log)
           new == BuildFromEventLog(all)
           told == {ToObservation(e) : e \in S}
<1>7. /\ old = [n \in 1..c |-> ToObservation(log[Nth(P, n)])]
      /\ old \in Seq(told) /\ Len(old) = c
  BY ContextFacts DEF BuildFromEventLog, P, c
<1>8. /\ new = [n \in 1..Cardinality(Q) |-> ToObservation(all[Nth(Q, n)])]
      /\ new \in Seq(told) /\ Len(new) = Cardinality(Q)
  BY <1>3, ContextFacts DEF BuildFromEventLog, Q
<1>9. \A n \in 1..c : new[n] = old[n]
  <2> TAKE n \in 1..c
  <2>1. n \in 1..Cardinality(Q)
    BY <1>2
  <2>2. new[n] = ToObservation(all[Nth(Q, n)]) /\ old[n] = ToObservation(log[Nth(P, n)])
    BY <1>7, <1>8, <2>1
  <2> QED
    BY <1>6, <2>2
<1>10. new[c + 1] = ToObservation(event)
  <2>1. c + 1 \in 1..Cardinality(Q)
    BY <1>2
  <2> QED
    BY <1>3, <1>5, <1>8, <2>1
<1>11. ToObservation(event) \in told
  OBVIOUS
<1> HIDE DEF old, new, told
<1>12. /\ Append(old, ToObservation(event)) \in Seq(told)
       /\ Len(Append(old, ToObservation(event))) = c + 1
       /\ \A n \in 1..c : Append(old, ToObservation(event))[n] = old[n]
       /\ Append(old, ToObservation(event))[c + 1] = ToObservation(event)
  <2>1. \A seq \in Seq(told), o \in told :
          /\ Append(seq, o) \in Seq(told)
          /\ Len(Append(seq, o)) = Len(seq) + 1
          /\ \A n \in 1..Len(seq) : Append(seq, o)[n] = seq[n]
          /\ Append(seq, o)[Len(seq) + 1] = o
    BY AppendProperties
  <2>2. old \in Seq(told) /\ ToObservation(event) \in told
    BY <1>7, <1>11
  <2>3. Append(old, ToObservation(event)) \in Seq(told)
    BY <2>1, <2>2
  <2>4. Len(old) = c
    BY <1>7
  <2>5. Len(Append(old, ToObservation(event))) = c + 1
    BY <2>1, <2>2, <2>4
  <2>6. \A n \in 1..c : Append(old, ToObservation(event))[n] = old[n]
    BY <2>1, <2>2, <2>4
  <2>7. Append(old, ToObservation(event))[c + 1] = ToObservation(event)
    BY <2>1, <2>2, <2>4
  <2> QED
    BY <2>3, <2>5, <2>6, <2>7
<1>13. new = Append(old, ToObservation(event))
  <2>1. \A n \in 1..(c + 1) : n \in 1..c \/ n = c + 1
    BY <1>2
  <2>2. \A n \in 1..(c + 1) : new[n] = Append(old, ToObservation(event))[n]
    BY <1>9, <1>10, <1>12, <2>1
  <2> QED
    BY <1>2, <1>8, <1>12, <2>2, SeqEqual
<1> QED
  BY <1>13 DEF old, new, all

\* An observation that is logged behind other events comes at the end of the
\* context, and nothing else does.
THEOREM BuildRecorded ==
  ASSUME NEW S, NEW log \in Seq(S), NEW events \in Seq(S), Mute(events),
         NEW event \in S, IsObservation(event), ~IsMissionStart(event)
  PROVE  BuildFromEventLog(log \o Append(events, event)) =
           Append(BuildFromEventLog(log), ToObservation(event))
<1>1. /\ Append(events, event) = events \o <<event>> /\ <<event>> \in Seq(S)
      /\ log \o events \in Seq(S)
  BY AppendIsConcat, ConcatProperties
<1>2. log \o Append(events, event) = (log \o events) \o <<event>>
  BY <1>1, ConcatAssociative
<1>3. log \o Append(events, event) = Append(log \o events, event)
  BY <1>1, <1>2, AppendIsConcat
<1>4. BuildFromEventLog(log \o events) = BuildFromEventLog(log)
  BY BuildKept
<1>5. BuildFromEventLog(Append(log \o events, event)) =
        Append(BuildFromEventLog(log \o events), ToObservation(event))
  BY <1>1, BuildObserved
<1> QED
  BY <1>3, <1>4, <1>5

\* A mission that begins has an empty context until its first observation.
LEMMA BuildStarted ==
  ASSUME NEW S, NEW log \in Seq(S), NEW events \in Seq(S),
         \A i \in 1..Len(events) : ~IsObservation(events[i]),
         NEW k \in 1..Len(events), IsMissionStart(events[k])
  PROVE  BuildFromEventLog(log \o events) = <<>>
<1> DEFINE all == log \o events
<1>1. Len(log) + k \in MissionStarts(all)
  BY JoinedFacts DEF MissionStarts
<1>2. \A i \in 1..Len(all) : i >= Len(log) + k => ~IsObservation(all[i])
  BY JoinedFacts
<1>3. CurrentObservations(all) = {}
  BY <1>1, <1>2, JoinedFacts DEF CurrentObservations, CurrentMissionEvents
<1>4. all \in Seq(S)
  BY ConcatProperties
<1>5. Len(BuildFromEventLog(all)) = 0 /\ BuildFromEventLog(all) \in Seq({ToObservation(event) : event \in S})
  BY <1>3, <1>4, ContextFacts, FS_EmptySet
<1> QED
  BY <1>5, EmptySeq

\* An empty log gives an empty context.
LEMMA BuildEmpty == BuildFromEventLog(<<>>) = <<>>
<1>1. <<>> \in Seq({}) /\ Len(<<>>) = 0
  BY EmptySeq
<1>2. CurrentObservations(<<>>) = {}
  <2>1. CurrentObservations(<<>>) \in SUBSET (1..0)
    BY <1>1, ObservationPositions
  <2> QED
    BY <2>1
<1>3. Len(BuildFromEventLog(<<>>)) = 0 /\ BuildFromEventLog(<<>>) \in Seq({ToObservation(event) : event \in {}})
  BY <1>1, <1>2, ContextFacts, FS_EmptySet
<1> QED
  BY <1>3, EmptySeq
=============================================================================
