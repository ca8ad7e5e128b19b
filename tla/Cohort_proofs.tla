--------------------------- MODULE Cohort_proofs ---------------------------
(***************************************************************************)
(* What holds of any number of NPCs, whatever the cohort's configuration.  *)
(***************************************************************************)
EXTENDS Cohort, FiniteSetTheorems, SequenceTheorems, TLAPS

-----------------------------------------------------------------------------
(* Type correctness.                                                       *)

\* Gates and activations belong to an event.
EventFirst == tick > 0 \/ Idle

TypeInv == TypeOK /\ EventFirst

\* A queue takes the current event and stays within its cap.
LEMMA EnqueueType ==
  ASSUME TypeInv, NEW a \in Npcs, tick > 0, Enqueue(a)
  PROVE  /\ queue' \in [Npcs -> Seq(1 .. MaxEvents)]
         /\ \A b \in Npcs : Len(queue'[b]) <= QueueMax
<1> DEFINE Kept == IF Len(queue[a]) >= QueueMax THEN Tail(queue[a]) ELSE queue[a]
<1>1. queue[a] \in Seq(1 .. MaxEvents) /\ Len(queue[a]) <= QueueMax /\ QueueMax \in Nat \ {0}
  BY CohortAssumption DEF TypeInv, TypeOK
<1>2. tick \in 1 .. MaxEvents
  BY CohortAssumption DEF TypeInv, TypeOK
<1>3. Kept \in Seq(1 .. MaxEvents) /\ Len(Kept) <= QueueMax - 1
  <2>1. CASE Len(queue[a]) >= QueueMax
    <3>1. queue[a] # <<>>
      BY <1>1, <2>1
    <3>2. /\ Tail(queue[a]) \in Seq(1 .. MaxEvents)
          /\ Len(Tail(queue[a])) = Len(queue[a]) - 1
      BY <1>1, <3>1, HeadTailProperties
    <3> QED
      BY <1>1, <2>1, <3>2
  <2>2. CASE ~(Len(queue[a]) >= QueueMax)
    BY <1>1, <2>2
  <2> QED
    BY <2>1, <2>2
<1>4. /\ Append(Kept, tick) \in Seq(1 .. MaxEvents)
      /\ Len(Append(Kept, tick)) <= QueueMax
  <2> HIDE DEF Kept
  <2> QED
    BY <1>1, <1>2, <1>3
<1>5. queue' = [queue EXCEPT ![a] = Append(Kept, tick)]
  BY DEF Enqueue
<1> QED
  <2> HIDE DEF Kept
  <2> QED
    BY <1>4, <1>5 DEF TypeInv, TypeOK

LEMMA TypeInit == Init => TypeInv
  BY CohortAssumption DEF Init, TypeInv, TypeOK, EventFirst, Idle, ConfigType,
     Lesser, Npcs, Kinds

LEMMA TypeGate ==
  ASSUME TypeInv, NEW a \in Npcs, Gate(a)
  PROVE  TypeInv'
<1> USE CohortAssumption DEF TypeInv, TypeOK
<1>1. tick > 0
  BY DEF Gate, EventFirst, Idle
<1>2. /\ kind' \in Kinds \union {"none"} /\ pending' \subseteq Npcs
      /\ UNCHANGED <<config, last, cursor, tick, later>>
  BY DEF Gate
<1>3. EventFirst'
  BY <1>1, <1>2 DEF EventFirst
<1>4. CASE GateActive(a)
  BY <1>1, <1>2, <1>3, <1>4 DEF GateActive, Activate
<1>5. CASE GateRecordOnly(a)
  BY <1>2, <1>3, <1>5 DEF GateRecordOnly
<1>6. CASE GateDefer(a)
  BY <1>1, <1>2, <1>3, <1>6, EnqueueType DEF GateDefer
<1>7. CASE GatePromote(a)
  <2>1. used' \in 0 .. config'.budget
    BY <1>2, <1>7 DEF GatePromote, ConfigType
  <2>2. /\ active' \subseteq Npcs /\ running' \subseteq Npcs
        /\ reacted' \in [Npcs -> 0 .. MaxEvents] /\ UNCHANGED queue
    BY <1>7 DEF GatePromote, Activate, Dormant
  <2> QED
    BY <1>2, <1>3, <2>1, <2>2
<1> QED
  BY <1>4, <1>5, <1>6, <1>7 DEF Gate

LEMMA TypeRotate ==
  ASSUME TypeInv, Rotate
  PROVE  TypeInv'
<1> USE CohortAssumption DEF TypeInv, TypeOK
<1>1. /\ UNCHANGED <<config, tick, kind, pending, later, running>>
      /\ used' = 0 /\ tick > 0
  BY DEF Rotate
<1>2. EventFirst' /\ used' \in 0 .. config'.budget
  BY <1>1 DEF EventFirst, ConfigType
<1>3. CASE UNCHANGED <<active, queue, last, cursor, reacted>>
  BY <1>1, <1>2, <1>3
<1>4. ASSUME NEW up \in SUBSET Dormant, NEW down \in SUBSET active, Swap(up, down)
      PROVE  TypeInv'
  <2>1. active' \subseteq Npcs
    BY <1>4 DEF Swap, Dormant
  <2>2. cursor' \in 0 .. N - 1
    <3>1. CASE UNCHANGED cursor
      BY <3>1
    <3>2. ASSUME NEW stop \in up, cursor' = stop % N
          PROVE  cursor' \in 0 .. N - 1
      BY <3>2 DEF Dormant, Npcs
    <3> QED
      BY <1>4, <3>1, <3>2 DEF Swap, MoveCursor
  <2>3. PICK heard \in SUBSET up : DrainQueues(up, heard)
    BY <1>4 DEF Swap
  <2>4. last' \in [Npcs -> 0 .. MaxEvents]
    BY <2>3 DEF DrainQueues
  <2>5. /\ queue' \in [Npcs -> Seq(1 .. MaxEvents)]
        /\ \A a \in Npcs : Len(queue'[a]) <= QueueMax
    <3>1. /\ <<>> \in Seq(1 .. MaxEvents)
          /\ Len(<<>>) <= QueueMax
      OBVIOUS
    <3>2. queue' = [a \in Npcs |-> IF a \in up THEN <<>> ELSE queue[a]]
      BY <2>3 DEF DrainQueues
    <3> QED
      BY <3>1, <3>2
  <2>6. reacted' \in [Npcs -> 0 .. MaxEvents]
    <3>1. ASSUME NEW a \in Npcs, queue[a] # <<>>
          PROVE  queue[a][Len(queue[a])] \in 0 .. MaxEvents
      BY <3>1
    <3> QED
      BY <2>3, <3>1 DEF DrainQueues
  <2> QED
    BY <1>1, <1>2, <2>1, <2>2, <2>4, <2>5, <2>6
<1> QED
  BY <1>3, <1>4 DEF Rotate

LEMMA TypeNext == TypeInv /\ [Next]_vars => TypeInv'
<1> SUFFICES ASSUME TypeInv, [Next]_vars
             PROVE  TypeInv'
  OBVIOUS
<1>1. CASE Notify
  BY <1>1, CohortAssumption DEF Notify, TypeInv, TypeOK, EventFirst
<1>2. CASE SecondWave
  BY <1>2 DEF SecondWave, TypeInv, TypeOK, EventFirst, Idle
<1>3. ASSUME NEW a \in Npcs, Gate(a)
      PROVE  TypeInv'
  BY <1>3, TypeGate
<1>4. ASSUME NEW a \in Npcs, Finish(a)
      PROVE  TypeInv'
  BY <1>4 DEF Finish, TypeInv, TypeOK, EventFirst, Idle
<1>5. CASE Rotate
  BY <1>5, TypeRotate
<1>6. CASE UNCHANGED vars
  BY <1>6 DEF vars, TypeInv, TypeOK, EventFirst, Idle
<1> QED
  BY <1>1, <1>2, <1>3, <1>4, <1>5, <1>6 DEF Next

\* Every variable of the cohort keeps its type; in particular no queue ever
\* exceeds queue_max_per_npc and no window its budget of promotions.
THEOREM CohortTypeCorrect == Spec => []TypeOK
<1>1. TypeInv => TypeOK
  BY DEF TypeInv
<1> QED
  BY <1>1, TypeInit, TypeNext, PTL DEF Spec
-----------------------------------------------------------------------------
(* The size of the cohort.                                                 *)

CohortInv == TypeInv /\ CohortIsFull /\ InFlightBound

LEMMA NpcsFinite ==
  /\ IsFiniteSet(Npcs)
  /\ Cardinality(Npcs) = N
  /\ \A S \in SUBSET Npcs : IsFiniteSet(S) /\ Cardinality(S) \in Nat
<1>1. IsFiniteSet(Npcs) /\ Cardinality(Npcs) = N
  BY FS_Interval, CohortAssumption DEF Npcs
<1> QED
  BY <1>1, FS_Subset, FS_CardinalityType

\* The sizes of a union and of a difference, as they are used below.
LEMMA CardinalityUnion ==
  ASSUME NEW S \in SUBSET Npcs, NEW T \in SUBSET Npcs, S \intersect T = {}
  PROVE  Cardinality(S \union T) = Cardinality(S) + Cardinality(T)
<1>1. IsFiniteSet(S) /\ IsFiniteSet(T)
  BY NpcsFinite
<1>2. Cardinality(S) \in Nat /\ Cardinality(T) \in Nat
  BY NpcsFinite
<1>3. Cardinality(S \union T) = Cardinality(S) + Cardinality(T) - Cardinality(S \intersect T)
  BY <1>1, FS_Union
<1>4. Cardinality(S \intersect T) = 0
  BY FS_EmptySet
<1> QED
  BY <1>2, <1>3, <1>4

LEMMA CardinalityDifference ==
  ASSUME NEW S \in SUBSET Npcs, NEW T \in SUBSET S
  PROVE  Cardinality(S \ T) = Cardinality(S) - Cardinality(T)
<1>1. Cardinality((S \ T) \union T) = Cardinality(S \ T) + Cardinality(T)
  <2>1. S \ T \in SUBSET Npcs /\ T \in SUBSET Npcs /\ (S \ T) \intersect T = {}
    OBVIOUS
  <2> QED
    BY <2>1, CardinalityUnion
<1>2. (S \ T) \union T = S
  OBVIOUS
<1>3. Cardinality(S \ T) \in Nat /\ Cardinality(T) \in Nat
  <2>1. S \ T \in SUBSET Npcs /\ T \in SUBSET Npcs
    OBVIOUS
  <2> QED
    BY <2>1, NpcsFinite
<1>4. Cardinality(S) = Cardinality(S \ T) + Cardinality(T)
  BY <1>1, <1>2
<1> QED
  BY <1>3, <1>4

\* One more NPC makes a set larger by one at most.
LEMMA CardinalityOneMore ==
  ASSUME NEW S \in SUBSET Npcs, NEW T \in SUBSET Npcs, NEW a, T \subseteq S \union {a}
  PROVE  Cardinality(T) <= Cardinality(S) + 1
<1>1. IsFiniteSet(S) /\ Cardinality(S) \in Nat
  BY NpcsFinite
<1>2. IsFiniteSet(S \union {a}) /\ Cardinality(S \union {a}) <= Cardinality(S) + 1
  BY <1>1, FS_AddElement
<1>3. Cardinality(T) <= Cardinality(S \union {a})
  BY <1>2, FS_Subset
<1>4. Cardinality(T) \in Nat /\ Cardinality(S \union {a}) \in Nat
  BY <1>2, NpcsFinite, FS_CardinalityType
<1> QED
  BY <1>1, <1>2, <1>3, <1>4

\* The victim of a promotion leaves, the promoted NPC comes.
LEMMA ReplaceOne ==
  ASSUME NEW S \in SUBSET Npcs, NEW v \in S, NEW a \in Npcs \ S
  PROVE  Cardinality((S \ {v}) \union {a}) = Cardinality(S)
<1>1. IsFiniteSet(S) /\ Cardinality(S) \in Nat
  BY NpcsFinite
<1>2. IsFiniteSet(S \ {v}) /\ Cardinality(S \ {v}) = Cardinality(S) - 1
  BY <1>1, FS_RemoveElement
<1>3. a \notin S \ {v}
  OBVIOUS
<1>4. Cardinality((S \ {v}) \union {a}) = Cardinality(S \ {v}) + 1
  BY <1>2, <1>3, FS_AddElement
<1> QED
  BY <1>1, <1>2, <1>4

LEMMA CohortInit == Init => CohortInv
<1> SUFFICES ASSUME Init
             PROVE  CohortInv
  OBVIOUS
<1>1. TypeInv
  BY TypeInit
<1>2. config.maxActive \in Nat \ {0} /\ N \in Nat \ {0}
  BY CohortAssumption DEF Init, ConfigType
<1>3. Lesser(config.maxActive, N) \in Nat \ {0} /\ Lesser(config.maxActive, N) <= config.maxActive
  BY <1>2 DEF Lesser
<1>4. Cardinality(active) = Lesser(config.maxActive, N)
  BY <1>3, FS_Interval DEF Init
<1>5. running \union active = active /\ used = 0
  BY DEF Init
<1> QED
  BY <1>1, <1>2, <1>3, <1>4, <1>5 DEF CohortInv, CohortIsFull, InFlightBound

LEMMA CohortGate ==
  ASSUME CohortInv, NEW a \in Npcs, Gate(a)
  PROVE  CohortIsFull' /\ InFlightBound'
<1> USE DEF CohortIsFull, InFlightBound
<1>1. config' = config
  BY DEF Gate
<1>2. active \subseteq Npcs /\ running \subseteq Npcs
  BY DEF CohortInv, TypeInv, TypeOK
<1>3. Cardinality(running \union active) \in Nat
  BY <1>2, NpcsFinite
<1>4. used \in Nat /\ config.maxActive \in Nat
  BY CohortAssumption DEF CohortInv, TypeInv, TypeOK, ConfigType
<1>5. CASE GateActive(a)
  <2>1. running' \union active' = running \union active /\ active' = active /\ used' = used
    BY <1>5 DEF GateActive, Activate
  <2> QED
    BY <1>1, <2>1 DEF CohortInv
<1>6. CASE GateRecordOnly(a) \/ GateDefer(a)
  BY <1>1, <1>6 DEF GateRecordOnly, GateDefer, CohortInv
<1>7. CASE GatePromote(a)
  <2>1. PICK victim \in active : active' = (active \ {victim}) \union {a}
    BY <1>7 DEF GatePromote
  <2>2. Cardinality(active') = Cardinality(active)
    BY <1>2, <1>7, <2>1, ReplaceOne DEF GatePromote, Dormant
  <2>3. /\ running' \union active' \subseteq (running \union active) \union {a}
        /\ running' \union active' \subseteq Npcs
    BY <1>2, <1>7, <2>1 DEF GatePromote, Activate
  <2>4. Cardinality(running' \union active') <= Cardinality(running \union active) + 1
    BY <1>2, <2>3, CardinalityOneMore
  <2>5. Cardinality(running' \union active') \in Nat
    BY <2>3, NpcsFinite
  <2>6. used' = used + 1
    BY <1>7 DEF GatePromote
  <2> QED
    BY <1>1, <1>3, <1>4, <2>2, <2>4, <2>5, <2>6 DEF CohortInv
<1> QED
  BY <1>5, <1>6, <1>7 DEF Gate

LEMMA CohortRotate ==
  ASSUME CohortInv, Rotate
  PROVE  CohortIsFull' /\ InFlightBound'
<1>1. config' = config /\ running' = {} /\ used' = 0
  BY DEF Rotate, Idle
<1>2. active \subseteq Npcs
  BY DEF CohortInv, TypeInv, TypeOK
<1>3. config.maxActive \in Nat \ {0} /\ N \in Nat \ {0}
  BY CohortAssumption DEF CohortInv, TypeInv, TypeOK, ConfigType
<1>4. ASSUME Cardinality(active') = Cardinality(active)
      PROVE  CohortIsFull' /\ InFlightBound'
  <2>1. running' \union active' = active'
    BY <1>1
  <2>2. Lesser(config.maxActive, N) <= config.maxActive + 0
    BY <1>3 DEF Lesser
  <2> QED
    BY <1>1, <1>4, <2>1, <2>2 DEF CohortInv, CohortIsFull, InFlightBound
<1>5. CASE UNCHANGED active
  BY <1>4, <1>5
<1>6. ASSUME NEW up \in SUBSET Dormant, NEW down \in SUBSET active, Swap(up, down)
      PROVE  Cardinality(active') = Cardinality(active)
  <2>1. Cardinality(up) = Cardinality(down) /\ active' = (active \ down) \union up
    BY <1>6 DEF Swap, AreFirst
  <2>2. Cardinality(active \ down) = Cardinality(active) - Cardinality(down)
    BY <1>2, CardinalityDifference
  <2>3. Cardinality((active \ down) \union up) = Cardinality(active \ down) + Cardinality(up)
    BY <1>2, CardinalityUnion DEF Dormant
  <2>4. Cardinality(active) \in Nat /\ Cardinality(down) \in Nat
    BY <1>2, NpcsFinite
  <2> QED
    BY <2>1, <2>2, <2>3, <2>4
<1> QED
  BY <1>4, <1>5, <1>6 DEF Rotate

LEMMA CohortNext == CohortInv /\ [Next]_vars => CohortInv'
<1> SUFFICES ASSUME CohortInv, [Next]_vars
             PROVE  CohortIsFull' /\ InFlightBound'
  BY TypeNext DEF CohortInv
<1>1. CASE Notify
  BY <1>1 DEF Notify, CohortInv, CohortIsFull, InFlightBound
<1>2. CASE SecondWave
  BY <1>2 DEF SecondWave, CohortInv, CohortIsFull, InFlightBound
<1>3. ASSUME NEW a \in Npcs, Gate(a)
      PROVE  CohortIsFull' /\ InFlightBound'
  BY <1>3, CohortGate
<1>4. ASSUME NEW a \in Npcs, Finish(a)
      PROVE  CohortIsFull' /\ InFlightBound'
  <2>1. /\ UNCHANGED <<config, active, used>>
        /\ running' \union active' \in SUBSET (running \union active)
    BY <1>4 DEF Finish
  <2>2. running \union active \subseteq Npcs
    BY DEF CohortInv, TypeInv, TypeOK
  <2>3. /\ Cardinality(running' \union active') <= Cardinality(running \union active)
        /\ Cardinality(running' \union active') \in Nat
        /\ Cardinality(running \union active) \in Nat
    BY <2>1, <2>2, NpcsFinite, FS_Subset
  <2>4. used \in Nat /\ config.maxActive \in Nat
    BY CohortAssumption DEF CohortInv, TypeInv, TypeOK, ConfigType
  <2> QED
    BY <2>1, <2>3, <2>4 DEF CohortInv, CohortIsFull, InFlightBound
<1>5. CASE Rotate
  BY <1>5, CohortRotate
<1>6. CASE UNCHANGED vars
  BY <1>6 DEF vars, CohortInv, CohortIsFull, InFlightBound
<1> QED
  BY <1>1, <1>2, <1>3, <1>4, <1>5, <1>6 DEF Next

\* Whatever is promoted, evicted and rotated, the cohort has max_active
\* members, or all NPCs if they are fewer.
THEOREM CohortAlwaysFull == Spec => []CohortIsFull
<1>1. CohortInv => CohortIsFull
  BY DEF CohortInv
<1> QED
  BY <1>1, CohortInit, CohortNext, PTL DEF Spec

\* At most max_active and the promotions of the window are active or still in
\* an activation.
THEOREM CohortInFlight == Spec => []InFlightBound
<1>1. CohortInv => InFlightBound
  BY DEF CohortInv
<1> QED
  BY <1>1, CohortInit, CohortNext, PTL DEF Spec
-----------------------------------------------------------------------------
(* The order of reactions.                                                 *)

\* The waves of an event are disjoint, so a gate sees each event once.
WavesDisjoint == pending \intersect later = {}

\* Nothing is newer than the current event, and an NPC whose gate is still to
\* come has neither queued it nor reacted to it.
NotYet ==
  \A a \in Npcs :
    /\ reacted[a] <= tick
    /\ \A i \in DOMAIN queue[a] : queue[a][i] <= tick
    /\ a \in pending \union later =>
         /\ reacted[a] < tick
         /\ \A i \in DOMAIN queue[a] : queue[a][i] < tick

\* Without preemptive promotions an active NPC has nothing left to replay.
ActiveCaughtUp == config.budget = 0 => \A a \in active : queue[a] = <<>>

OrderInv == TypeInv /\ WavesDisjoint /\ NotYet /\ ActiveCaughtUp /\ ReactsInOrder

\* A queue with the current event: the older ones in their order, then it.
LEMMA EnqueueOrder ==
  ASSUME OrderInv, NEW a \in Npcs, a \in pending, tick > 0, Enqueue(a)
  PROVE  /\ \A b \in Npcs \ {a} : queue'[b] = queue[b]
         /\ \A i \in DOMAIN queue'[a] :
              /\ queue'[a][i] <= tick
              /\ \A j \in 1 .. i - 1 : queue'[a][j] < queue'[a][i]
              /\ config.budget = 0 => reacted[a] < queue'[a][i]
<1> DEFINE Kept == IF Len(queue[a]) >= QueueMax THEN Tail(queue[a]) ELSE queue[a]
<1>1. /\ queue[a] \in Seq(1 .. MaxEvents) /\ QueueMax \in Nat \ {0}
      /\ reacted[a] \in Nat /\ tick \in 1 .. MaxEvents /\ MaxEvents \in Nat
  BY CohortAssumption DEF OrderInv, TypeInv, TypeOK
<1>2. /\ reacted[a] < tick
      /\ \A i \in 1 .. Len(queue[a]) : queue[a][i] < tick
      /\ \A i \in 1 .. Len(queue[a]) :
           /\ \A j \in 1 .. i - 1 : queue[a][j] < queue[a][i]
           /\ config.budget = 0 => reacted[a] < queue[a][i]
  BY <1>1 DEF OrderInv, NotYet, ReactsInOrder
<1>3. /\ Kept \in Seq(1 .. MaxEvents)
      /\ \A i \in 1 .. Len(Kept) :
           /\ Kept[i] < tick
           /\ \A j \in 1 .. i - 1 : Kept[j] < Kept[i]
           /\ config.budget = 0 => reacted[a] < Kept[i]
  <2>1. CASE Len(queue[a]) >= QueueMax
    <3>1. queue[a] # <<>>
      BY <1>1, <2>1
    <3>2. /\ Kept \in Seq(1 .. MaxEvents) /\ Len(Kept) = Len(queue[a]) - 1
          /\ \A i \in 1 .. Len(Kept) : Kept[i] = queue[a][i + 1]
      BY <1>1, <2>1, <3>1, HeadTailProperties
    <3> HIDE DEF Kept
    <3>3. ASSUME NEW i \in 1 .. Len(Kept)
          PROVE  /\ Kept[i] < tick
                 /\ \A j \in 1 .. i - 1 : Kept[j] < Kept[i]
                 /\ config.budget = 0 => reacted[a] < Kept[i]
      <4>1. i + 1 \in 1 .. Len(queue[a]) /\ Kept[i] = queue[a][i + 1]
        BY <1>1, <3>2
      <4>2. ASSUME NEW j \in 1 .. i - 1
            PROVE  Kept[j] < Kept[i]
        <5>1. j + 1 \in 1 .. (i + 1) - 1 /\ Kept[j] = queue[a][j + 1]
          BY <1>1, <3>2
        <5> QED
          BY <1>2, <4>1, <5>1
      <4> QED
        BY <1>2, <4>1, <4>2
    <3> QED
      BY <3>2, <3>3
  <2>2. CASE ~(Len(queue[a]) >= QueueMax)
    BY <1>1, <1>2, <2>2
  <2> QED
    BY <2>1, <2>2
<1>4. queue' = [queue EXCEPT ![a] = Append(Kept, tick)]
  BY DEF Enqueue
<1> HIDE DEF Kept
<1>5. queue'[a] = Append(Kept, tick) /\ \A b \in Npcs \ {a} : queue'[b] = queue[b]
  BY <1>4 DEF OrderInv, TypeInv, TypeOK
<1>6. /\ Len(Append(Kept, tick)) = Len(Kept) + 1
      /\ DOMAIN Append(Kept, tick) = 1 .. Len(Kept) + 1
      /\ \A i \in 1 .. Len(Kept) : Append(Kept, tick)[i] = Kept[i]
      /\ Append(Kept, tick)[Len(Kept) + 1] = tick
  BY <1>1, <1>3
<1>7. ASSUME NEW i \in 1 .. Len(Kept) + 1
      PROVE  /\ queue'[a][i] <= tick
             /\ \A j \in 1 .. i - 1 : queue'[a][j] < queue'[a][i]
             /\ config.budget = 0 => reacted[a] < queue'[a][i]
  <2>1. CASE i \in 1 .. Len(Kept)
    <3>1. \A j \in 1 .. i - 1 : j \in 1 .. Len(Kept)
      BY <1>3, <2>1
    <3>2. Kept[i] \in 1 .. MaxEvents
      BY <1>3, <2>1, ElementOfSeq
    <3> QED
      BY <1>1, <1>3, <1>5, <1>6, <2>1, <3>1, <3>2
  <2>2. CASE i = Len(Kept) + 1
    <3>1. \A j \in 1 .. i - 1 : j \in 1 .. Len(Kept)
      BY <1>3, <2>2
    <3> QED
      BY <1>1, <1>2, <1>3, <1>5, <1>6, <2>2, <3>1
  <2> QED
    BY <1>3, <2>1, <2>2
<1> QED
  BY <1>5, <1>6, <1>7

LEMMA OrderInit == Init => OrderInv
<1> SUFFICES ASSUME Init
             PROVE  OrderInv
  OBVIOUS
<1>1. \A a \in Npcs : DOMAIN queue[a] = {} /\ queue[a] = <<>> /\ reacted[a] = 0
  BY DEF Init
<1>2. active \subseteq Npcs /\ tick = 0 /\ pending = {} /\ later = {} /\ TypeInv
  BY TypeInit DEF Init, TypeInv, TypeOK
<1> QED
  BY <1>1, <1>2 DEF OrderInv, WavesDisjoint, NotYet, ActiveCaughtUp, ReactsInOrder

LEMMA OrderGate ==
  ASSUME OrderInv, NEW a \in Npcs, Gate(a)
  PROVE  WavesDisjoint' /\ NotYet' /\ ActiveCaughtUp' /\ ReactsInOrder'
<1>1. /\ a \in pending /\ pending' = pending \ {a}
      /\ config' = config /\ tick' = tick /\ later' = later
  BY DEF Gate
<1>2. tick > 0 /\ tick \in Nat /\ a \notin pending' \union later'
  BY <1>1 DEF OrderInv, TypeInv, TypeOK, EventFirst, Idle, WavesDisjoint
<1>3. WavesDisjoint'
  BY <1>1 DEF OrderInv, WavesDisjoint
<1>4. CASE GateActive(a)
  <2>1. /\ UNCHANGED <<active, queue>>
        /\ reacted'[a] = tick /\ \A b \in Npcs \ {a} : reacted'[b] = reacted[b]
    BY <1>4 DEF GateActive, Activate, OrderInv, TypeInv, TypeOK
  <2>2. config.budget = 0 => DOMAIN queue[a] = {}
    BY <1>4 DEF GateActive, OrderInv, ActiveCaughtUp
  <2>3. NotYet'
    BY <1>1, <1>2, <2>1 DEF OrderInv, NotYet
  <2>4. ActiveCaughtUp'
    BY <1>1, <2>1 DEF OrderInv, ActiveCaughtUp
  <2>5. ReactsInOrder'
    BY <1>1, <2>1, <2>2 DEF OrderInv, ReactsInOrder
  <2> QED
    BY <1>3, <2>3, <2>4, <2>5
<1>5. CASE GateRecordOnly(a)
  BY <1>1, <1>3, <1>5 DEF GateRecordOnly, OrderInv, NotYet, ActiveCaughtUp, ReactsInOrder
<1>6. CASE GateDefer(a)
  <2>1. a \notin active /\ Enqueue(a) /\ UNCHANGED <<active, reacted>>
    BY <1>6 DEF GateDefer, Dormant
  <2>2. /\ \A b \in Npcs \ {a} : queue'[b] = queue[b]
        /\ \A i \in DOMAIN queue'[a] :
             /\ queue'[a][i] <= tick
             /\ \A j \in 1 .. i - 1 : queue'[a][j] < queue'[a][i]
             /\ config.budget = 0 => reacted[a] < queue'[a][i]
    BY <1>1, <1>2, <2>1, EnqueueOrder
  <2>3. NotYet'
    BY <1>1, <1>2, <2>1, <2>2 DEF OrderInv, NotYet
  <2>4. ActiveCaughtUp'
    BY <1>1, <2>1, <2>2 DEF OrderInv, ActiveCaughtUp, TypeInv, TypeOK
  <2>5. ReactsInOrder'
    BY <1>1, <2>1, <2>2 DEF OrderInv, ReactsInOrder
  <2> QED
    BY <1>3, <2>3, <2>4, <2>5
<1>7. CASE GatePromote(a)
  <2>1. /\ UNCHANGED queue
        /\ reacted'[a] = tick /\ \A b \in Npcs \ {a} : reacted'[b] = reacted[b]
    BY <1>7 DEF GatePromote, Activate, OrderInv, TypeInv, TypeOK
  <2>2. config.budget # 0
    <3>1. used \in Nat /\ used < config.budget
      BY <1>7, CohortAssumption DEF GatePromote, OrderInv, TypeInv, TypeOK, ConfigType
    <3> QED
      BY <3>1
  <2>3. NotYet'
    BY <1>1, <1>2, <2>1 DEF OrderInv, NotYet
  <2>4. ReactsInOrder'
    BY <1>1, <2>1, <2>2 DEF OrderInv, ReactsInOrder
  <2> QED
    BY <1>1, <1>3, <2>2, <2>3, <2>4 DEF ActiveCaughtUp
<1> QED
  BY <1>4, <1>5, <1>6, <1>7 DEF Gate

LEMMA OrderRotate ==
  ASSUME OrderInv, Rotate
  PROVE  WavesDisjoint' /\ NotYet' /\ ActiveCaughtUp' /\ ReactsInOrder'
<1>1. /\ config' = config /\ tick' = tick
      /\ pending = {} /\ later = {} /\ pending' = {} /\ later' = {}
  BY DEF Rotate, Idle
<1>2. WavesDisjoint'
  BY <1>1 DEF WavesDisjoint
<1>3. CASE UNCHANGED <<active, queue, last, cursor, reacted>>
  BY <1>1, <1>2, <1>3 DEF OrderInv, NotYet, ActiveCaughtUp, ReactsInOrder
<1>4. ASSUME NEW up \in SUBSET Dormant, NEW down \in SUBSET active, Swap(up, down)
      PROVE  NotYet' /\ ActiveCaughtUp' /\ ReactsInOrder'
  <2>1. active' = (active \ down) \union up /\ up \subseteq Npcs /\ active \subseteq Npcs
    BY <1>4 DEF Swap, Dormant, OrderInv, TypeInv, TypeOK
  <2>2. PICK heard \in SUBSET up : DrainQueues(up, heard)
    BY <1>4 DEF Swap
  <2>3. ASSUME NEW a \in up
        PROVE  /\ queue'[a] = <<>> /\ DOMAIN queue'[a] = {}
               /\ reacted'[a] <= tick
    <3>1. queue'[a] = <<>>
      BY <2>1, <2>2 DEF DrainQueues
    <3>2. queue[a] \in Seq(1 .. MaxEvents)
      BY <2>1 DEF OrderInv, TypeInv, TypeOK
    <3>3. queue[a] # <<>> => Len(queue[a]) \in DOMAIN queue[a]
      BY <3>2
    <3>4. reacted'[a] = IF queue[a] # <<>> THEN queue[a][Len(queue[a])] ELSE reacted[a]
      BY <2>1, <2>2 DEF DrainQueues
    <3> QED
      BY <2>1, <3>1, <3>3, <3>4 DEF OrderInv, NotYet
  <2>4. \A a \in Npcs \ up : queue'[a] = queue[a] /\ reacted'[a] = reacted[a]
    BY <2>2 DEF DrainQueues
  <2>5. NotYet'
    BY <1>1, <2>3, <2>4 DEF OrderInv, NotYet
  <2>6. ActiveCaughtUp'
    BY <1>1, <2>1, <2>3, <2>4 DEF OrderInv, ActiveCaughtUp
  <2>7. ReactsInOrder'
    BY <1>1, <2>3, <2>4 DEF OrderInv, ReactsInOrder
  <2> QED
    BY <2>5, <2>6, <2>7
<1> QED
  BY <1>2, <1>3, <1>4 DEF Rotate

LEMMA OrderNext == OrderInv /\ [Next]_vars => OrderInv'
<1> SUFFICES ASSUME OrderInv, [Next]_vars
             PROVE  WavesDisjoint' /\ NotYet' /\ ActiveCaughtUp' /\ ReactsInOrder'
  BY TypeNext DEF OrderInv
<1>1. CASE Notify
  <2>1. /\ tick' = tick + 1 /\ pending' \intersect later' = {}
        /\ UNCHANGED <<config, active, queue, reacted>>
    BY <1>1 DEF Notify
  <2>2. tick \in Nat /\ \A a \in Npcs : reacted[a] \in Nat
    BY DEF OrderInv, TypeInv, TypeOK
  <2>3. ASSUME NEW a \in Npcs, NEW i \in DOMAIN queue[a]
        PROVE  queue[a][i] <= tick' /\ queue[a][i] < tick'
    <3>1. queue[a] \in Seq(1 .. MaxEvents) /\ MaxEvents \in Nat
      BY CohortAssumption DEF OrderInv, TypeInv, TypeOK
    <3>2. queue[a][i] \in Nat
      BY <3>1
    <3>3. queue[a][i] <= tick
      BY DEF OrderInv, NotYet
    <3> QED
      BY <2>1, <2>2, <3>2, <3>3
  <2>4. ASSUME NEW a \in Npcs
        PROVE  reacted[a] <= tick' /\ reacted[a] < tick'
    <3>1. reacted[a] <= tick
      BY DEF OrderInv, NotYet
    <3> QED
      BY <2>1, <2>2, <3>1
  <2>5. NotYet'
    BY <2>1, <2>3, <2>4 DEF NotYet
  <2> QED
    BY <2>1, <2>5 DEF OrderInv, WavesDisjoint, ActiveCaughtUp, ReactsInOrder
<1>2. CASE SecondWave
  BY <1>2 DEF SecondWave, OrderInv, WavesDisjoint, NotYet, ActiveCaughtUp, ReactsInOrder
<1>3. ASSUME NEW a \in Npcs, Gate(a)
      PROVE  WavesDisjoint' /\ NotYet' /\ ActiveCaughtUp' /\ ReactsInOrder'
  BY <1>3, OrderGate
<1>4. ASSUME NEW a \in Npcs, Finish(a)
      PROVE  WavesDisjoint' /\ NotYet' /\ ActiveCaughtUp' /\ ReactsInOrder'
  BY <1>4 DEF Finish, OrderInv, WavesDisjoint, NotYet, ActiveCaughtUp, ReactsInOrder
<1>5. CASE Rotate
  BY <1>5, OrderRotate
<1>6. CASE UNCHANGED vars
  BY <1>6 DEF vars, OrderInv, WavesDisjoint, NotYet, ActiveCaughtUp, ReactsInOrder
<1> QED
  BY <1>1, <1>2, <1>3, <1>4, <1>5, <1>6 DEF Next

\* Deferred events stay in the order they came and, where nothing is promoted
\* for an event, every NPC reacts to its events in that order, to none twice.
THEOREM CohortReactsInOrder == Spec => []ReactsInOrder
<1>1. OrderInv => ReactsInOrder
  BY DEF OrderInv
<1> QED
  BY <1>1, OrderInit, OrderNext, PTL DEF Spec

\* Only promotions for an event leave a backlog behind: where the window has no
\* budget for any, an active NPC has been replayed all that was deferred for it.
THEOREM CohortBacklogIsPromoted == Spec => [](config.budget = 0 => ActiveHasNoBacklog)
<1>1. OrderInv => (config.budget = 0 => ActiveHasNoBacklog)
  BY DEF OrderInv, ActiveCaughtUp, ActiveHasNoBacklog
<1> QED
  BY <1>1, OrderInit, OrderNext, PTL DEF Spec

-----------------------------------------------------------------------------
(* Round robin.                                                            *)

\* Under round robin a rotation activates a dormant NPC or brings the cursor
\* nearer to it, and nothing else moves the cursor; so nobody is passed over
\* for more than N rotations.
RoundRobinNears ==
  [][config.policy = "round_robin" =>
       \A a \in Npcs :
         /\ ~Rotate => Distance[a]' = Distance[a]
         /\ Rotate => a \in active \union active' \/ Distance[a]' < Distance[a]]_vars

\* Distances are counted around the circle of NPCs.
LEMMA Around ==
  ASSUME NEW a \in Npcs, NEW c \in 0 .. N - 1
  PROVE  /\ (a + N - 1 - c) % N \in 0 .. N - 1
         /\ (a + N - 1 - c) % N = IF a > c THEN a - 1 - c ELSE a + N - 1 - c
<1>1. N \in Nat \ {0} /\ a \in 1 .. N
  BY CohortAssumption DEF Npcs
<1>2. \A x \in 0 .. N - 1 : x % N = x
  BY <1>1
<1>3. \A x \in 0 .. N - 1 : (x + N) % N = x
  BY <1>1
<1>4. CASE a > c
  <2>1. a - 1 - c \in 0 .. N - 1 /\ a + N - 1 - c = (a - 1 - c) + N
    BY <1>1, <1>4
  <2> QED
    BY <1>1, <1>3, <1>4, <2>1
<1>5. CASE ~(a > c)
  <2>1. a + N - 1 - c \in 0 .. N - 1
    BY <1>1, <1>5
  <2> QED
    BY <1>1, <1>2, <1>5, <2>1
<1> QED
  BY <1>4, <1>5

\* The cursor moves to where the last NPC picked was.
LEMMA Past ==
  ASSUME NEW s \in Npcs
  PROVE  /\ s % N \in 0 .. N - 1
         /\ s % N = IF s = N THEN 0 ELSE s
<1>1. N \in Nat \ {0} /\ s \in 1 .. N
  BY CohortAssumption DEF Npcs
<1>2. \A x \in 0 .. N - 1 : x % N = x
  BY <1>1
<1>3. N % N = 0
  BY <1>1
<1> QED
  BY <1>1, <1>2, <1>3

\* Where the cursor passes an NPC that is nearer, it comes nearer to all others
\* that are further on.
LEMMA Nearer ==
  ASSUME TypeOK, NEW a \in Npcs, NEW s \in Npcs, a # s, Distance[s] <= Distance[a],
         cursor' = s % N
  PROVE  Distance[a]' < Distance[a]
<1>1. N \in Nat \ {0} /\ a \in 1 .. N /\ s \in 1 .. N /\ cursor \in 0 .. N - 1
  BY CohortAssumption DEF Npcs, TypeOK
<1>2. PICK da \in 0 .. N - 1 : /\ da = Distance[a]
                               /\ da = IF a > cursor THEN a - 1 - cursor ELSE a + N - 1 - cursor
  BY <1>1, Around DEF Distance
<1>3. PICK ds \in 0 .. N - 1 : /\ ds = Distance[s]
                               /\ ds = IF s > cursor THEN s - 1 - cursor ELSE s + N - 1 - cursor
  BY <1>1, Around DEF Distance
<1>4. PICK c \in 0 .. N - 1 : c = cursor' /\ c = IF s = N THEN 0 ELSE s
  BY Past
<1>5. Distance[a]' = IF a > c THEN a - 1 - c ELSE a + N - 1 - c
  BY <1>4, Around DEF Distance
<1>6. (IF a > c THEN a - 1 - c ELSE a + N - 1 - c) < da
  BY <1>1, <1>2, <1>3, <1>4
<1> QED
  BY <1>2, <1>5, <1>6

LEMMA RotateNears ==
  ASSUME CohortInv, Rotate, config.policy = "round_robin", NEW a \in Npcs
  PROVE  a \in active \union active' \/ Distance[a]' < Distance[a]
<1> SUFFICES ASSUME a \in Dormant, a \notin active' PROVE Distance[a]' < Distance[a]
  BY DEF Dormant
<1>1. N \in Nat \ {0} /\ config.maxActive \in Nat \ {0} /\ config.batch \in Nat \ {0}
      /\ TypeOK
  BY CohortAssumption DEF CohortInv, TypeInv, TypeOK, ConfigType
<1>2. N > config.maxActive
  <2>1. SUFFICES ASSUME ~(N > config.maxActive) PROVE FALSE
    OBVIOUS
  <2>2. Cardinality(active) = N
    BY <1>1, <2>1 DEF CohortInv, CohortIsFull, Lesser
  <2>3. active = Npcs
    BY <1>1, <2>2, NpcsFinite, FS_Subset DEF TypeOK
  <2> QED
    BY <2>3 DEF Dormant
<1>3. PICK up \in SUBSET Dormant, down \in SUBSET active : Swap(up, down)
  BY <1>1, <1>2 DEF Rotate
<1>4. a \notin up
  BY <1>3 DEF Swap
<1>5. up # {}
  <2>1. Cardinality(up) = Lesser(config.batch, Cardinality(Dormant))
    BY <1>3 DEF Swap, AreFirst, BatchSize
  <2>2. Cardinality(Dormant) \in Nat /\ Cardinality(Dormant) # 0
    BY NpcsFinite, FS_EmptySet DEF Dormant
  <2>3. Cardinality(up) # 0
    BY <1>1, <2>1, <2>2 DEF Lesser
  <2> QED
    BY <2>3, FS_EmptySet
<1>6. PICK stop \in up : cursor' = stop % N
  BY <1>3 DEF Swap, MoveCursor
<1>7. Rank = Distance
  BY DEF Rank
<1>8. Distance[stop] <= Distance[a]
  BY <1>3, <1>4, <1>7 DEF Swap, AreFirst
<1> QED
  BY <1>1, <1>4, <1>6, <1>8, Nearer DEF Dormant

\* Round robin passes nobody over: every rotation activates a dormant NPC or
\* brings the cursor nearer to it, whatever is promoted and evicted meanwhile.
THEOREM CohortRoundRobinNears == Spec => RoundRobinNears
<1> DEFINE Nears == config.policy = "round_robin" =>
                      \A a \in Npcs :
                        /\ ~Rotate => Distance[a]' = Distance[a]
                        /\ Rotate => a \in active \union active' \/ Distance[a]' < Distance[a]
<1>1. CohortInv /\ [Next]_vars => [Nears]_vars
  <2> SUFFICES ASSUME CohortInv, Next, config.policy = "round_robin", NEW a \in Npcs
               PROVE  /\ ~Rotate => Distance[a]' = Distance[a]
                      /\ Rotate => a \in active \union active' \/ Distance[a]' < Distance[a]
    OBVIOUS
  <2>1. ASSUME ~Rotate PROVE Distance[a]' = Distance[a]
    <3>1. cursor' = cursor
      BY <2>1 DEF Next, Notify, SecondWave, Gate, Finish
    <3> QED
      BY <3>1 DEF Distance
  <2> QED
    BY <2>1, RotateNears
<1> QED
  BY <1>1, CohortInit, CohortNext, PTL DEF Spec, RoundRobinNears
=============================================================================
