--------------------------- MODULE EventBus_proofs ---------------------------
(***************************************************************************)
(* Proofs about EventBus, for any number of events, subscribers and any    *)
(* capacities: the type, with the bound of every queue; that the log is    *)
(* never behind a callback; that a queue is a sliding window; that every   *)
(* event a subscriber misses is counted as dropped; and that shutdown can  *)
(* go on at each of its steps and takes none back.                         *)
(***************************************************************************)
EXTENDS EventBus, FiniteSetTheorems, TLAPS

BusType ==
  /\ phase \in {"up", "closing", "down"}
  /\ toClose \subseteq Subs
  /\ awaited \subseteq toClose
  /\ listed \subseteq Subs
  /\ consumer \in [Subs -> {"none", "waiting", "callback", "ended"}]
  /\ cancelled \subseteq Subs
LogType ==
  /\ pc \in [Events -> Publishing \union {"idle", "refused", "done", "unlogged", "lost"}]
  /\ log \in Seq(Events)
  /\ durable \in 0..Len(log)
QueueType ==
  /\ queue \in [Subs -> Seq(Events)]
  /\ \A s \in Subs : Len(queue[s]) <= Capacity[s]
  /\ offered \in [Subs -> Seq(Events)]
  /\ got \in [Subs -> Seq(Events)]
  /\ handed \subseteq Events
CountType == dropped \in Nat /\ crashes \in Nat

LEMMA TypeParts ==
  /\ TypeOK <=> BusType /\ LogType /\ QueueType /\ CountType
  /\ TypeOK' <=> BusType' /\ LogType' /\ QueueType' /\ CountType'
BY DEF TypeOK, BusType, LogType, QueueType, CountType

\* Nobody is awaited before a shutdown.
TypeInv == TypeOK /\ (phase = "up" => awaited = {})

\* The steps of Next, one by one.
EventStep(e) == Publish(e) \/ Insert(e) \/ Commit(e) \/ PersistFails(e) \/ Fanout(e)
SubStep(s) == Subscribe(s) \/ Unsubscribe(s) \/ Take(s) \/ CallbackEnds(s) \/ ConsumerEnds(s)
              \/ ShutdownCancels(s)
OtherStep == Shutdown \/ ShutdownEnds \/ Crash \/ UNCHANGED vars

LEMMA Steps ==
  ASSUME [Next]_vars
  PROVE  (\E e \in Events : EventStep(e)) \/ (\E s \in Subs : SubStep(s)) \/ OtherStep
BY DEF Next, Publisher, Closing, AtRest, EventStep, SubStep, OtherStep

\* A queue after an event was put in it.
LEMMA FullQueue ==
  ASSUME NEW q \in Seq(Events), NEW c \in Nat \ {0}, NEW e \in Events, Len(q) <= c
  PROVE  LET r == Append(IF Len(q) >= c THEN Tail(q) ELSE q, e)
         IN  r \in Seq(Events) /\ Len(r) <= c
<1>1. CASE Len(q) >= c
  <2>1. q # <<>>
    BY <1>1
  <2>2. Tail(q) \in Seq(Events) /\ Len(Tail(q)) = Len(q) - 1
    BY <2>1
  <2> QED
    BY <1>1, <2>2
<1>2. CASE ~(Len(q) >= c)
  BY <1>2
<1> QED
  BY <1>1, <1>2

LEMMA FanoutType ==
  ASSUME TypeInv, NEW e \in Events, Fanout(e)
  PROVE  TypeInv'
<1>t. BusType /\ LogType /\ QueueType /\ CountType
  BY TypeParts DEF TypeInv
<1>1. /\ BusType' /\ (phase = "up" => awaited = {})'
      /\ LogType'
  BY <1>t DEF Fanout, bus, BusType, LogType, Publishing, TypeInv
<1>2. \A s \in Subs : /\ queue'[s] \in Seq(Events) /\ Len(queue'[s]) <= Capacity[s]
                      /\ offered'[s] \in Seq(Events)
  <2> TAKE s \in Subs
  <2>1. queue[s] \in Seq(Events) /\ Len(queue[s]) <= Capacity[s] /\ Capacity[s] \in Nat \ {0}
        /\ offered[s] \in Seq(Events)
    BY <1>t, SubsAssumption DEF QueueType
  <2>2. queue'[s] = IF s \notin Targets(e) THEN queue[s]
                    ELSE Append(IF Len(queue[s]) >= Capacity[s] THEN Tail(queue[s]) ELSE queue[s], e)
    BY DEF Fanout, Full
  <2>3. offered'[s] = IF s \in Targets(e) THEN Append(offered[s], e) ELSE offered[s]
    BY DEF Fanout
  <2> QED
    BY <2>1, <2>2, <2>3, FullQueue
<1>3. QueueType'
  BY <1>t, <1>2 DEF Fanout, QueueType
<1>4. CountType'
  <2>1. {s \in Targets(e) : Full(s)} \in SUBSET Subs
    BY <1>t DEF Targets, BusType
  <2>2. Cardinality({s \in Targets(e) : Full(s)}) \in Nat
    BY <2>1, SubsAssumption, FS_Subset, FS_CardinalityType
  <2> QED
    BY <1>t, <2>2 DEF Fanout, CountType
<1> QED
  BY <1>1, <1>3, <1>4, TypeParts DEF TypeInv

LEMMA EventStepType ==
  ASSUME TypeInv, NEW e \in Events, EventStep(e)
  PROVE  TypeInv'
<1>t. BusType /\ LogType /\ QueueType /\ CountType
  BY TypeParts DEF TypeInv
<1>1. CASE Publish(e) \/ Insert(e) \/ Commit(e) \/ PersistFails(e)
  <2>1. BusType' /\ QueueType' /\ CountType' /\ (phase = "up" => awaited = {})'
    BY <1>t, <1>1 DEF Publish, Insert, Commit, PersistFails, bus, history, BusType, QueueType,
                      CountType, TypeInv
  <2>2. LogType'
    BY <1>t, <1>1 DEF Publish, Insert, Commit, PersistFails, LogType, Publishing
  <2> QED
    BY <2>1, <2>2, TypeParts DEF TypeInv
<1> QED
  BY <1>1, FanoutType DEF EventStep

LEMMA SubStepType ==
  ASSUME TypeInv, NEW s \in Subs, SubStep(s)
  PROVE  TypeInv'
<1>t. BusType /\ LogType /\ QueueType /\ CountType
  BY TypeParts DEF TypeInv
<1>1. BusType' /\ (phase = "up" => awaited = {})'
  BY <1>t DEF SubStep, Subscribe, Unsubscribe, Take, CallbackEnds, ConsumerEnds, ShutdownCancels,
              bus, BusType, TypeInv
<1>2. LogType' /\ CountType'
  BY <1>t DEF SubStep, Subscribe, Unsubscribe, Take, CallbackEnds, ConsumerEnds, ShutdownCancels,
              LogType, CountType
<1>3. QueueType'
  <2>1. CASE Take(s)
    <3>1. queue[s] \in Seq(Events) /\ queue[s] # <<>> /\ got[s] \in Seq(Events)
      BY <1>t, <2>1 DEF Take, QueueType
    <3>2. /\ Head(queue[s]) \in Events /\ Tail(queue[s]) \in Seq(Events)
          /\ Len(Tail(queue[s])) = Len(queue[s]) - 1
      BY <3>1
    <3>3. Append(got[s], Head(queue[s])) \in Seq(Events)
      BY <3>1, <3>2
    <3>4. /\ queue' = [queue EXCEPT ![s] = Tail(queue[s])]
          /\ got' = [got EXCEPT ![s] = Append(got[s], Head(queue[s]))]
          /\ handed' = handed \union {Head(queue[s])} /\ offered' = offered
      BY <2>1 DEF Take
    <3>5. \A u \in Subs : Len(queue'[u]) <= Capacity[u]
      <4>1. Len(queue'[s]) = Len(queue[s]) - 1 /\ \A u \in Subs \ {s} : queue'[u] = queue[u]
        BY <1>t, <3>2, <3>4 DEF QueueType
      <4>2. Len(queue[s]) \in Nat /\ Len(queue[s]) <= Capacity[s] /\ Capacity[s] \in Nat
        BY <1>t, SubsAssumption DEF QueueType
      <4>3. Len(queue'[s]) <= Capacity[s]
        BY <4>1, <4>2
      <4> QED
        BY <1>t, <4>1, <4>3 DEF QueueType
    <3>6. queue' \in [Subs -> Seq(Events)] /\ got' \in [Subs -> Seq(Events)]
      BY <1>t, <3>2, <3>3, <3>4 DEF QueueType
    <3>7. offered' \in [Subs -> Seq(Events)] /\ handed' \subseteq Events
      BY <1>t, <3>2, <3>4 DEF QueueType
    <3> QED
      BY <3>5, <3>6, <3>7 DEF QueueType
  <2>2. CASE ~Take(s)
    BY <1>t, <2>2 DEF SubStep, Subscribe, Unsubscribe, CallbackEnds, ConsumerEnds,
                      ShutdownCancels, history, QueueType
  <2> QED
    BY <2>1, <2>2
<1> QED
  BY <1>1, <1>2, <1>3, TypeParts DEF TypeInv

LEMMA OtherStepType ==
  ASSUME TypeInv, OtherStep
  PROVE  TypeInv'
<1>t. BusType /\ LogType /\ QueueType /\ CountType
  BY TypeParts DEF TypeInv
<1>1. CASE Shutdown \/ ShutdownEnds \/ UNCHANGED vars
  BY <1>t, <1>1, TypeParts DEF Shutdown, ShutdownEnds, vars, bus, history, BusType, LogType,
                               QueueType, CountType, TypeInv
<1>2. CASE Crash
  <2>1. BusType' /\ (phase = "up" => awaited = {})'
    BY <1>2 DEF Crash, BusType
  <2>2. durable \in Nat /\ durable <= Len(log) /\ log \in Seq(Events)
    BY <1>t DEF LogType
  <2>3. log' = SubSeq(log, 1, durable) /\ durable' = durable
    BY <1>2 DEF Crash
  <2>4. log' \in Seq(Events) /\ Len(log') = durable
    BY <2>2, <2>3
  <2>5. pc' \in [Events -> Publishing \union {"idle", "refused", "done", "unlogged", "lost"}]
    BY <1>t, <1>2 DEF Crash, LogType
  <2>6. LogType'
    BY <2>2, <2>3, <2>4, <2>5 DEF LogType
  <2>7. QueueType'
    BY <1>t, <1>2, SubsAssumption DEF Crash, QueueType
  <2>8. CountType'
    BY <1>t, <1>2 DEF Crash, CountType
  <2> QED
    BY <2>1, <2>6, <2>7, <2>8, TypeParts DEF TypeInv
<1> QED
  BY <1>1, <1>2 DEF OtherStep

LEMMA TypeStep == TypeInv /\ [Next]_vars => TypeInv'
BY Steps, EventStepType, SubStepType, OtherStepType

LEMMA TypeInit == Init => TypeInv
<1> SUFFICES ASSUME Init PROVE TypeInv
  OBVIOUS
<1>1. BusType /\ LogType /\ QueueType /\ CountType /\ awaited = {}
  BY SubsAssumption DEF Init, BusType, LogType, QueueType, CountType
<1> QED
  BY <1>1, TypeParts DEF TypeInv

LEMMA TypeInvariant == Spec => []TypeInv
BY TypeInit, TypeStep, PTL DEF Spec

\* Every reachable state of the bus has its type; in particular no subscriber's
\* queue is ever longer than its capacity.
THEOREM BusTypeCorrect == Spec => []TypeOK
BY TypeInvariant, PTL DEF TypeInv

-----------------------------------------------------------------------------
(* The log is never behind.                                                *)

Logged(l, e, n) == \E i \in 1..n : l[i] = e
InHand == {"done", "unlogged"}

\* A row is written once, by a publisher that has come to its INSERT; a publisher
\* whose COMMIT has returned has its row among the durable ones.
LogInv ==
  /\ \A i, j \in 1..Len(log) : log[i] = log[j] => i = j
  /\ \A i \in 1..Len(log) : pc[log[i]] \notin {"idle", "insert", "refused"}
  /\ \A e \in Events : /\ pc[e] = "commit" => Logged(log, e, Len(log))
                       /\ pc[e] \in {"persisted", "done"} => Logged(log, e, durable)

\* Only what was fanned out is in a queue or was handed over.
FannedOut ==
  /\ \A s \in Subs : \A i \in 1..Len(queue[s]) : pc[queue[s][i]] \in InHand
  /\ \A e \in handed : pc[e] \in InHand

BehindInv == TypeInv /\ LogInv /\ FannedOut

LEMMA LogFrame ==
  ASSUME LogInv, FannedOut, UNCHANGED <<pc, log, durable>>
  PROVE  LogInv'
BY DEF LogInv, Logged

LEMMA PublisherLog ==
  ASSUME BehindInv, NEW e \in Events, EventStep(e)
  PROVE  LogInv'
<1>t. LogType
  BY TypeParts DEF BehindInv, TypeInv
<1>1. \A f \in Events \ {e} : pc'[f] = pc[f]
  BY <1>t DEF EventStep, Publish, Insert, Commit, PersistFails, Fanout, LogType
<1>2. CASE Insert(e)
  <2>1. log' = Append(log, e) /\ durable' = durable /\ pc'[e] = "commit" /\ pc[e] = "insert"
    BY <1>2, <1>t DEF Insert, LogType
  <2>2. /\ Len(log') = Len(log) + 1 /\ log'[Len(log) + 1] = e
        /\ \A i \in 1..Len(log) : log'[i] = log[i]
        /\ Len(log) \in Nat /\ durable \in 0..Len(log)
    BY <2>1, <1>t DEF LogType
  <2>3. \A i \in 1..Len(log) : log[i] # e /\ log[i] \in Events
    BY <2>1, <1>t DEF BehindInv, LogInv, LogType
  <2>4. \A i, j \in 1..Len(log') : log'[i] = log'[j] => i = j
    <3> TAKE i, j \in 1..Len(log')
    <3>1. i \in 1..Len(log) \/ i = Len(log) + 1
      BY <2>2
    <3>2. j \in 1..Len(log) \/ j = Len(log) + 1
      BY <2>2
    <3> QED
      BY <3>1, <3>2, <2>2, <2>3 DEF BehindInv, LogInv
  <2>5. \A i \in 1..Len(log') : pc'[log'[i]] \notin {"idle", "insert", "refused"}
    <3> TAKE i \in 1..Len(log')
    <3>1. i \in 1..Len(log) \/ i = Len(log) + 1
      BY <2>2
    <3>2. CASE i \in 1..Len(log)
      BY <1>1, <2>2, <2>3, <3>2 DEF BehindInv, LogInv
    <3>3. CASE i = Len(log) + 1
      BY <2>1, <2>2, <3>3
    <3> QED
      BY <3>1, <3>2, <3>3
  <2>6. \A f \in Events \ {e} : /\ Logged(log, f, Len(log)) => Logged(log', f, Len(log'))
                                /\ Logged(log, f, durable) => Logged(log', f, durable')
    <3> TAKE f \in Events \ {e}
    <3>1. \A i \in 1..durable : i \in 1..Len(log) /\ log'[i] = log[i]
      BY <2>2
    <3>2. Logged(log, f, durable) => Logged(log', f, durable')
      BY <2>1, <3>1 DEF Logged
    <3>3. \A i \in 1..Len(log) : i \in 1..Len(log') /\ log'[i] = log[i]
      BY <2>2
    <3>4. Logged(log, f, Len(log)) => Logged(log', f, Len(log'))
      BY <3>3 DEF Logged
    <3> QED
      BY <3>2, <3>4
  <2>7. Logged(log', e, Len(log'))
    <3>1. Len(log) + 1 \in 1..Len(log')
      BY <2>2
    <3> QED
      BY <2>2, <3>1 DEF Logged
  <2>8. \A f \in Events : /\ pc'[f] = "commit" => Logged(log', f, Len(log'))
                          /\ pc'[f] \in {"persisted", "done"} => Logged(log', f, durable')
    <3> TAKE f \in Events
    <3>1. CASE f = e
      BY <2>1, <2>7, <3>1
    <3>2. CASE f # e
      <4>1. pc'[f] = pc[f] /\ f \in Events \ {e}
        BY <1>1, <3>2
      <4>2. /\ pc[f] = "commit" => Logged(log, f, Len(log))
            /\ pc[f] \in {"persisted", "done"} => Logged(log, f, durable)
        BY DEF BehindInv, LogInv
      <4> QED
        BY <2>6, <4>1, <4>2 DEF Logged
    <3> QED
      BY <3>1, <3>2
  <2> QED
    BY <2>4, <2>5, <2>8 DEF LogInv, Logged
<1>3. CASE Commit(e)
  <2>1. log' = log /\ durable' = Len(log) /\ pc[e] = "commit" /\ pc'[e] = "persisted"
    BY <1>3, <1>t DEF Commit, LogType
  <2>2. \A f \in Events : Logged(log, f, durable) => Logged(log', f, durable')
    <3>1. \A i \in 1..durable : i \in 1..Len(log)
      BY <1>t DEF LogType
    <3> QED
      BY <2>1, <3>1 DEF Logged
  <2>3. Logged(log', e, durable')
    BY <2>1 DEF BehindInv, LogInv, Logged
  <2>4. \A i \in 1..Len(log) : log[i] \in Events
    BY <1>t DEF LogType
  <2>5. \A f \in Events : Logged(log, f, Len(log)) => Logged(log', f, Len(log'))
    BY <2>1 DEF Logged
  <2> QED
    BY <1>1, <2>1, <2>2, <2>3, <2>4, <2>5 DEF BehindInv, LogInv
<1>4. CASE Publish(e) \/ PersistFails(e) \/ Fanout(e)
  <2>1. /\ log' = log /\ durable' = durable
        /\ pc'[e] \in {"idle", "insert", "refused"} => pc[e] = "idle"
        /\ pc'[e] # "commit"
        /\ pc'[e] \in {"persisted", "done"} => pc[e] = "persisted"
    BY <1>4, <1>t DEF Publish, PersistFails, Fanout, LogType
  <2>2. \A i \in 1..Len(log) : log[i] \in Events
    BY <1>t DEF LogType
  <2>4. \A i \in 1..Len(log') : pc'[log'[i]] \notin {"idle", "insert", "refused"}
    BY <1>1, <2>1, <2>2 DEF BehindInv, LogInv
  <2>5. \A f \in Events : /\ pc'[f] = "commit" => Logged(log', f, Len(log'))
                          /\ pc'[f] \in {"persisted", "done"} => Logged(log', f, durable')
    BY <1>1, <2>1 DEF BehindInv, LogInv
  <2>6. \A i, j \in 1..Len(log') : log'[i] = log'[j] => i = j
    BY <2>1 DEF BehindInv, LogInv
  <2> QED
    BY <2>4, <2>5, <2>6 DEF LogInv, Logged
<1> QED
  BY <1>2, <1>3, <1>4 DEF EventStep

LEMMA CrashLog ==
  ASSUME BehindInv, Crash
  PROVE  LogInv'
<1>t. LogType
  BY TypeParts DEF BehindInv, TypeInv
<1>1. /\ log' = SubSeq(log, 1, durable) /\ durable' = durable
      /\ \A e \in Events : pc'[e] = IF pc[e] \in Publishing THEN "lost" ELSE pc[e]
  BY DEF Crash
<1>2. /\ Len(log') = durable /\ durable \in Nat /\ durable <= Len(log)
      /\ \A i \in 1..durable : log'[i] = log[i] /\ i \in 1..Len(log) /\ log[i] \in Events
  BY <1>1, <1>t DEF LogType
<1>3. \A i, j \in 1..Len(log') : log'[i] = log'[j] => i = j
  BY <1>2 DEF BehindInv, LogInv
<1>4. \A i \in 1..Len(log') : pc'[log'[i]] \notin {"idle", "insert", "refused"}
  <2> TAKE i \in 1..Len(log')
  <2>1. log'[i] = log[i] /\ log[i] \in Events /\ pc[log[i]] \notin {"idle", "insert", "refused"}
    BY <1>2 DEF BehindInv, LogInv
  <2>2. pc'[log[i]] \in {"lost", pc[log[i]]}
    BY <1>1, <2>1
  <2> QED
    BY <2>1, <2>2
<1>5. \A e \in Events : Logged(log, e, durable) => Logged(log', e, durable')
  BY <1>1, <1>2 DEF Logged
<1>6. \A e \in Events : pc'[e] \notin Publishing /\ (pc'[e] = "done" => pc[e] = "done")
  BY <1>1 DEF Publishing
<1> QED
  BY <1>3, <1>4, <1>5, <1>6 DEF BehindInv, LogInv, Publishing

LEMMA FanoutFannedOut ==
  ASSUME BehindInv, NEW e \in Events, Fanout(e)
  PROVE  FannedOut'
<1>t. LogType /\ QueueType
  BY TypeParts DEF BehindInv, TypeInv
<1>1. pc'[e] \in InHand /\ \A f \in Events : pc[f] \in InHand => pc'[f] \in InHand
  BY <1>t DEF Fanout, LogType, InHand
<1>2. ASSUME NEW s \in Subs, NEW i \in 1..Len(queue'[s]) PROVE pc'[queue'[s][i]] \in InHand
  <2> DEFINE q == IF Full(s) THEN Tail(queue[s]) ELSE queue[s]
  <2>1. queue[s] \in Seq(Events) /\ Capacity[s] \in Nat \ {0}
    BY <1>t, SubsAssumption DEF QueueType
  <2>2. CASE s \notin Targets(e)
    <3>1. queue'[s] = queue[s]
      BY <2>2 DEF Fanout
    <3>2. queue[s][i] \in Events /\ pc[queue[s][i]] \in InHand
      BY <1>2, <2>1, <3>1 DEF BehindInv, FannedOut
    <3> QED
      BY <1>1, <3>1, <3>2
  <2>3. CASE s \in Targets(e)
    <3>1. queue'[s] = Append(q, e)
      BY <2>3 DEF Fanout
    <3>2. /\ q \in Seq(Events)
          /\ \A k \in 1..Len(q) : \E j \in 1..Len(queue[s]) : q[k] = queue[s][j]
      <4>1. CASE Full(s)
        <5>1. queue[s] # <<>> /\ q = Tail(queue[s])
          BY <2>1, <4>1 DEF Full
        <5>2. Len(q) = Len(queue[s]) - 1 /\ \A k \in 1..Len(q) : q[k] = queue[s][k + 1]
          <6>1. /\ Len(Tail(queue[s])) = Len(queue[s]) - 1
                /\ \A k \in 1..Len(Tail(queue[s])) : Tail(queue[s])[k] = queue[s][k + 1]
            BY <2>1, <5>1
          <6> QED
            BY <5>1, <6>1
        <5>3. \A k \in 1..Len(q) : k + 1 \in 1..Len(queue[s])
          BY <2>1, <5>2
        <5> QED
          BY <2>1, <5>1, <5>2, <5>3
      <4>2. CASE ~Full(s)
        BY <2>1, <4>2
      <4> QED
        BY <4>1, <4>2
    <3>3. CASE i \in 1..Len(q)
      <4>1. PICK j \in 1..Len(queue[s]) : q[i] = queue[s][j]
        BY <3>2, <3>3
      <4>2. queue'[s][i] = queue[s][j]
        BY <3>1, <3>2, <3>3, <4>1
      <4>3. queue[s][j] \in Events /\ pc[queue[s][j]] \in InHand
        BY <2>1, <4>1 DEF BehindInv, FannedOut
      <4> QED
        BY <1>1, <4>2, <4>3
    <3>4. CASE i = Len(q) + 1
      BY <1>1, <3>1, <3>2, <3>4
    <3>5. i \in 1..(Len(q) + 1)
      BY <1>2, <3>1, <3>2
    <3> QED
      BY <3>2, <3>3, <3>4, <3>5
  <2> QED
    BY <2>2, <2>3
<1>3. \A f \in handed' : pc'[f] \in InHand
  BY <1>t, <1>1 DEF Fanout, BehindInv, FannedOut, QueueType
<1> QED
  BY <1>2, <1>3 DEF FannedOut

LEMMA FannedOutStep ==
  ASSUME BehindInv, [Next]_vars
  PROVE  FannedOut'
<1>t. LogType /\ QueueType
  BY TypeParts DEF BehindInv, TypeInv
<1>1. ASSUME NEW e \in Events, EventStep(e), ~Fanout(e) PROVE FannedOut'
  <2>1. queue' = queue /\ handed' = handed
    BY <1>1 DEF EventStep, Publish, Insert, Commit, PersistFails, history
  <2>2. \A f \in Events : pc[f] \in InHand => pc'[f] = pc[f]
    BY <1>1, <1>t DEF EventStep, Publish, Insert, Commit, PersistFails, LogType, InHand
  <2>3. \A s \in Subs : \A i \in 1..Len(queue[s]) : queue[s][i] \in Events
    BY <1>t DEF QueueType
  <2> QED
    BY <1>t, <2>1, <2>2, <2>3 DEF BehindInv, FannedOut, QueueType
<1>2. ASSUME NEW s \in Subs, SubStep(s), ~Take(s) PROVE FannedOut'
  BY <1>2 DEF SubStep, Subscribe, Unsubscribe, CallbackEnds, ConsumerEnds, ShutdownCancels, history,
              BehindInv, FannedOut
<1>3. ASSUME NEW s \in Subs, Take(s) PROVE FannedOut'
  <2>1. /\ queue[s] \in Seq(Events) /\ queue[s] # <<>> /\ pc' = pc
        /\ queue'[s] = Tail(queue[s]) /\ handed' = handed \union {Head(queue[s])}
        /\ \A u \in Subs \ {s} : queue'[u] = queue[u]
    BY <1>3, <1>t DEF Take, QueueType
  <2>2. /\ 1 \in 1..Len(queue[s]) /\ Head(queue[s]) = queue[s][1]
        /\ \A i \in 1..Len(queue'[s]) : i + 1 \in 1..Len(queue[s]) /\ queue'[s][i] = queue[s][i + 1]
    BY <2>1
  <2>3. \A u \in Subs : \A i \in 1..Len(queue'[u]) : pc[queue'[u][i]] \in InHand
    <3> TAKE u \in Subs
    <3>1. CASE u = s
      <4>1. \A k \in 1..Len(queue[s]) : pc[queue[s][k]] \in InHand
        BY DEF BehindInv, FannedOut
      <4>2. \A i \in 1..Len(queue'[s]) : pc[queue[s][i + 1]] \in InHand
        BY <2>2, <4>1
      <4> QED
        BY <2>2, <3>1, <4>2
    <3>2. CASE u # s
      BY <2>1, <3>2 DEF BehindInv, FannedOut
    <3> QED
      BY <3>1, <3>2
  <2>4. \A f \in handed' : pc[f] \in InHand
    BY <2>1, <2>2 DEF BehindInv, FannedOut
  <2> QED
    BY <2>1, <2>3, <2>4 DEF FannedOut
<1>4. CASE Shutdown \/ ShutdownEnds \/ UNCHANGED vars
  BY <1>4 DEF Shutdown, ShutdownEnds, vars, history, BehindInv, FannedOut
<1>5. CASE Crash
  <2>1. \A s \in Subs : queue'[s] = <<>>
    BY <1>5 DEF Crash
  <2>2. \A s \in Subs : Len(queue'[s]) = 0
    BY <2>1
  <2>3. handed' = handed /\ \A f \in Events : pc[f] \in InHand => pc'[f] = pc[f]
    BY <1>5 DEF Crash, InHand, Publishing
  <2>4. \A s \in Subs : \A i \in 1..Len(queue'[s]) : FALSE
    BY <2>2
  <2> QED
    BY <1>t, <2>3, <2>4 DEF BehindInv, FannedOut, QueueType
<1> QED
  BY Steps, FanoutFannedOut, <1>1, <1>2, <1>3, <1>4, <1>5 DEF OtherStep

LEMMA LogStep ==
  ASSUME BehindInv, [Next]_vars
  PROVE  LogInv'
<1>1. ASSUME NEW s \in Subs, SubStep(s) PROVE LogInv'
  BY <1>1, LogFrame DEF SubStep, Subscribe, Unsubscribe, Take, CallbackEnds, ConsumerEnds,
                        ShutdownCancels, BehindInv
<1>2. CASE Shutdown \/ ShutdownEnds \/ UNCHANGED vars
  BY <1>2, LogFrame DEF Shutdown, ShutdownEnds, vars, BehindInv
<1> QED
  BY Steps, PublisherLog, CrashLog, <1>1, <1>2 DEF OtherStep

LEMMA BehindInvariant == Spec => []BehindInv
<1>1. Init => BehindInv
  <2> SUFFICES ASSUME Init PROVE BehindInv
    OBVIOUS
  <2>1. log = <<>> /\ Len(log) = 0
    BY DEF Init
  <2>2. \A i \in 1..Len(log) : FALSE
    BY <2>1
  <2>3. LogInv
    BY <2>2 DEF Init, LogInv
  <2>4. \A s \in Subs : Len(queue[s]) = 0
    BY DEF Init
  <2>5. \A s \in Subs : \A i \in 1..Len(queue[s]) : FALSE
    BY <2>4
  <2>6. FannedOut
    BY <2>5 DEF Init, FannedOut
  <2> QED
    BY <2>3, <2>6, TypeInit DEF BehindInv
<1>2. BehindInv /\ [Next]_vars => BehindInv'
  BY TypeStep, LogStep, FannedOutStep DEF BehindInv
<1> QED
  BY <1>1, <1>2, PTL DEF Spec

\* "Persist BEFORE fanout so the log is never behind": what a callback was ever
\* handed has exactly one durable row, unless publish() was told of a failure.
THEOREM BusLogNeverBehind == Spec => []LogNeverBehind
<1>1. ASSUME BehindInv PROVE LogNeverBehind
  <2>t. LogType /\ QueueType
    BY <1>1, TypeParts DEF BehindInv, TypeInv
  <2> SUFFICES ASSUME NEW e \in handed, pc[e] # "unlogged"
               PROVE  Cardinality({i \in 1..durable : log[i] = e}) = 1
    BY DEF LogNeverBehind
  <2>1. e \in Events /\ pc[e] = "done"
    BY <1>1, <2>t DEF BehindInv, FannedOut, InHand, QueueType
  <2>2. PICK i \in 1..durable : log[i] = e
    BY <1>1, <2>1 DEF BehindInv, LogInv, Logged
  <2>3. \A j \in 1..durable : j \in 1..Len(log)
    BY <2>t DEF LogType
  <2>4. {j \in 1..durable : log[j] = e} = {i}
    BY <1>1, <2>2, <2>3 DEF BehindInv, LogInv
  <2> QED
    BY <2>4, FS_Singleton
<1> QED
  BY <1>1, BehindInvariant, PTL

-----------------------------------------------------------------------------
(* A queue is the sliding window over what was offered.                    *)

\* A queue holds the last events that were offered, in their order.
Suffix(q, o) ==
  /\ Len(q) <= Len(o)
  /\ \A i \in 1..Len(q) : q[i] = o[Len(o) - Len(q) + i]

WindowInv == TypeInv /\ \A s \in Subs : Suffix(queue[s], offered[s])

LEMMA SuffixIs ==
  ASSUME NEW q, NEW o, NEW m \in Nat, NEW n \in Nat, Len(q) = m, Len(o) = n, m <= n,
         \A i \in 1..m : q[i] = o[n - m + i]
  PROVE  Suffix(q, o)
BY DEF Suffix

LEMMA SuffixOffer ==
  ASSUME NEW q \in Seq(Events), NEW o \in Seq(Events), Suffix(q, o), NEW e \in Events
  PROVE  /\ Suffix(Append(q, e), Append(o, e))
         /\ q # <<>> => Suffix(Append(Tail(q), e), Append(o, e))
<1>0. Len(q) \in Nat /\ Len(o) \in Nat /\ Len(q) <= Len(o)
  BY DEF Suffix
<1>1. /\ Len(Append(o, e)) = Len(o) + 1 /\ Append(o, e)[Len(o) + 1] = e
      /\ \A i \in 1..Len(o) : Append(o, e)[i] = o[i]
  OBVIOUS
<1>2. PICK n \in Nat : n = Len(o) + 1
  BY <1>0
<1>3. Suffix(Append(q, e), Append(o, e))
  <2>1. /\ Len(Append(q, e)) = Len(q) + 1 /\ Append(q, e)[Len(q) + 1] = e
        /\ \A i \in 1..Len(q) : Append(q, e)[i] = q[i]
    OBVIOUS
  <2>2. PICK m \in Nat : m = Len(q) + 1
    BY <1>0
  <2>3. ASSUME NEW i \in 1..m PROVE Append(q, e)[i] = Append(o, e)[n - m + i]
    <3>1. CASE i \in 1..Len(q)
      <4>1. Len(o) - Len(q) + i \in 1..Len(o) /\ n - m + i = Len(o) - Len(q) + i
        BY <1>0, <1>2, <2>2, <3>1
      <4>2. q[i] = o[Len(o) - Len(q) + i]
        BY <3>1 DEF Suffix
      <4> QED
        BY <1>1, <2>1, <3>1, <4>1, <4>2
    <3>2. CASE i = Len(q) + 1
      <4>1. n - m + i = Len(o) + 1
        BY <1>0, <1>2, <2>2, <3>2
      <4> QED
        BY <1>1, <2>1, <3>2, <4>1
    <3>3. i \in 1..Len(q) \/ i = Len(q) + 1
      BY <1>0, <2>2, <2>3
    <3> QED
      BY <3>1, <3>2, <3>3
  <2>4. Len(Append(q, e)) = m /\ Len(Append(o, e)) = n /\ m <= n
    BY <1>0, <1>1, <1>2, <2>1, <2>2
  <2> QED
    BY <2>3, <2>4, SuffixIs
<1>4. ASSUME q # <<>> PROVE Suffix(Append(Tail(q), e), Append(o, e))
  <2> DEFINE t == Tail(q)
  <2>1. /\ t \in Seq(Events) /\ Len(t) = Len(q) - 1 /\ Len(q) >= 1
        /\ \A i \in 1..Len(t) : t[i] = q[i + 1]
    BY <1>4
  <2> HIDE DEF t
  <2>2. /\ Len(Append(t, e)) = Len(t) + 1 /\ Append(t, e)[Len(t) + 1] = e
        /\ \A i \in 1..Len(t) : Append(t, e)[i] = t[i]
    BY <2>1
  <2>3. PICK m \in Nat : m = Len(q)
    BY <1>0
  <2>4. ASSUME NEW i \in 1..m PROVE Append(t, e)[i] = Append(o, e)[n - m + i]
    <3>1. CASE i \in 1..Len(t)
      <4>1. /\ i + 1 \in 1..Len(q) /\ Len(o) - Len(q) + (i + 1) \in 1..Len(o)
            /\ n - m + i = Len(o) - Len(q) + (i + 1)
        BY <1>0, <1>2, <2>1, <2>3, <3>1
      <4>2. q[i + 1] = o[Len(o) - Len(q) + (i + 1)]
        BY <4>1 DEF Suffix
      <4> QED
        BY <1>1, <2>1, <2>2, <3>1, <4>1, <4>2
    <3>2. CASE i = Len(t) + 1
      <4>1. n - m + i = Len(o) + 1
        BY <1>0, <1>2, <2>1, <2>3, <3>2
      <4> QED
        BY <1>1, <2>2, <3>2, <4>1
    <3>3. i \in 1..Len(t) \/ i = Len(t) + 1
      BY <1>0, <2>1, <2>3, <2>4
    <3> QED
      BY <3>1, <3>2, <3>3
  <2>5. Len(Append(t, e)) = m /\ Len(Append(o, e)) = n /\ m <= n
    BY <1>0, <1>1, <1>2, <2>1, <2>2, <2>3
  <2>6. Suffix(Append(t, e), Append(o, e))
    BY <2>4, <2>5, SuffixIs
  <2> QED
    BY <2>6 DEF t
<1> QED
  BY <1>3, <1>4

LEMMA SuffixTake ==
  ASSUME NEW q \in Seq(Events), NEW o \in Seq(Events), Suffix(q, o), q # <<>>
  PROVE  Suffix(Tail(q), o) /\ Head(q) = o[Len(o) - Len(q) + 1]
<1> DEFINE t == Tail(q)
<1>0. Len(q) \in Nat /\ Len(o) \in Nat /\ Len(q) <= Len(o) /\ Len(q) >= 1
  BY DEF Suffix
<1>1. /\ t \in Seq(Events) /\ Len(t) = Len(q) - 1
      /\ \A i \in 1..Len(t) : t[i] = q[i + 1]
  OBVIOUS
<1>2. Head(q) = q[1] /\ 1 \in 1..Len(q)
  BY <1>0
<1> HIDE DEF t
<1>3. ASSUME NEW i \in 1..Len(t) PROVE t[i] = o[Len(o) - Len(t) + i]
  <2>1. i + 1 \in 1..Len(q) /\ Len(o) - Len(q) + (i + 1) = Len(o) - Len(t) + i
    BY <1>0, <1>1
  <2> QED
    BY <1>1, <2>1 DEF Suffix
<1>4. Suffix(t, o)
  BY <1>0, <1>1, <1>3 DEF Suffix
<1> QED
  BY <1>2, <1>4 DEF Suffix, t

LEMMA SuffixStep ==
  ASSUME WindowInv, [Next]_vars
  PROVE  \A s \in Subs : Suffix(queue'[s], offered'[s])
<1>t. QueueType
  BY TypeParts DEF WindowInv, TypeInv
<1>1. ASSUME UNCHANGED <<queue, offered>> PROVE \A s \in Subs : Suffix(queue'[s], offered'[s])
  BY <1>1 DEF WindowInv
<1>2. ASSUME NEW e \in Events, Fanout(e) PROVE \A s \in Subs : Suffix(queue'[s], offered'[s])
  <2> TAKE s \in Subs
  <2>1. /\ queue[s] \in Seq(Events) /\ offered[s] \in Seq(Events) /\ Capacity[s] \in Nat \ {0}
        /\ Suffix(queue[s], offered[s])
    BY <1>t, SubsAssumption DEF QueueType, WindowInv
  <2>2. CASE s \in Targets(e)
    <3>1. /\ queue'[s] = Append(IF Full(s) THEN Tail(queue[s]) ELSE queue[s], e)
          /\ offered'[s] = Append(offered[s], e)
      BY <1>2, <2>2 DEF Fanout
    <3>2. Full(s) => queue[s] # <<>>
      BY <2>1 DEF Full
    <3> QED
      BY <2>1, <3>1, <3>2, SuffixOffer
  <2>3. CASE s \notin Targets(e)
    BY <1>2, <2>1, <2>3 DEF Fanout
  <2> QED
    BY <2>2, <2>3
<1>3. ASSUME NEW u \in Subs, Take(u) PROVE \A s \in Subs : Suffix(queue'[s], offered'[s])
  <2>1. /\ queue'[u] = Tail(queue[u]) /\ queue[u] # <<>> /\ offered' = offered
        /\ \A s \in Subs \ {u} : queue'[s] = queue[s]
    BY <1>3, <1>t DEF Take, QueueType
  <2>2. Suffix(queue'[u], offered'[u])
    BY <1>t, <2>1, SuffixTake DEF WindowInv, QueueType
  <2> QED
    BY <2>1, <2>2 DEF WindowInv
<1>4. CASE Crash
  <2>1. \A s \in Subs : queue'[s] = <<>> /\ offered'[s] = <<>>
    BY <1>4 DEF Crash
  <2>2. Suffix(<<>>, <<>>)
    BY DEF Suffix
  <2> QED
    BY <2>1, <2>2
<1>5. CASE Shutdown \/ ShutdownEnds \/ UNCHANGED vars
  BY <1>1, <1>5 DEF Shutdown, ShutdownEnds, vars, history
<1>6. ASSUME NEW e \in Events, EventStep(e), ~Fanout(e)
      PROVE  \A s \in Subs : Suffix(queue'[s], offered'[s])
  BY <1>1, <1>6 DEF EventStep, Publish, Insert, Commit, PersistFails, history
<1>7. ASSUME NEW u \in Subs, SubStep(u), ~Take(u)
      PROVE  \A s \in Subs : Suffix(queue'[s], offered'[s])
  BY <1>1, <1>7 DEF SubStep, Subscribe, Unsubscribe, CallbackEnds, ConsumerEnds, ShutdownCancels,
                    history
<1> QED
  BY Steps, <1>2, <1>3, <1>4, <1>5, <1>6, <1>7 DEF OtherStep

LEMMA WindowInvariant == Spec => []WindowInv
<1>1. Init => WindowInv
  <2> SUFFICES ASSUME Init PROVE WindowInv
    OBVIOUS
  <2>1. Suffix(<<>>, <<>>)
    BY DEF Suffix
  <2>2. \A s \in Subs : queue[s] = <<>> /\ offered[s] = <<>>
    BY DEF Init
  <2> QED
    BY <2>1, <2>2, TypeInit DEF WindowInv
<1>2. WindowInv /\ [Next]_vars => WindowInv'
  BY TypeStep, SuffixStep DEF WindowInv
<1> QED
  BY <1>1, <1>2, PTL DEF Spec

\* Where the window over the events of a subscriber begins.
Position == [s \in Subs |-> Len(offered[s]) - Len(queue[s]) + 1]

\* Where the window begins once the offered events, or both they and the queue,
\* are one longer.
LEMMA SlideCases ==
  ASSUME NEW s \in Subs, NEW a \in Nat, NEW b \in Nat, b <= Capacity[s]
  PROVE  /\ a - b + 1 = Window!Slide(s, a - b + 1, a)
         /\ b = Capacity[s] => (a + 1) - b + 1 = Window!Slide(s, a - b + 1, a + 1)
         /\ b < Capacity[s] => (a + 1) - (b + 1) + 1 = Window!Slide(s, a - b + 1, a + 1)
<1>1. PICK c \in Nat : Capacity[s] = c
  BY SubsAssumption
<1> QED
  BY <1>1 DEF Window!Slide

LEMMA FanoutSlides ==
  ASSUME WindowInv, NEW e \in Events, Fanout(e)
  PROVE  Window!Offer(e)
<1>t. QueueType /\ BusType
  BY TypeParts DEF WindowInv, TypeInv
<1>1. Targets(e) \in SUBSET {s \in Subs : e \in Wants[s]}
  BY <1>t DEF Targets, BusType
<1>2. offered' = [s \in Subs |-> IF s \in Targets(e) THEN Append(offered[s], e) ELSE offered[s]]
  BY DEF Fanout
<1>3. got' = got
  BY DEF Fanout
<1>4. ASSUME NEW s \in Subs
      PROVE  Len(offered'[s]) - Len(queue'[s]) + 1
               = Window!Slide(s, Len(offered[s]) - Len(queue[s]) + 1, Len(offered'[s]))
  <2>1. /\ queue[s] \in Seq(Events) /\ offered[s] \in Seq(Events) /\ Capacity[s] \in Nat \ {0}
        /\ Len(queue[s]) <= Capacity[s]
    BY <1>t, SubsAssumption DEF QueueType
  <2>2. /\ Len(queue[s]) \in Nat /\ Len(offered[s]) \in Nat /\ Capacity[s] \in Nat \ {0}
        /\ Len(queue[s]) <= Capacity[s]
    BY <2>1
  <2>a. PICK a \in Nat : a = Len(offered[s])
    BY <2>2
  <2>b. PICK b \in Nat : b = Len(queue[s]) /\ b <= Capacity[s]
    BY <2>2
  <2>3. CASE s \notin Targets(e)
    <3>1. queue'[s] = queue[s] /\ offered'[s] = offered[s]
      BY <2>3 DEF Fanout
    <3>2. Len(offered'[s]) = Len(offered[s]) /\ Len(queue'[s]) = Len(queue[s])
      BY <3>1
    <3> QED
      <4>1. a - b + 1 = Window!Slide(s, a - b + 1, a)
        BY <2>b, SlideCases
      <4> QED
        BY <2>a, <2>b, <3>2, <4>1, Zenon
  <2>4. CASE s \in Targets(e)
    <3>1. /\ queue'[s] = Append(IF Full(s) THEN Tail(queue[s]) ELSE queue[s], e)
          /\ offered'[s] = Append(offered[s], e)
      BY <2>4 DEF Fanout
    <3>2. Len(offered'[s]) = Len(offered[s]) + 1
      BY <2>1, <3>1
    <3>3. CASE Full(s)
      <4>1. Len(queue[s]) = Capacity[s] /\ queue[s] # <<>>
        BY <2>1, <2>2, <3>3 DEF Full
      <4>2. Len(queue'[s]) = Len(queue[s])
        BY <2>1, <3>1, <3>3, <4>1
      <4>3. (a + 1) - b + 1 = Window!Slide(s, a - b + 1, a + 1)
        BY <2>b, <4>1, SlideCases
      <4> QED
        BY <2>a, <2>b, <3>2, <4>2, <4>3, Zenon
    <3>4. CASE ~Full(s)
      <4>1. Len(queue[s]) < Capacity[s]
        BY <2>1, <2>2, <3>4 DEF Full
      <4>2. Len(queue'[s]) = Len(queue[s]) + 1
        BY <2>1, <3>1, <3>4
      <4>3. (a + 1) - (b + 1) + 1 = Window!Slide(s, a - b + 1, a + 1)
        BY <2>b, <4>1, SlideCases
      <4> QED
        BY <2>a, <2>b, <3>2, <4>2, <4>3, Zenon
    <3> QED
      BY <3>3, <3>4
  <2> QED
    BY <2>3, <2>4
<1>5. Position' = [s \in Subs |-> Window!Slide(s, Position[s], Len(offered'[s]))]
  BY <1>4 DEF Position
<1> QED
  BY <1>1, <1>2, <1>3, <1>5 DEF Window!Offer, Position

LEMMA TakeAdvances ==
  ASSUME WindowInv, NEW s \in Subs, Take(s)
  PROVE  Window!Take(s)
<1>t. QueueType
  BY TypeParts DEF WindowInv, TypeInv
<1>1. /\ queue[s] \in Seq(Events) /\ queue[s] # <<>> /\ offered[s] \in Seq(Events)
      /\ Suffix(queue[s], offered[s])
  BY <1>t DEF Take, QueueType, WindowInv
<1>2. /\ Len(queue[s]) \in Nat /\ Len(queue[s]) >= 1 /\ Len(offered[s]) \in Nat
      /\ Len(Tail(queue[s])) = Len(queue[s]) - 1
  BY <1>1
<1>3. Head(queue[s]) = offered[s][Len(offered[s]) - Len(queue[s]) + 1]
  BY <1>1, SuffixTake
<1>4. /\ queue' = [queue EXCEPT ![s] = Tail(queue[s])]
      /\ got' = [got EXCEPT ![s] = Append(got[s], Head(queue[s]))]
      /\ offered' = offered
  BY DEF Take
<1>5. Position[s] <= Len(offered[s]) /\ offered[s][Position[s]] = Head(queue[s])
  <2>1. Position[s] = Len(offered[s]) - Len(queue[s]) + 1
    BY DEF Position
  <2>2. Len(offered[s]) - Len(queue[s]) + 1 <= Len(offered[s])
    BY <1>2
  <2> QED
    BY <1>3, <2>1, <2>2
<1>6. Position' = [Position EXCEPT ![s] = Position[s] + 1]
  <2>1. Len(offered'[s]) - Len(queue'[s]) + 1 = Len(offered[s]) - Len(queue[s]) + 1 + 1
    <3>1. queue'[s] = Tail(queue[s]) /\ offered'[s] = offered[s]
      BY <1>t, <1>4 DEF QueueType
    <3>2. Len(queue'[s]) = Len(queue[s]) - 1 /\ Len(offered'[s]) = Len(offered[s])
      BY <1>2, <3>1
    <3>3. Len(queue[s]) \in Nat /\ Len(offered[s]) \in Nat
      BY <1>2
    <3> QED
      BY <3>2, <3>3
  <2>2. \A u \in Subs \ {s} : queue'[u] = queue[u] /\ offered'[u] = offered[u]
    BY <1>t, <1>4 DEF QueueType
  <2> QED
    BY <2>1, <2>2 DEF Position
<1>7. got' = [got EXCEPT ![s] = Append(got[s], offered[s][Position[s]])]
  BY <1>4, <1>5
<1> QED
  BY <1>4, <1>5, <1>6, <1>7 DEF Window!Take, Position

\* Whatever publishers, consumers and unsubscriptions do, each subscriber takes what
\* it was offered in order, none twice, and misses only what more than its capacity
\* of newer events have pushed out: the bus implements SlidingWindow.
THEOREM BusImplementsWindow == Spec => ImplementsWindow
<1>1. Init => Window!Init
  BY DEF Init, Window!Init
<1>2. WindowInv /\ [Next]_vars => [Window!Next]_<<offered, Position, got>>
  <2> SUFFICES ASSUME WindowInv, [Next]_vars PROVE [Window!Next]_<<offered, Position, got>>
    OBVIOUS
  <2>1. ASSUME UNCHANGED <<queue, offered, got>> PROVE UNCHANGED <<offered, Position, got>>
    BY <2>1 DEF Position
  <2>2. ASSUME NEW e \in Events, Fanout(e) PROVE Window!Next
    BY <2>2, FanoutSlides DEF Window!Next
  <2>3. ASSUME NEW s \in Subs, Take(s) PROVE Window!Next
    BY <2>3, TakeAdvances DEF Window!Next
  <2>4. CASE Crash
    <3>1. /\ offered' = [s \in Subs |-> <<>>] /\ got' = [s \in Subs |-> <<>>]
          /\ \A s \in Subs : offered'[s] = <<>> /\ queue'[s] = <<>>
      BY <2>4 DEF Crash
    <3>2. \A s \in Subs : Len(offered'[s]) - Len(queue'[s]) + 1 = 1
      BY <3>1
    <3>3. Position' = [s \in Subs |-> 1]
      BY <3>2 DEF Position
    <3> QED
      BY <3>1, <3>3 DEF Window!Next, Window!Reset, Position
  <2>5. CASE Shutdown \/ ShutdownEnds \/ UNCHANGED vars
    BY <2>1, <2>5 DEF Shutdown, ShutdownEnds, vars, history
  <2>6. ASSUME NEW e \in Events, EventStep(e), ~Fanout(e) PROVE UNCHANGED <<queue, offered, got>>
    BY <2>6 DEF EventStep, Publish, Insert, Commit, PersistFails, history
  <2>7. ASSUME NEW s \in Subs, SubStep(s), ~Take(s) PROVE UNCHANGED <<queue, offered, got>>
    BY <2>7 DEF SubStep, Subscribe, Unsubscribe, CallbackEnds, ConsumerEnds, ShutdownCancels,
                history
  <2> QED
    BY Steps, <2>1, <2>2, <2>3, <2>4, <2>5, <2>6, <2>7 DEF OtherStep
<1> QED
  BY <1>1, <1>2, WindowInvariant, PTL DEF Spec, ImplementsWindow, Window!Spec, Position
-----------------------------------------------------------------------------
(* Sums.  What SumFunction computes is defined by recursion on sets; that  *)
(* the recursion has a solution, and what holds of it, is shown by taking  *)
(* a least counterexample.                                                 *)

Below == {mn \in Nat \X Nat : mn[1] < mn[2]}

LEMMA LeastNatural ==
  ASSUME NEW T \in SUBSET Nat, T # {}
  PROVE  \E n \in T : \A m \in T : n <= m
<1>1. IsWellFoundedOn(Below, Nat)
  BY NatLessThanWellFounded DEF OpToRel, Below
<1>2. PICK n \in T : \A m \in T : <<m, n>> \notin Below
  BY <1>1, WFMin
<1>3. \A m \in T : ~(m < n)
  BY <1>2 DEF Below
<1> QED
  BY <1>3

Pick(s) == CHOOSE x \in s : TRUE

\* The element that is taken from a set leaves a smaller set.
LEMMA PickSmaller ==
  ASSUME NEW S, IsFiniteSet(S), NEW s \in SUBSET S
  PROVE  /\ IsFiniteSet(s) /\ Cardinality(s) \in Nat /\ Cardinality(s) <= Cardinality(S)
         /\ s # {} => /\ Pick(s) \in s /\ s \ {Pick(s)} \in SUBSET S
                      /\ Cardinality(s \ {Pick(s)}) = Cardinality(s) - 1
<1>1. IsFiniteSet(s) /\ Cardinality(s) \in Nat /\ Cardinality(s) <= Cardinality(S)
  BY FS_Subset, FS_CardinalityType
<1>2. s # {} => Pick(s) \in s /\ s \ {Pick(s)} \in SUBSET S
  BY DEF Pick
<1> QED
  BY <1>1, <1>2, FS_RemoveElement

\* The sums of the values of f over the sets in D.
SumOver(f, h, s) == IF s = {} THEN 0 ELSE f[Pick(s)] + h[s \ {Pick(s)}]
SumsOf(f, D, h) == h = [s \in D |-> SumOver(f, h, s)]

LEMMA SumsAre ==
  ASSUME NEW f, NEW D, NEW h, DOMAIN h = D, h = [s \in D |-> h[s]],
         \A s \in D : h[s] = SumOver(f, h, s)
  PROVE  SumsOf(f, D, h)
BY DEF SumsOf

\* A solution for the sets of up to n elements extends to those of n + 1.
SetsUpTo(S, n) == {s \in SUBSET S : Cardinality(s) <= n}

LEMMA SumsExtend ==
  ASSUME NEW S, IsFiniteSet(S), NEW f, NEW n \in Nat, NEW h, SumsOf(f, SetsUpTo(S, n), h)
  PROVE  \E g : SumsOf(f, SetsUpTo(S, n + 1), g)
<1> DEFINE g == [s \in SetsUpTo(S, n + 1) |-> SumOver(f, h, s)]
<1>0. \A s \in SUBSET S :
        /\ Cardinality(s) \in Nat
        /\ s # {} => /\ s \ {Pick(s)} \in SUBSET S
                     /\ Cardinality(s \ {Pick(s)}) = Cardinality(s) - 1
  BY PickSmaller
<1>1. \A s \in SetsUpTo(S, n) : s \in SetsUpTo(S, n + 1)
  <2> TAKE s \in SetsUpTo(S, n)
  <2>1. s \in SUBSET S /\ Cardinality(s) <= n
    BY DEF SetsUpTo
  <2>2. Cardinality(s) \in Nat
    BY <1>0, <2>1
  <2>3. Cardinality(s) <= n + 1
    BY <2>1, <2>2
  <2> QED
    BY <2>1, <2>3 DEF SetsUpTo
<1>2. \A s \in SetsUpTo(S, n) : g[s] = h[s]
  BY <1>1 DEF SumsOf
<1>3. \A s \in SetsUpTo(S, n + 1) : s # {} => s \ {Pick(s)} \in SetsUpTo(S, n)
  BY <1>0 DEF SetsUpTo
<1>4. \A s \in SetsUpTo(S, n + 1) : g[s] = SumOver(f, g, s)
  <2> TAKE s \in SetsUpTo(S, n + 1)
  <2>1. s # {} => g[s \ {Pick(s)}] = h[s \ {Pick(s)}]
    BY <1>2, <1>3
  <2>2. g[s] = SumOver(f, h, s)
    OBVIOUS
  <2> HIDE DEF g
  <2> QED
    BY <2>1, <2>2 DEF SumOver
<1>5. DOMAIN g = SetsUpTo(S, n + 1) /\ g = [s \in SetsUpTo(S, n + 1) |-> g[s]]
  OBVIOUS
<1> HIDE DEF g
<1>6. SumsOf(f, SetsUpTo(S, n + 1), g)
  BY <1>4, <1>5, SumsAre
<1> QED
  BY <1>6

LEMMA SumsExist ==
  ASSUME NEW S, IsFiniteSet(S), NEW f
  PROVE  \E h : SumsOf(f, SUBSET S, h)
<1> DEFINE Solved(n) == \E h : SumsOf(f, SetsUpTo(S, n), h)
<1>1. Solved(0)
  <2> DEFINE h == [s \in SetsUpTo(S, 0) |-> 0]
  <2>1. \A s \in SetsUpTo(S, 0) : s = {}
    <3> TAKE s \in SetsUpTo(S, 0)
    <3>1. s \in SUBSET S /\ Cardinality(s) <= 0
      BY DEF SetsUpTo
    <3>2. IsFiniteSet(s) /\ Cardinality(s) \in Nat
      BY <3>1, PickSmaller
    <3>3. Cardinality(s) = 0
      BY <3>1, <3>2
    <3> QED
      BY <3>2, <3>3, FS_EmptySet
  <2>2. DOMAIN h = SetsUpTo(S, 0) /\ h = [s \in SetsUpTo(S, 0) |-> h[s]]
    OBVIOUS
  <2>3. \A s \in SetsUpTo(S, 0) : h[s] = SumOver(f, h, s)
    BY <2>1 DEF SumOver
  <2> HIDE DEF h
  <2>4. SumsOf(f, SetsUpTo(S, 0), h)
    BY <2>2, <2>3, SumsAre
  <2> QED
    BY <2>4
<1>2. \A n \in Nat : Solved(n) => Solved(n + 1)
  BY SumsExtend
<1> HIDE DEF Solved
<1>3. \A n \in Nat : Solved(n)
  <2> SUFFICES ASSUME {n \in Nat : ~Solved(n)} # {} PROVE FALSE
    OBVIOUS
  <2>1. PICK n \in {k \in Nat : ~Solved(k)} : \A m \in {k \in Nat : ~Solved(k)} : n <= m
    BY LeastNatural
  <2>2. n - 1 \in Nat /\ Solved(n - 1)
    BY <1>1, <2>1
  <2> QED
    BY <1>2, <2>1, <2>2
<1>4. SetsUpTo(S, Cardinality(S)) = SUBSET S /\ Cardinality(S) \in Nat
  BY PickSmaller DEF SetsUpTo
<1>5. Solved(Cardinality(S))
  BY <1>3, <1>4
<1> QED
  BY <1>4, <1>5 DEF Solved

\* SumFunction is a solution.
LEMMA SumSolves ==
  ASSUME NEW f, IsFiniteSet(DOMAIN f)
  PROVE  \E h : SumsOf(f, SUBSET DOMAIN f, h) /\ SumFunction(f) = h[DOMAIN f]
<1> DEFINE h == CHOOSE g : SumsOf(f, SUBSET DOMAIN f, g)
<1>1. SumsOf(f, SUBSET DOMAIN f, h)
  BY SumsExist
<1>2. SumFunction(f) = h[DOMAIN f]
  BY DEF SumFunction, SumFunctionOnSet, FoldFunctionOnSet, MapThenFoldSet, SumsOf, SumOver, Pick
<1> HIDE DEF h
<1> QED
  BY <1>1, <1>2

\* What holds of the empty set and, when it holds of a set without its picked
\* element, of the set, holds of every subset: no set of counterexamples is left.
LEMMA NoCounterexample ==
  ASSUME NEW S, IsFiniteSet(S), NEW Bad \in SUBSET SUBSET S, {} \notin Bad,
         \A s \in Bad : s # {} => s \ {Pick(s)} \in Bad
  PROVE  Bad = {}
<1> SUFFICES ASSUME Bad # {} PROVE FALSE
  OBVIOUS
<1> DEFINE Sizes == {n \in Nat : \E s \in Bad : Cardinality(s) = n}
<1>1. Sizes # {}
  <2>1. PICK s \in Bad : TRUE
    OBVIOUS
  <2>2. Cardinality(s) \in Nat
    BY PickSmaller
  <2> QED
    BY <2>2
<1>2. PICK n \in Sizes : \A m \in Sizes : n <= m
  BY <1>1, LeastNatural
<1>3. PICK s \in Bad : Cardinality(s) = n
  BY <1>2
<1>4. /\ Cardinality(s \ {Pick(s)}) = n - 1 /\ Cardinality(s \ {Pick(s)}) \in Nat
      /\ s \ {Pick(s)} \in Bad
  BY <1>3, PickSmaller
<1>5. n - 1 \in Sizes
  BY <1>4
<1> QED
  BY <1>2, <1>5

\* A sum of integers is one; when the value at each element of T goes up by one,
\* the sum goes up by the size of T.
LEMMA SumCounts ==
  ASSUME NEW S, IsFiniteSet(S), NEW f \in [S -> Int], NEW g \in [S -> Int], NEW T \in SUBSET S,
         \A x \in S : g[x] = IF x \in T THEN f[x] + 1 ELSE f[x]
  PROVE  SumFunction(f) \in Int /\ SumFunction(g) = SumFunction(f) + Cardinality(T)
<1>1. PICK h : SumsOf(f, SUBSET S, h) /\ SumFunction(f) = h[S]
  BY SumSolves
<1>2. PICK k : SumsOf(g, SUBSET S, k) /\ SumFunction(g) = k[S]
  BY SumSolves
<1>s. \A s \in SUBSET S :
        /\ h[s] = IF s = {} THEN 0 ELSE f[Pick(s)] + h[s \ {Pick(s)}]
        /\ k[s] = IF s = {} THEN 0 ELSE g[Pick(s)] + k[s \ {Pick(s)}]
  BY <1>1, <1>2 DEF SumsOf, SumOver
<1> DEFINE Good(s) == h[s] \in Int /\ k[s] = h[s] + Cardinality(s \intersect T)
           Bad == {s \in SUBSET S : ~Good(s)}
<1>3. {} \notin Bad
  <2>1. h[{}] = 0 /\ k[{}] = 0
    BY <1>s
  <2>2. {} \intersect T = {}
    OBVIOUS
  <2> QED
    BY <2>1, <2>2, FS_EmptySet
<1>4. ASSUME NEW s \in SUBSET S, s # {}, Good(s \ {Pick(s)}) PROVE Good(s)
  <2> DEFINE x == Pick(s)
             r == s \ {x}
  <2>1. x \in s /\ x \in S /\ IsFiniteSet(s) /\ r \in SUBSET S
    BY <1>4, PickSmaller
  <2>2. h[s] = f[x] + h[r] /\ k[s] = g[x] + k[r]
    BY <1>s, <1>4
  <2>3. /\ IsFiniteSet(s \intersect T) /\ Cardinality(s \intersect T) \in Nat
        /\ Cardinality((s \intersect T) \ {x})
             = IF x \in s \intersect T THEN Cardinality(s \intersect T) - 1
               ELSE Cardinality(s \intersect T)
    BY <2>1, FS_Intersection, FS_RemoveElement, FS_CardinalityType
  <2>4. r \intersect T = (s \intersect T) \ {x}
    OBVIOUS
  <2>5. f[x] \in Int /\ g[x] = IF x \in T THEN f[x] + 1 ELSE f[x]
    BY <2>1
  <2>6. h[r] \in Int /\ k[r] = h[r] + Cardinality((s \intersect T) \ {x})
    BY <1>4, <2>4
  <2>7. x \in s \intersect T <=> x \in T
    BY <2>1
  <2> HIDE DEF x, r
  <2>8. h[s] \in Int /\ k[s] = h[s] + Cardinality(s \intersect T)
    BY <2>2, <2>3, <2>5, <2>6, <2>7
  <2> QED
    BY <2>8
<1> HIDE DEF Good
<1>a. \A s \in SUBSET S : s # {} => s \ {Pick(s)} \in SUBSET S
  OBVIOUS
<1>b. Bad \in SUBSET SUBSET S /\ (\A s \in Bad : s # {} => s \ {Pick(s)} \in Bad)
  BY <1>4, <1>a
<1>5. Bad = {}
  BY <1>3, <1>b, NoCounterexample
<1>6. Good(S) /\ S \intersect T = T
  BY <1>5
<1> QED
  BY <1>1, <1>2, <1>6 DEF Good

\* A sum of zeros is zero.
LEMMA SumOfZeros ==
  ASSUME NEW S, IsFiniteSet(S)
  PROVE  SumFunction([x \in S |-> 0]) = 0
<1> DEFINE f == [x \in S |-> 0]
<1>a. DOMAIN f = S /\ \A x \in S : f[x] = 0
  OBVIOUS
<1> HIDE DEF f
<1>1. PICK h : SumsOf(f, SUBSET S, h) /\ SumFunction(f) = h[S]
  BY <1>a, SumSolves
<1>s. \A s \in SUBSET S : h[s] = IF s = {} THEN 0 ELSE f[Pick(s)] + h[s \ {Pick(s)}]
  BY <1>1 DEF SumsOf, SumOver
<1> DEFINE Bad == {s \in SUBSET S : h[s] # 0}
<1>2. {} \notin Bad
  BY <1>s
<1>3. ASSUME NEW s \in Bad, s # {} PROVE s \ {Pick(s)} \in Bad
  <2>1. Pick(s) \in S /\ s \ {Pick(s)} \in SUBSET S
    BY <1>3, PickSmaller
  <2>2. h[s] = f[Pick(s)] + h[s \ {Pick(s)}]
    BY <1>s, <1>3
  <2>3. CASE h[s \ {Pick(s)}] = 0
    BY <1>3, <1>a, <2>1, <2>2, <2>3
  <2> QED
    BY <2>1, <2>3
<1>4. Bad = {}
  BY <1>2, <1>3, NoCounterexample
<1>5. h[S] = 0
  BY <1>4
<1> QED
  BY <1>1, <1>5 DEF f

-----------------------------------------------------------------------------
(* What is dropped is counted.                                             *)

\* The events a subscriber was offered that it neither took nor has queued.
Missed == [s \in Subs |-> Len(offered[s]) - Len(got[s]) - Len(queue[s])]

DropsInv == TypeInv /\ DropsAreCounted

LEMMA MissedType ==
  ASSUME TypeInv, TypeInv'
  PROVE  Missed \in [Subs -> Int] /\ Missed' \in [Subs -> Int]
<1>1. QueueType /\ QueueType'
  BY TypeParts DEF TypeInv
<1>2. \A s \in Subs : /\ Len(offered[s]) \in Nat /\ Len(got[s]) \in Nat /\ Len(queue[s]) \in Nat
                      /\ Len(offered'[s]) \in Nat /\ Len(got'[s]) \in Nat
                      /\ Len(queue'[s]) \in Nat
  BY <1>1 DEF QueueType
<1> QED
  BY <1>2 DEF Missed

LEMMA FanoutMisses ==
  ASSUME TypeInv, NEW e \in Events, Fanout(e)
  PROVE  \A s \in Subs : Missed'[s] = IF s \in {u \in Targets(e) : Full(u)} THEN Missed[s] + 1
                                                                          ELSE Missed[s]
<1>t. QueueType
  BY TypeParts DEF TypeInv
<1> TAKE s \in Subs
<1>1. /\ queue[s] \in Seq(Events) /\ offered[s] \in Seq(Events) /\ got[s] \in Seq(Events)
      /\ Capacity[s] \in Nat \ {0} /\ got' = got
  BY <1>t, SubsAssumption DEF QueueType, Fanout
<1>a. Len(queue[s]) \in Nat /\ Len(offered[s]) \in Nat /\ Len(got[s]) \in Nat
  BY <1>1
<1>2. Missed[s] = Len(offered[s]) - Len(got[s]) - Len(queue[s])
      /\ Missed'[s] = Len(offered'[s]) - Len(got[s]) - Len(queue'[s])
  BY <1>1 DEF Missed
<1>3. CASE s \notin Targets(e)
  <2>1. queue'[s] = queue[s] /\ offered'[s] = offered[s]
    BY <1>3 DEF Fanout
  <2> QED
    BY <1>2, <1>3, <2>1
<1>4. CASE s \in Targets(e)
  <2>1. /\ queue'[s] = Append(IF Full(s) THEN Tail(queue[s]) ELSE queue[s], e)
        /\ offered'[s] = Append(offered[s], e)
    BY <1>4 DEF Fanout
  <2>2. Len(offered'[s]) = Len(offered[s]) + 1
    BY <1>1, <2>1
  <2>3. CASE Full(s)
    <3>1. queue[s] # <<>>
      BY <1>1, <2>3 DEF Full
    <3>2. Len(queue'[s]) = Len(queue[s])
      BY <1>1, <2>1, <2>3, <3>1
    <3> QED
      BY <1>2, <1>4, <1>a, <2>2, <2>3, <3>2
  <2>4. CASE ~Full(s)
    <3>1. Len(queue'[s]) = Len(queue[s]) + 1
      BY <1>1, <2>1, <2>4
    <3> QED
      BY <1>2, <1>4, <1>a, <2>2, <2>4, <3>1
  <2> QED
    BY <2>3, <2>4
<1> QED
  BY <1>3, <1>4

LEMMA TakeMissesNothing ==
  ASSUME TypeInv, NEW s \in Subs, Take(s)
  PROVE  Missed' = Missed
<1>t. QueueType
  BY TypeParts DEF TypeInv
<1>1. /\ queue[s] \in Seq(Events) /\ queue[s] # <<>> /\ got[s] \in Seq(Events)
      /\ offered[s] \in Seq(Events) /\ offered' = offered
      /\ queue'[s] = Tail(queue[s]) /\ got'[s] = Append(got[s], Head(queue[s]))
      /\ \A u \in Subs \ {s} : queue'[u] = queue[u] /\ got'[u] = got[u]
  BY <1>t DEF Take, QueueType
<1>2. /\ Len(queue'[s]) = Len(queue[s]) - 1 /\ Len(got'[s]) = Len(got[s]) + 1
      /\ Len(queue[s]) \in Nat /\ Len(got[s]) \in Nat /\ Len(offered[s]) \in Nat
  BY <1>1
<1>3. \A u \in Subs : Len(offered'[u]) - Len(got'[u]) - Len(queue'[u])
                        = Len(offered[u]) - Len(got[u]) - Len(queue[u])
  <2> TAKE u \in Subs
  <2>1. CASE u = s
    <3>1. offered'[s] = offered[s]
      BY <1>1
    <3>2. Len(offered'[s]) - Len(got'[s]) - Len(queue'[s])
            = Len(offered[s]) - Len(got[s]) - Len(queue[s])
      BY <1>2, <3>1
    <3> QED
      BY <2>1, <3>2
  <2>2. CASE u # s
    BY <1>1, <2>2
  <2> QED
    BY <2>1, <2>2
<1> QED
  BY <1>3 DEF Missed

LEMMA DropsStep ==
  ASSUME DropsInv, [Next]_vars
  PROVE  DropsAreCounted'
<1> USE DEF DropsInv
<1>1. dropped = SumFunction(Missed) /\ (DropsAreCounted' <=> dropped' = SumFunction(Missed'))
  BY DEF DropsAreCounted, Missed
<1>2. ASSUME Missed' = Missed, dropped' = dropped PROVE DropsAreCounted'
  BY <1>1, <1>2
<1>3. ASSUME UNCHANGED <<offered, got, queue, dropped>> PROVE DropsAreCounted'
  BY <1>2, <1>3 DEF Missed
<1>4. ASSUME NEW e \in Events, Fanout(e) PROVE DropsAreCounted'
  <2>1. Missed \in [Subs -> Int] /\ Missed' \in [Subs -> Int]
    <3>1. TypeInv'
      BY TypeStep
    <3> QED
      BY <3>1, MissedType
  <2>2. {u \in Targets(e) : Full(u)} \in SUBSET Subs
    BY TypeParts DEF Targets, BusType, TypeInv
  <2>3. SumFunction(Missed') = SumFunction(Missed) + Cardinality({u \in Targets(e) : Full(u)})
    BY <1>4, <2>1, <2>2, FanoutMisses, SumCounts, SubsAssumption
  <2>4. dropped' = dropped + Cardinality({u \in Targets(e) : Full(u)})
    BY <1>4 DEF Fanout
  <2> QED
    BY <1>1, <2>3, <2>4
<1>5. ASSUME NEW s \in Subs, Take(s) PROVE DropsAreCounted'
  <2>1. dropped' = dropped
    BY <1>5 DEF Take
  <2> QED
    BY <1>2, <1>5, <2>1, TakeMissesNothing
<1>6. CASE Crash
  <2>0. \A s \in Subs : offered'[s] = <<>> /\ got'[s] = <<>> /\ queue'[s] = <<>>
    BY <1>6 DEF Crash
  <2>1. \A s \in Subs : Len(offered'[s]) = 0 /\ Len(got'[s]) = 0 /\ Len(queue'[s]) = 0
    BY <2>0
  <2>b. 0 - 0 - 0 = 0
    OBVIOUS
  <2>a. \A s \in Subs : Len(offered'[s]) - Len(got'[s]) - Len(queue'[s]) = 0
    BY <2>1, <2>b, Zenon
  <2>2. Missed' = [s \in Subs |-> 0]
    BY <2>a DEF Missed
  <2>3. dropped' = 0
    BY <1>6 DEF Crash
  <2> QED
    BY <1>1, <2>2, <2>3, SumOfZeros, SubsAssumption
<1>7. ASSUME NEW e \in Events, EventStep(e), ~Fanout(e) PROVE DropsAreCounted'
  BY <1>3, <1>7 DEF EventStep, Publish, Insert, Commit, PersistFails, history
<1>8. ASSUME NEW s \in Subs, SubStep(s), ~Take(s) PROVE DropsAreCounted'
  BY <1>3, <1>8 DEF SubStep, Subscribe, Unsubscribe, CallbackEnds, ConsumerEnds,
                    ShutdownCancels, history
<1>9. CASE Shutdown \/ ShutdownEnds \/ UNCHANGED vars
  BY <1>3, <1>9 DEF Shutdown, ShutdownEnds, vars, history
<1> QED
  BY Steps, <1>4, <1>5, <1>6, <1>7, <1>8, <1>9 DEF OtherStep

\* The bus counts exactly the events that its subscribers miss: what was put in a
\* queue is taken, still queued, or counted as dropped, whatever the interleaving
\* of publishers, consumers and unsubscriptions (fanout.py, bus.py).
THEOREM BusDropsAreCounted == Spec => []DropsAreCounted
<1>1. Init => DropsInv
  <2> SUFFICES ASSUME Init PROVE DropsInv
    OBVIOUS
  <2>0. \A s \in Subs : offered[s] = <<>> /\ got[s] = <<>> /\ queue[s] = <<>>
    BY DEF Init
  <2>1. \A s \in Subs : Len(offered[s]) = 0 /\ Len(got[s]) = 0 /\ Len(queue[s]) = 0
    BY <2>0
  <2>b. 0 - 0 - 0 = 0
    OBVIOUS
  <2>a. \A s \in Subs : Len(offered[s]) - Len(got[s]) - Len(queue[s]) = 0
    BY <2>1, <2>b, Zenon
  <2>2. [s \in Subs |-> Len(offered[s]) - Len(got[s]) - Len(queue[s])] = [s \in Subs |-> 0]
    BY <2>a
  <2>3. dropped = 0
    BY DEF Init
  <2> QED
    BY <2>2, <2>3, TypeInit, SumOfZeros, SubsAssumption DEF DropsInv, DropsAreCounted
<1>2. DropsInv /\ [Next]_vars => DropsInv'
  BY TypeStep, DropsStep DEF DropsInv
<1> QED
  BY <1>1, <1>2, PTL DEF Spec, DropsInv

-----------------------------------------------------------------------------
(* Shutdown comes forward.                                                 *)

Started(s) == consumer[s] # "none"

\* Shutdown is never stuck: the subscribers it found have ended, the next one
\* can be cancelled, or the cancelled one that it awaits can end, in a callback
\* that hangs too.  Once it is down none of them runs.
ShutdownGoesOn ==
  /\ phase = "closing" =>
       \/ \A s \in toClose : Ended(s)
       \/ \E s \in toClose \ awaited : ~Ended(s) /\ \A u \in awaited : Ended(u)
       \/ \E s \in awaited \intersect cancelled : consumer[s] \in {"waiting", "callback"}
  /\ phase = "down" => \A s \in toClose : Ended(s)

\* No step but a crash takes back what shutdown has reached.
ShutdownKeeps ==
  [][crashes' = crashes =>
       /\ \A s \in Subs : Ended(s) => Ended(s)'
       /\ awaited \subseteq awaited'
       /\ phase # "up" => phase' # "up" /\ toClose' = toClose
       /\ phase = "down" => phase' = "down"]_vars

\* Only a subscription that has a consumer is found and cancelled.
CloseInv ==
  /\ \A s \in listed \union toClose : Started(s)
  /\ awaited \subseteq cancelled
  /\ phase = "down" => \A s \in toClose : Ended(s)

LEMMA CloseStep == TypeInv /\ CloseInv /\ [Next]_vars => CloseInv'
<1> SUFFICES ASSUME TypeInv, CloseInv, [Next]_vars PROVE CloseInv'
  OBVIOUS
<1>t. BusType
  BY TypeParts DEF TypeInv
<1>1. ASSUME NEW e \in Events, EventStep(e) PROVE CloseInv'
  BY <1>1 DEF EventStep, Publish, Insert, Commit, PersistFails, Fanout, bus, CloseInv, Started,
              Ended
<1>2. ASSUME NEW s \in Subs, SubStep(s) PROVE CloseInv'
  <2>1. CASE Subscribe(s)
    <3>1. /\ consumer' = [consumer EXCEPT ![s] = "waiting"] /\ consumer[s] = "none"
          /\ listed' = listed \union {s} /\ UNCHANGED <<phase, toClose, awaited, cancelled>>
      BY <2>1 DEF Subscribe, bus
    <3>2. s \notin toClose
      BY <3>1 DEF CloseInv, Started
    <3> QED
      BY <1>t, <3>1, <3>2 DEF BusType, CloseInv, Started, Ended
  <2>2. CASE Unsubscribe(s) \/ ShutdownCancels(s)
    BY <1>t, <2>2 DEF Unsubscribe, ShutdownCancels, bus, BusType, CloseInv, Started, Ended
  <2>3. CASE Take(s) \/ CallbackEnds(s) \/ ConsumerEnds(s)
    <3>1. PICK x \in {"waiting", "callback", "ended"} :
            consumer' = [consumer EXCEPT ![s] = x]
      BY <2>3 DEF Take, CallbackEnds, ConsumerEnds
    <3>2. ~Ended(s) /\ UNCHANGED <<phase, toClose, awaited, cancelled, listed>>
      BY <2>3 DEF Take, CallbackEnds, ConsumerEnds, Ended, bus
    <3> QED
      BY <1>t, <3>1, <3>2 DEF BusType, CloseInv, Started, Ended
  <2> QED
    BY <1>2, <2>1, <2>2, <2>3 DEF SubStep
<1>3. CASE Shutdown
  BY <1>3 DEF Shutdown, CloseInv, Started, Ended
<1>4. CASE ShutdownEnds
  BY <1>4 DEF ShutdownEnds, CloseInv, Started, Ended
<1>5. CASE Crash
  BY <1>5 DEF Crash, CloseInv
<1>6. CASE UNCHANGED vars
  BY <1>6 DEF vars, bus, CloseInv, Started, Ended
<1> QED
  BY <1>1, <1>2, <1>3, <1>4, <1>5, <1>6, Steps DEF OtherStep

LEMMA CloseInvariant == Spec => [](TypeInv /\ CloseInv)
<1>1. Init => CloseInv
  BY DEF Init, CloseInv
<1> QED
  BY <1>1, CloseStep, TypeInvariant, PTL DEF Spec

\* shutdown() cancels the consumers it found one by one and awaits each: it has
\* always something it can do, whatever subscribes, unsubscribes, is published
\* or hangs meanwhile (bus.py, shutdown(); fanout.py).
THEOREM BusShutdownGoesOn == Spec => []ShutdownGoesOn
<1>1. TypeInv /\ CloseInv => ShutdownGoesOn
  <2> SUFFICES ASSUME TypeInv, CloseInv PROVE ShutdownGoesOn
    OBVIOUS
  <2>t. BusType
    BY TypeParts DEF TypeInv
  <2>1. ASSUME NEW s \in toClose, ~Ended(s), NEW u \in awaited, ~Ended(u)
        PROVE  u \in awaited \intersect cancelled /\ consumer[u] \in {"waiting", "callback"}
    BY <2>t, <2>1 DEF BusType, CloseInv, Started, Ended
  <2>2. ASSUME NEW s \in awaited, ~Ended(s)
        PROVE  s \in toClose
    BY <2>t, <2>2 DEF BusType
  <2> QED
    BY <2>1, <2>2 DEF ShutdownGoesOn, CloseInv
<1> QED
  BY <1>1, CloseInvariant, PTL

\* What shutdown() has reached stays reached, so it takes as many rounds as it
\* found subscriptions.
THEOREM BusShutdownKeeps == Spec => ShutdownKeeps
<1> DEFINE Keeps == crashes' = crashes =>
              /\ \A s \in Subs : Ended(s) => Ended(s)'
              /\ awaited \subseteq awaited'
              /\ phase # "up" => phase' # "up" /\ toClose' = toClose
              /\ phase = "down" => phase' = "down"
<1>1. ASSUME TypeInv, [Next]_vars PROVE Keeps
  <2>t. BusType
    BY <1>1, TypeParts DEF TypeInv
  <2>1. ASSUME NEW e \in Events, EventStep(e) PROVE Keeps
    BY <2>1 DEF EventStep, Publish, Insert, Commit, PersistFails, Fanout, bus, Ended
  <2>2. ASSUME NEW s \in Subs, SubStep(s) PROVE Keeps
    <3>1. \A u \in Subs : Ended(u) => Ended(u)'
      BY <2>t, <2>2 DEF SubStep, Subscribe, Unsubscribe, Take, CallbackEnds, ConsumerEnds,
                        ShutdownCancels, BusType, Ended
    <3>2. awaited \subseteq awaited' /\ phase' = phase /\ toClose' = toClose
      BY <2>2 DEF SubStep, Subscribe, Unsubscribe, Take, CallbackEnds, ConsumerEnds,
                  ShutdownCancels, bus
    <3> QED
      BY <3>1, <3>2
  <2>3. CASE Shutdown \/ ShutdownEnds \/ UNCHANGED vars
    BY <2>3 DEF Shutdown, ShutdownEnds, vars, bus, Ended
  <2>4. CASE Crash
    BY <1>1, <2>4, TypeParts DEF Crash, TypeInv, CountType
  <2> QED
    BY <1>1, <2>1, <2>2, <2>3, <2>4, Steps DEF OtherStep
<1>2. TypeInv /\ [Next]_vars => [Keeps]_vars
  BY <1>1
<1> QED
  BY <1>2, TypeInvariant, PTL DEF Spec, ShutdownKeeps
=============================================================================
