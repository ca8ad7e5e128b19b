------------------------------- MODULE Cohort -------------------------------
(***************************************************************************)
(* Which NPCs may react to events: the CohortManager and the gate in front *)
(* of every activation (AgencyEngine.notify, _activate_with_tool_loop,     *)
(* rotate_cohort).                                                         *)
(*                                                                         *)
(* One event is notified at a time and a rotation is driven by the same    *)
(* loop, so it finds no activation under way; within one event the gates   *)
(* and the activations of its targets interleave.  NPCs are their places   *)
(* in the registered list and an event is the tick it came at.             *)
(***************************************************************************)
EXTENDS Naturals, Sequences, FiniteSets

CONSTANTS
  N,          \* the number of registered NPCs
  Configs,    \* the cohort configurations considered
  QueueMax,   \* queue_max_per_npc
  MaxTargets, \* max_activations_per_event
  MaxEvents   \* bound on the events

Npcs == 1 .. N
RotationPolicies == {"round_robin", "recency", "event_pressure_weighted"}
Kinds == {"record_only", "defer", "promote"}

ConfigType == [policy : RotationPolicies, maxActive : Nat \ {0},
               batch : Nat \ {0}, budget : Nat]

\* What CohortConfig and the constructor of the manager enforce.
ASSUME CohortAssumption ==
  /\ N \in Nat \ {0}
  /\ QueueMax \in Nat \ {0}
  /\ MaxTargets \in Nat /\ MaxEvents \in Nat
  /\ Configs \subseteq ConfigType
  /\ \A c \in Configs : c.batch <= c.maxActive /\ c.budget <= c.maxActive

VARIABLES
  config,   \* the configuration of the run
  active,   \* the active cohort
  queue,    \* the deferred events of each NPC, oldest first
  last,     \* the tick of its last activation, 0 if it had none
  cursor,   \* where round robin goes on, counted from 0
  used,     \* preemptive promotions since the last rotation
  tick,     \* the events so far
  kind,     \* the policy for dormant targets of the event, "none" without gates to come
  pending,  \* targets of the current event whose gate is to come
  later,    \* targets of the second wave, activated when the first is over
  running,  \* NPCs in their activation
  reacted   \* the last event each NPC was activated for, 0 if none

vars == <<config, active, queue, last, cursor, used, tick, kind, pending,
          later, running, reacted>>

Lesser(m, n) == IF m <= n THEN m ELSE n
Dormant == Npcs \ active
Idle == pending = {} /\ later = {} /\ running = {}

\* First is made of k members of S, none after any of the others in the
\* order that key gives.
AreFirst(First, S, k, key) ==
  /\ First \subseteq S
  /\ Cardinality(First) = k
  /\ \A f \in First, s \in S \ First : key[f] <= key[s]

\* Least recently activated first, then in the order of registration.
LRU == [a \in Npcs |-> last[a] * (N + 1) + a]

-----------------------------------------------------------------------------
(* An event.                                                               *)

\* Its targets are activated in two waves, of which the second may be empty;
\* the manager looks up its policy.
Notify ==
  /\ Idle
  /\ tick < MaxEvents
  /\ tick' = tick + 1
  /\ kind' \in Kinds
  /\ pending' \in SUBSET Npcs \ {{}}
  /\ later' \in SUBSET (Npcs \ pending')
  /\ Cardinality(pending' \union later') <= MaxTargets
  /\ UNCHANGED <<config, active, queue, last, cursor, used, running, reacted>>

SecondWave ==
  /\ pending = {} /\ running = {} /\ later # {}
  /\ pending' = later
  /\ later' = {}
  /\ UNCHANGED <<config, active, queue, last, cursor, used, tick, kind, running, reacted>>

Activate(a) ==
  /\ running' = running \union {a}
  /\ reacted' = [reacted EXCEPT ![a] = tick]

\* Mutant: the oldest goes only when the queue is longer than its cap.
EnqueuesOneMore(a) ==
  queue' = [queue EXCEPT ![a] =
              Append(IF Len(@) > QueueMax THEN Tail(@) ELSE @, tick)]

\* The oldest entry makes room.
Enqueue(a) ==
  queue' = [queue EXCEPT ![a] =
              Append(IF Len(@) >= QueueMax THEN Tail(@) ELSE @, tick)]

\* An active NPC passes.
GateActive(a) ==
  /\ a \in active
  /\ Activate(a)
  /\ UNCHANGED <<active, queue, used>>

GateRecordOnly(a) ==
  /\ a \in Dormant /\ kind = "record_only"
  /\ UNCHANGED <<active, queue, used, running, reacted>>

\* Deferred, by policy or because the promotions of this window are used up.
GateDefer(a) ==
  /\ a \in Dormant
  /\ kind = "defer" \/ (kind = "promote" /\ used >= config.budget)
  /\ Enqueue(a)
  /\ UNCHANGED <<active, used, running, reacted>>

\* Mutant: the promotion is not charged to the window.
PromotesFreely(a) ==
  /\ a \in Dormant /\ kind = "promote" /\ used < config.budget
  /\ \E victim \in active :
       /\ AreFirst({victim}, active, 1, LRU)
       /\ active' = (active \ {victim}) \union {a}
  /\ Activate(a)
  /\ UNCHANGED <<queue, used>>

\* Mutant: nobody makes room for the promoted NPC.
PromotesMore(a) ==
  /\ a \in Dormant /\ kind = "promote" /\ used < config.budget
  /\ active' = active \union {a}
  /\ used' = used + 1
  /\ Activate(a)
  /\ UNCHANGED queue

\* Promoted in the place of the least recently activated one, which may be
\* in its activation, and activated for this event; its queue stays.
GatePromote(a) ==
  /\ a \in Dormant /\ kind = "promote" /\ used < config.budget
  /\ \E victim \in active :
       /\ AreFirst({victim}, active, 1, LRU)
       /\ active' = (active \ {victim}) \union {a}
  /\ used' = used + 1
  /\ Activate(a)
  /\ UNCHANGED queue

Gate(a) ==
  /\ a \in pending
  /\ pending' = pending \ {a}
  /\ GateActive(a) \/ GateRecordOnly(a) \/ GateDefer(a) \/ GatePromote(a)
  /\ kind' = IF pending' \union later = {} THEN "none" ELSE kind
  /\ UNCHANGED <<config, last, cursor, tick, later>>

\* An activation ends; one that never reached its LLM loop is not recorded.
Finish(a) ==
  /\ a \in running
  /\ running' = running \ {a}
  /\ last' \in {last, [last EXCEPT ![a] = tick]}
  /\ UNCHANGED <<config, active, queue, cursor, used, tick, kind, pending, later, reacted>>

-----------------------------------------------------------------------------
(* A rotation.                                                             *)

BatchSize == Lesser(config.batch, Cardinality(Dormant))

\* How far each NPC is from the cursor.
Distance == [a \in Npcs |-> (a + N - 1 - cursor) % N]

\* The deeper its queue, the earlier its turn.
Pressure == [a \in Npcs |-> (QueueMax - Len(queue[a])) * (N + 1) + a]

\* Among equals the seeded generator of the code decides: any order.
Rank ==
  CASE config.policy = "round_robin" -> Distance
    [] config.policy = "recency"     -> last
    [] OTHER                         -> Pressure

\* Mutant: round robin starts from the first NPC every time.
CursorStays(up) == UNCHANGED cursor

\* One place past the last NPC picked.
MoveCursor(up) ==
  \/ /\ config.policy = "round_robin"
     /\ \E stop \in up :
          /\ \A a \in up : Distance[a] <= Distance[stop]
          /\ cursor' = stop % N
  \/ /\ config.policy # "round_robin"
     /\ UNCHANGED cursor

\* Mutant: the queues are read and not removed.
ReplaysAgain(up, heard) ==
  /\ reacted' = [a \in Npcs |->
       IF a \in up /\ queue[a] # <<>> THEN queue[a][Len(queue[a])] ELSE reacted[a]]
  /\ last' = [a \in Npcs |-> IF a \in heard THEN tick ELSE last[a]]
  /\ UNCHANGED queue

\* The queue of a promoted NPC is removed and every event in it activates the
\* NPC, one after the other; heard are those with a recorded activation.
DrainQueues(up, heard) ==
  /\ reacted' = [a \in Npcs |->
       IF a \in up /\ queue[a] # <<>> THEN queue[a][Len(queue[a])] ELSE reacted[a]]
  /\ last' = [a \in Npcs |-> IF a \in heard THEN tick ELSE last[a]]
  /\ queue' = [a \in Npcs |-> IF a \in up THEN <<>> ELSE queue[a]]

\* As many leave as come, and those that come react to what they missed.
Swap(up, down) ==
  /\ AreFirst(up, Dormant, BatchSize, Rank)
  /\ AreFirst(down, active, BatchSize, LRU)
  /\ active' = (active \ down) \union up
  /\ MoveCursor(up)
  /\ \E heard \in SUBSET {a \in up : queue[a] # <<>>} : DrainQueues(up, heard)

\* The window of promotions starts again even if there is nobody to swap.  The
\* runner rotates after a commit, which need not concern any NPC.
Rotate ==
  /\ Idle
  /\ tick > 0
  /\ used' = 0
  /\ \/ /\ N <= config.maxActive
        /\ UNCHANGED <<active, queue, last, cursor, reacted>>
     \/ /\ N > config.maxActive
        /\ \E up \in SUBSET Dormant, down \in SUBSET active : Swap(up, down)
  /\ UNCHANGED <<config, tick, kind, pending, later, running>>

-----------------------------------------------------------------------------
\* register(): the first max_active NPCs are active.
Init ==
  /\ config \in Configs
  /\ active = 1 .. Lesser(config.maxActive, N)
  /\ queue = [a \in Npcs |-> <<>>]
  /\ last = [a \in Npcs |-> 0]
  /\ cursor = 0
  /\ used = 0
  /\ tick = 0
  /\ kind = "none"
  /\ pending = {} /\ later = {} /\ running = {}
  /\ reacted = [a \in Npcs |-> 0]

Next ==
  \/ Notify
  \/ SecondWave
  \/ \E a \in Npcs : Gate(a) \/ Finish(a)
  \/ Rotate

Spec == Init /\ [][Next]_vars

\* Activations end: their LLM call has a timeout.  Whether events come, and
\* whether the runner rotates again, is not assumed.
FairSpec ==
  /\ Spec
  /\ WF_vars(SecondWave)
  /\ \A a \in Npcs : WF_vars(Gate(a)) /\ WF_vars(Finish(a))

-----------------------------------------------------------------------------
(* Properties.                                                             *)

\* Every variable has its type: a queue never exceeds queue_max_per_npc and
\* the window never more than its budget.
TypeOK ==
  /\ config \in Configs
  /\ active \subseteq Npcs
  /\ queue \in [Npcs -> Seq(1 .. MaxEvents)]
  /\ \A a \in Npcs : Len(queue[a]) <= QueueMax
  /\ last \in [Npcs -> 0 .. MaxEvents]
  /\ cursor \in 0 .. N - 1
  /\ used \in 0 .. config.budget
  /\ tick \in 0 .. MaxEvents
  /\ kind \in Kinds \union {"none"}
  /\ pending \subseteq Npcs /\ later \subseteq Npcs /\ running \subseteq Npcs
  /\ reacted \in [Npcs -> 0 .. MaxEvents]

\* Promotions, rotations and evictions in any order leave the cohort exactly
\* as large as register() made it (CohortManager.rotate: "net active size
\* constant").
CohortIsFull == Cardinality(active) = Lesser(config.maxActive, N)

\* An evicted NPC may still be in its activation, so more than max_active can
\* run at once, but only as many more as were promoted in this window.
InFlightBound == Cardinality(running \union active) <= config.maxActive + used

\* A queue holds events in the order they came, none twice, and without
\* preemptive promotions an NPC reacts in that order too: what is queued for
\* it is newer than all it was activated for, so a replay repeats nothing and
\* no event overtakes another.
ReactsInOrder ==
  \A a \in Npcs : \A i \in DOMAIN queue[a] :
    /\ \A j \in 1 .. i - 1 : queue[a][j] < queue[a][i]
    /\ config.budget = 0 => reacted[a] < queue[a][i]

\* As long as the runner keeps rotating, round robin reaches everybody again
\* and again, whatever promotions do in between, and, when there are none,
\* every deferred event is replayed or pushed out by a later one and the queue
\* is empty again (CohortManager._rotate_round_robin).
RoundRobinReachesAll ==
  config.policy = "round_robin" /\ []<><<Rotate>>_vars =>
    \A a \in Npcs :
      /\ []<>(a \in active)
      /\ config.budget = 0 => (queue[a] # <<>> ~> queue[a] = <<>>)

\* What actors/queued_event.py says: an NPC's deferred events are replayed on
\* its next promotion, so no active NPC has any left.
ActiveHasNoBacklog == \A a \in active : queue[a] = <<>>
=============================================================================
