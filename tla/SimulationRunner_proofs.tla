----------------------- MODULE SimulationRunner_proofs -----------------------
(***************************************************************************)
(* Proofs about SimulationRunner, for any bounds, agenda and envelopes:    *)
(* the type, that the loop keeps to its end conditions and to the order of *)
(* logical time, and that its own commits stay within the cap on events.    *)
(***************************************************************************)
EXTENDS SimulationRunner, FiniteSetTheorems, WellFoundedInduction, TLAPS

-----------------------------------------------------------------------------
(* Minima.                                                                 *)

\* A non-empty set of naturals has a least element, which is its Min.
LEMMA MinLeast ==
  ASSUME NEW S \in SUBSET Nat, S # {}
  PROVE  Min(S) \in S /\ \A y \in S : Min(S) <= y
<1> DEFINE R == {p \in Nat \X Nat : p[1] < p[2]}
<1>1. R = OpToRel(<, Nat)
  BY DEF OpToRel
<1>2. IsWellFoundedOn(R, Nat)
  BY <1>1, NatLessThanWellFounded
<1> HIDE DEF R
<1>3. PICK x \in S : \A y \in S : ~(<<y, x>> \in R)
  BY <1>2, WFMin
<1>4. \A y \in S : ~(y < x)
  BY <1>3 DEF R
<1>5. \E z \in S : \A y \in S : z <= y
  BY <1>4
<1> QED
  BY <1>5 DEF Min

LEMMA BoundedType == ASSUME NEW n \in Nat PROVE Bounded(n) \in Nat
<1>1. {n, MaxInline} \in SUBSET Nat
  BY RunnerAssumption
<1> QED
  BY <1>1, MinLeast DEF Bounded

LEMMA FiniteType == ASSUME NEW S \in SUBSET Envelopes PROVE Cardinality(S) \in Nat
BY RunnerAssumption, FS_Subset, FS_CardinalityType

-----------------------------------------------------------------------------
(* The end conditions.                                                     *)

LEMMA ConditionsDomain == DOMAIN EndConditions = 1..10
BY DEF EndConditions

LEMMA Conditions ==
  /\ EndConditions[1].holds <=> status = "stopped"
  /\ EndConditions[2].holds <=> total >= MaxTotalEvents
  /\ EndConditions[3].holds <=> now >= MaxTime
  /\ EndConditions[4].holds <=> "mission" \in signals
  /\ EndConditions[7].holds <=> ~internalOnly /\ solo >= LoopBreakerThreshold
  /\ EndConditions[8].holds <=> internalOnly /\ "deliverable" \in signals
  /\ EndConditions[9].holds <=> internalOnly /\ idle >= IdleStopTicks
  /\ EndConditions[10].holds <=> internalOnly /\ tick >= MaxTicks
  /\ EndConditions[1].reason = "manual_stop"
<1>1. EndConditions[1].holds <=> status = "stopped"
  BY DEF EndConditions
<1>2. EndConditions[2].holds <=> total >= MaxTotalEvents
  BY DEF EndConditions
<1>3. EndConditions[3].holds <=> now >= MaxTime
  BY DEF EndConditions
<1>4. EndConditions[4].holds <=> "mission" \in signals
  BY DEF EndConditions
<1>7. EndConditions[7].holds <=> ~internalOnly /\ solo >= LoopBreakerThreshold
  BY DEF EndConditions
<1>8. EndConditions[8].holds <=> internalOnly /\ "deliverable" \in signals
  BY DEF EndConditions
<1>9. EndConditions[9].holds <=> internalOnly /\ idle >= IdleStopTicks
  BY DEF EndConditions
<1>10. EndConditions[10].holds <=> internalOnly /\ tick >= MaxTicks
  BY DEF EndConditions
<1>11. EndConditions[1].reason = "manual_stop"
  BY DEF EndConditions
<1> QED
  BY <1>1, <1>2, <1>3, <1>4, <1>7, <1>8, <1>9, <1>10, <1>11

EndReasons ==
  {"manual_stop", "max_events_reached", "max_time_reached", "mission_completed", "queue_empty",
   "all_agents_disconnected", "loop_breaker", "deliverable_produced", "idle_stop", "tick_limit"}

LEMMA ReasonsAre == Reasons = {"none", "all_budgets_exhausted"} \union EndReasons
<1>1. \A i \in 1..10 : EndConditions[i].reason \in EndReasons
  BY DEF EndConditions, EndReasons
<1>2. EndReasons \subseteq {EndConditions[i].reason : i \in 1..10}
  <2>1. /\ EndConditions[1].reason = "manual_stop"
        /\ EndConditions[2].reason = "max_events_reached"
        /\ EndConditions[3].reason = "max_time_reached"
        /\ EndConditions[4].reason = "mission_completed"
        /\ EndConditions[5].reason = "queue_empty"
    BY DEF EndConditions
  <2>2. /\ EndConditions[6].reason = "all_agents_disconnected"
        /\ EndConditions[7].reason = "loop_breaker"
        /\ EndConditions[8].reason = "deliverable_produced"
        /\ EndConditions[9].reason = "idle_stop"
        /\ EndConditions[10].reason = "tick_limit"
    BY DEF EndConditions
  <2> QED
    BY <2>1, <2>2 DEF EndReasons
<1> QED
  BY <1>1, <1>2, ConditionsDomain DEF Reasons

\* What the loop stops with is the reason of the first condition that holds.
LEMMA FirstHolds ==
  ASSUME Holding # {}
  PROVE  /\ EndConditions[Min(Holding)].reason \in EndReasons
         /\ status = "stopped" => EndConditions[Min(Holding)].reason = "manual_stop"
<1>1. Holding \in SUBSET Nat /\ Holding \subseteq 1..10
  BY ConditionsDomain DEF Holding
<1>2. Min(Holding) \in Holding /\ \A i \in Holding : Min(Holding) <= i
  BY <1>1, MinLeast
<1>3. EndConditions[Min(Holding)].reason \in EndReasons
  <2>1. \A i \in 1..10 : EndConditions[i].reason \in EndReasons
    BY DEF EndConditions, EndReasons
  <2> QED
    BY <1>1, <1>2, <2>1
<1>4. ASSUME status = "stopped" PROVE EndConditions[Min(Holding)].reason = "manual_stop"
  <2>1. 1 \in Holding
    BY <1>4, Conditions, ConditionsDomain DEF Holding
  <2>2. PICK m \in 1..10 : m = Min(Holding)
    BY <1>1, <1>2
  <2>3. m <= 1
    BY <1>2, <2>1, <2>2
  <2>4. Min(Holding) = 1
    BY <2>2, <2>3
  <2> QED
    BY <2>4, Conditions
<1> QED
  BY <1>3, <1>4

\* The loop does not go on when one of these holds.
LEMMA NothingHolds ==
  ASSUME Holding = {}, signals \subseteq {"mission", "deliverable"}
  PROVE  /\ ~Ending
         /\ internalOnly \/ ~(solo >= LoopBreakerThreshold)
<1>1. \A i \in 1..10 : ~EndConditions[i].holds
  BY ConditionsDomain DEF Holding
<1>2. /\ 1 \in 1..10 /\ 2 \in 1..10 /\ 3 \in 1..10 /\ 4 \in 1..10 /\ 7 \in 1..10
      /\ 8 \in 1..10 /\ 9 \in 1..10 /\ 10 \in 1..10
  OBVIOUS
<1>3. /\ ~EndConditions[1].holds /\ ~EndConditions[2].holds /\ ~EndConditions[3].holds
      /\ ~EndConditions[4].holds /\ ~EndConditions[7].holds /\ ~EndConditions[8].holds
      /\ ~EndConditions[9].holds /\ ~EndConditions[10].holds
  BY <1>1, <1>2
<1>4. /\ ~(status = "stopped") /\ ~(total >= MaxTotalEvents) /\ ~(now >= MaxTime)
      /\ ~("mission" \in signals) /\ ~(~internalOnly /\ solo >= LoopBreakerThreshold)
      /\ ~(internalOnly /\ "deliverable" \in signals)
      /\ ~(internalOnly /\ idle >= IdleStopTicks) /\ ~(internalOnly /\ tick >= MaxTicks)
  BY <1>3, Conditions, Zenon
<1>5. ~(signals # {} /\ ("mission" \in signals \/ internalOnly))
  <2>1. signals # {} => "mission" \in signals \/ "deliverable" \in signals
    OBVIOUS
  <2> QED
    BY <1>4, <2>1, Zenon
<1> QED
  BY <1>4, <1>5, Zenon DEF Ending

-----------------------------------------------------------------------------
(* Types.                                                                  *)

Pcs == {"idle", "top", "budget", "alarms", "animate", "agency", "pop", "execute", "notify",
        "react", "done"}
StatusType ==
  /\ internalOnly \in BOOLEAN /\ static \in BOOLEAN
  /\ status \in {"idle", "running", "stopped", "completed"}
  /\ reason \in {"none", "all_budgets_exhausted"} \union EndReasons
  /\ (reason = "none") <=> (status \in {"idle", "running"})
  /\ pc \in Pcs
HandType ==
  /\ queue \subseteq Envelopes
  /\ IF pc \in {"execute", "notify", "react"}
     THEN \E e \in Envelopes \ queue : current = {e}
     ELSE current = {}
  /\ stamp \in [Envelopes -> Nat]
ClockType ==
  /\ now \in Nat /\ tick \in Nat
  /\ acted \in [{"internal", "environment"} -> Nat]
  /\ animated \in Int
CountType ==
  /\ total \in Nat /\ solo \in Nat /\ idle \in Nat
  /\ own \in Nat /\ inline \in Nat /\ late \in Nat
PlanType == \A s \in scheduled : s.at \in Nat /\ s.act \in Acts
SideType ==
  /\ signals \subseteq {"mission", "deliverable"}
  /\ agents \in {"never", "connected", "gone"}
  /\ stopped \in BOOLEAN
AlarmType ==
  /\ triggers \in Nat
  /\ IsFiniteSet(timers) /\ timers \subseteq [at : Nat, every : Nat]

LEMMA ReasonsPrimed == Reasons' = Reasons
<1>1. Reasons' = {"none", "all_budgets_exhausted"} \union EndReasons
  BY DEF Reasons, EndConditions, EndReasons
<1> QED
  BY <1>1, ReasonsAre

LEMMA TypeParts ==
  /\ TypeOK <=> /\ StatusType /\ HandType /\ ClockType /\ CountType
               /\ PlanType /\ SideType /\ AlarmType
  /\ TypeOK' <=> /\ StatusType' /\ HandType' /\ ClockType' /\ CountType'
                /\ PlanType' /\ SideType' /\ AlarmType'
BY ReasonsAre, ReasonsPrimed
   DEF TypeOK, Pcs, StatusType, HandType, ClockType, CountType, PlanType, SideType, AlarmType

LEMMA Steps ==
  ASSUME [Next]_vars
  PROVE  \/ Run \/ Top \/ Check \/ Alarms \/ Animate \/ Agency \/ PopNothing
         \/ \E e \in Envelopes : Pop(e)
         \/ Execute \/ Notify \/ React \/ Stop \/ Signal \/ Visit \/ UNCHANGED vars
BY DEF Next, Loop, Finished

\* The type, with a schedule that stays finite.
TypeInv == TypeOK /\ IsFiniteSet(scheduled)

LEMMA PlansType ==
  ASSUME now \in Nat
  PROVE  IsFiniteSet(Plans) /\ \A s \in Plans : s.at \in Nat /\ s.act \in Acts
<1>1. IsFiniteSet({"work", "other"})
  <2>1. IsFiniteSet({"work"} \union {"other"})
    BY FS_Singleton, FS_AddElement
  <2>2. {"work", "other"} = {"work"} \union {"other"}
    OBVIOUS
  <2> QED
    BY <2>1, <2>2
<1>2. IsFiniteSet(Offsets \X {"work", "other"})
  BY <1>1, RunnerAssumption, FS_Product
<1> DEFINE f == [p \in Offsets \X {"work", "other"} |-> [at |-> now + p[1], act |-> p[2]]]
<1>3. f \in Surjection(Offsets \X {"work", "other"}, Plans)
  <2>1. \A d \in Offsets, a \in {"work", "other"} :
          <<d, a>> \in Offsets \X {"work", "other"} /\ f[<<d, a>>] = [at |-> now + d, act |-> a]
    OBVIOUS
  <2>2. f \in [Offsets \X {"work", "other"} -> Plans]
    BY DEF Plans
  <2>3. \A s \in Plans : \E p \in Offsets \X {"work", "other"} : f[p] = s
    <3> SUFFICES ASSUME NEW s \in Plans
                 PROVE  \E p \in Offsets \X {"work", "other"} : f[p] = s
      OBVIOUS
    <3>1. PICK d \in Offsets, a \in {"work", "other"} : s = [at |-> now + d, act |-> a]
      BY DEF Plans
    <3> HIDE DEF f
    <3> QED
      BY <2>1, <3>1
  <2> QED
    BY <2>2, <2>3, Zenon DEF Surjection
<1>4. IsFiniteSet(Plans)
  BY <1>2, <1>3, FS_Surjection
<1> QED
  BY <1>4, RunnerAssumption DEF Plans, Acts

LEMMA ActivatedType ==
  ASSUME inline \in Nat, queue \subseteq Envelopes, stamp \in [Envelopes -> Nat], now \in Nat,
         NEW R \in SUBSET Envelopes, NEW S \in SUBSET Envelopes, Activated(R, S)
  PROVE  /\ inline' \in Nat
         /\ queue' = queue \union S
         /\ queue' \subseteq Envelopes
         /\ stamp' \in [Envelopes -> Nat]
         /\ \A e \in Envelopes : stamp'[e] = IF e \in S THEN now ELSE stamp[e]
<1>1. PICK c \in Nat : c = Cardinality(R)
  BY FiniteType
<1>2. inline + c \in Nat
  OBVIOUS
<1>3. inline' \in Nat
  BY <1>1, <1>2, BoundedType DEF Activated
<1> QED
  BY <1>3 DEF Activated, Submitted

LEMMA AdvancedType ==
  ASSUME ClockType, NEW n \in Nat, Advanced(n)
  PROVE  /\ now' \in Nat /\ tick' \in Nat
         /\ acted' \in [{"internal", "environment"} -> Nat]
<1>1. CASE internalOnly /\ n > 0
  BY <1>1 DEF ClockType, Advanced
<1>2. CASE ~(internalOnly /\ n > 0)
  BY <1>2 DEF ClockType, Advanced, clock
<1> QED
  BY <1>1, <1>2

LEMMA InitType == Init => TypeInv
<1> SUFFICES ASSUME Init PROVE TypeInv
  OBVIOUS
<1>1. internalOnly \in BOOLEAN /\ static \in BOOLEAN => StatusType
  BY DEF Init, StatusType, Pcs
<1>2. HandType
  BY RunnerAssumption DEF Init, HandType
<1>3. ClockType
  BY RunnerAssumption DEF Init, ClockType
<1>4. CountType /\ SideType
  BY DEF Init, CountType, SideType
<1>5. PICK u \in Setups : /\ scheduled = u.agenda
                         /\ internalOnly = u.internalOnly /\ static = u.static
                         /\ timers = u.timers /\ triggers = u.triggers
  BY DEF Init
<1>6. /\ PlanType /\ IsFiniteSet(scheduled)
      /\ AlarmType
      /\ internalOnly \in BOOLEAN /\ static \in BOOLEAN
  BY <1>5, RunnerAssumption DEF PlanType, AlarmType
<1> QED
  BY <1>1, <1>2, <1>3, <1>4, <1>6, TypeParts DEF TypeInv

\* The steps that change neither the queue, the schedule nor the counts.
LEMMA SimpleTypes ==
  ASSUME TypeInv, Run \/ Top \/ Stop \/ Signal \/ Check \/ UNCHANGED vars
  PROVE  TypeInv'
<1>1. /\ HandType' /\ ClockType' /\ CountType' /\ PlanType' /\ IsFiniteSet(scheduled)'
      /\ AlarmType'
  <2>1. UNCHANGED <<queue, stamp, current, now, tick, total, solo, idle, acted, animated,
                    timers, triggers, scheduled, own, inline, late>>
    BY DEF Run, Top, Stop, Signal, Check, vars, clock, counts, animator, committed
  <2>2. pc' \in {"execute", "notify", "react"} <=> pc \in {"execute", "notify", "react"}
    BY DEF Run, Top, Stop, Signal, Check, Completed, vars
  <2>3. HandType /\ ClockType /\ CountType /\ PlanType /\ IsFiniteSet(scheduled) /\ AlarmType
    BY TypeParts DEF TypeInv
  <2> QED
    BY <2>1, <2>2, <2>3 DEF HandType, ClockType, CountType, PlanType, AlarmType
<1>2. SideType'
  BY TypeParts DEF TypeInv, SideType, Run, Top, Stop, Signal, Check, vars, outside
<1>3. StatusType'
  <2>1. StatusType
    BY TypeParts DEF TypeInv
  <2>2. CASE Run \/ Top \/ Stop \/ Signal \/ UNCHANGED vars
    BY <2>1, <2>2 DEF StatusType, Pcs, EndReasons, Run, Top, Stop, Signal, vars, world
  <2>3. CASE Check
    BY <2>1, <2>3, FirstHolds DEF StatusType, Pcs, EndReasons, Check, Completed, world
  <2> QED
    BY <2>2, <2>3
<1> QED
  BY <1>1, <1>2, <1>3, TypeParts DEF TypeInv

\* The timers that have rung are put on or taken away.
LEMMA RungType ==
  ASSUME AlarmType, NEW t
  PROVE  /\ Cardinality(Ringing(t)) \in Nat
         /\ IsFiniteSet(Rung(t)) /\ Rung(t) \subseteq [at : Nat, every : Nat]
<1> DEFINE Recurring == {y \in Ringing(t) : y.every > 0}
           Later(x) == [x EXCEPT !.at = @ + x.every]
           f == [x \in Recurring |-> Later(x)]
<1>1. IsFiniteSet(Ringing(t)) /\ Ringing(t) \subseteq timers
  BY FS_Subset DEF AlarmType, Ringing
<1>2. IsFiniteSet(timers \ Ringing(t)) /\ IsFiniteSet(Recurring)
  BY <1>1, FS_Subset, FS_Difference DEF AlarmType
<1>3. \A x \in Recurring : Later(x) \in [at : Nat, every : Nat]
  BY <1>1 DEF AlarmType
<1>4. IsFiniteSet({Later(x) : x \in Recurring})
  <2>1. f \in Surjection(Recurring, {Later(x) : x \in Recurring})
    <3>1. f \in [Recurring -> {Later(x) : x \in Recurring}]
      OBVIOUS
    <3>2. \A y \in {Later(x) : x \in Recurring} : \E x \in Recurring : f[x] = y
      OBVIOUS
    <3> QED
      BY <3>1, <3>2, Zenon DEF Surjection
  <2> QED
    BY <1>2, <2>1, FS_Surjection
<1>5. Rung(t) = (timers \ Ringing(t)) \union {Later(x) : x \in Recurring}
  BY DEF Rung
<1>6. Cardinality(Ringing(t)) \in Nat
  BY <1>1, FS_CardinalityType
<1> HIDE DEF Later
<1>7. IsFiniteSet(Rung(t))
  BY <1>2, <1>4, <1>5, FS_Union
<1>8. Rung(t) \subseteq [at : Nat, every : Nat]
  BY <1>3, <1>5 DEF AlarmType
<1> QED
  BY <1>6, <1>7, <1>8

LEMMA RingsType ==
  ASSUME AlarmType, NEW t, NEW n \in 0..triggers, Rings(t, n)
  PROVE  AlarmType'
BY RungType DEF AlarmType, Rings

LEMMA AlarmsType == TypeInv /\ Alarms => TypeInv'
<1> SUFFICES ASSUME TypeInv, Alarms PROVE TypeInv'
  OBVIOUS
<1>1. StatusType /\ HandType /\ ClockType /\ CountType /\ PlanType /\ SideType
      /\ AlarmType /\ IsFiniteSet(scheduled)
  BY TypeParts DEF TypeInv
<1>2. HandType' /\ AlarmType'
  <2>1. CASE UNCHANGED <<queue, stamp, timers, triggers>>
    BY <1>1, <2>1 DEF Alarms, HandType, AlarmType
  <2>2. CASE \E n \in 0..triggers, E \in SUBSET Free(Reports) : Rings(now, n) /\ Submitted(E)
    <3>1. PICK n \in 0..triggers, E \in SUBSET Free(Reports) : Rings(now, n) /\ Submitted(E)
      BY <2>2
    <3>2. E \in SUBSET Envelopes /\ E \intersect current = {}
      BY DEF Free, Envelopes
    <3>3. HandType'
      BY <1>1, <3>1, <3>2 DEF Alarms, HandType, ClockType, Submitted
    <3> QED
      BY <1>1, <3>1, <3>3, RingsType
  <2> QED
    BY <2>1, <2>2 DEF Alarms
<1>3. StatusType' /\ PlanType' /\ SideType' /\ IsFiniteSet(scheduled)'
  BY <1>1 DEF Alarms, StatusType, Pcs, PlanType, SideType, outside, world
<1>4. ClockType' /\ CountType'
  BY <1>1 DEF Alarms, ClockType, CountType, clock, counts, committed
<1> QED
  BY <1>2, <1>3, <1>4, TypeParts DEF TypeInv

\* What a tick of the animator does to the queue and to the schedule.
LEMMA TicksType ==
  ASSUME TypeInv, Ticks
  PROVE  /\ AlarmType' /\ inline' \in Nat
         /\ \E R \in SUBSET Free(Reactions) : Submitted(R)
         /\ \E P \in SUBSET Plans : scheduled' = scheduled \union P
<1>1. AlarmType /\ CountType
  BY TypeParts DEF TypeInv
<1>2. PICK t \in Cutoffs, n \in 0..triggers :
      \E c \in 0..(Cardinality(Ringing(t)) + n + MaxInvented),
         R \in SUBSET Free(Reactions), P \in SUBSET Plans :
        /\ Rings(t, n)
        /\ inline' = Bounded(inline + c + Cardinality(R))
        /\ Submitted(R)
        /\ scheduled' = scheduled \union P
  BY DEF Ticks
<1>3. PICK c \in 0..(Cardinality(Ringing(t)) + n + MaxInvented),
           R \in SUBSET Free(Reactions), P \in SUBSET Plans :
        /\ Rings(t, n)
        /\ inline' = Bounded(inline + c + Cardinality(R))
        /\ Submitted(R)
        /\ scheduled' = scheduled \union P
  BY <1>2
<1>4. c \in Nat
  BY <1>1, RungType, RunnerAssumption DEF AlarmType
<1>5. Cardinality(R) \in Nat
  BY FiniteType DEF Free, Envelopes
<1>6. inline' \in Nat
  BY <1>1, <1>3, <1>4, <1>5, BoundedType DEF CountType
<1> QED
  BY <1>1, <1>3, <1>6, RingsType

LEMMA AnimateType == TypeInv /\ Animate => TypeInv'
<1> SUFFICES ASSUME TypeInv, Animate PROVE TypeInv'
  OBVIOUS
<1>1. StatusType /\ HandType /\ ClockType /\ CountType /\ PlanType /\ SideType
      /\ AlarmType /\ IsFiniteSet(scheduled)
  BY TypeParts DEF TypeInv
<1>2. HandType' /\ PlanType' /\ IsFiniteSet(scheduled)' /\ AlarmType' /\ inline' \in Nat
  <2>1. CASE UNCHANGED <<queue, stamp, timers, triggers, scheduled, inline>>
    BY <1>1, <2>1 DEF Alarms, Animate, HandType, PlanType, AlarmType, CountType
  <2>2. CASE Ticks
    <3>1. PICK R \in SUBSET Free(Reactions) : Submitted(R)
      BY <2>2, TicksType
    <3>2. PICK P \in SUBSET Plans : scheduled' = scheduled \union P
      BY <2>2, TicksType
    <3>3. R \in SUBSET Envelopes /\ R \intersect current = {}
      BY DEF Free, Envelopes
    <3>4. HandType'
      BY <1>1, <3>1, <3>3 DEF Alarms, Animate, HandType, ClockType, Submitted
    <3>5. IsFiniteSet(Plans) /\ \A s \in Plans : s.at \in Nat /\ s.act \in Acts
      BY <1>1, PlansType DEF ClockType
    <3>6. PlanType' /\ IsFiniteSet(scheduled)'
      BY <1>1, <3>2, <3>5, FS_Subset, FS_Union DEF PlanType
    <3> QED
      BY <2>2, <3>4, <3>6, TicksType
  <2> QED
    BY <2>1, <2>2 DEF Animate
<1>3. StatusType' /\ SideType'
  BY <1>1 DEF Alarms, Animate, StatusType, Pcs, SideType, outside, world
<1>4. ClockType' /\ CountType'
  BY <1>1, <1>2 DEF Alarms, Animate, ClockType, CountType, clock, counts
<1> QED
  BY <1>2, <1>3, <1>4, TypeParts DEF TypeInv

LEMMA AgencyType == TypeInv /\ Agency => TypeInv'
<1> SUFFICES ASSUME TypeInv, Agency PROVE TypeInv'
  OBVIOUS
<1>1. StatusType /\ HandType /\ ClockType /\ CountType /\ PlanType /\ SideType
      /\ AlarmType /\ IsFiniteSet(scheduled)
  BY TypeParts DEF TypeInv
<1>2. PICK R \in SUBSET Free(Reactions), S \in SUBSET Free(Errands), P \in SUBSET Plans :
             /\ Activated(R, R \union S)
             /\ scheduled' = (scheduled \ Due) \union P
  BY DEF Agency
<1>3. /\ inline' \in Nat
      /\ queue' \subseteq Envelopes
      /\ stamp' \in [Envelopes -> Nat]
  <2>1. R \in SUBSET Envelopes /\ R \union S \in SUBSET Envelopes
    BY DEF Free, Envelopes
  <2> QED
    BY <1>1, <1>2, <2>1, ActivatedType DEF HandType, CountType, ClockType
<1>4. PlanType' /\ IsFiniteSet(scheduled')
  <2>1. IsFiniteSet(Plans) /\ \A s \in Plans : s.at \in Nat /\ s.act \in Acts
    BY <1>1, PlansType DEF ClockType
  <2>2. IsFiniteSet(scheduled \ Due) /\ IsFiniteSet(P)
    BY <1>1, <2>1, FS_Subset, FS_Difference
  <2> QED
    BY <1>1, <1>2, <2>1, <2>2, FS_Union DEF PlanType
<1>5. PICK n \in Nat : /\ total' = total + n
                       /\ signals' = IF n > 0 THEN signals \union {"deliverable"} ELSE signals
                       /\ Advanced(n)
  <2>1. {s \in Due : s.act = "deliver"} \in SUBSET scheduled
    BY DEF Due
  <2>2. Cardinality({s \in Due : s.act = "deliver"}) \in Nat
    BY <1>1, <2>1, FS_Subset, FS_CardinalityType
  <2> QED
    BY <2>2 DEF Agency
<1>6. StatusType' /\ SideType' /\ AlarmType'
  BY <1>1, <1>5 DEF Agency, StatusType, Pcs, SideType, AlarmType, world, animator
<1>7. HandType'
  BY <1>1, <1>3 DEF Agency, HandType
<1>8. ClockType'
  BY <1>1, <1>5, AdvancedType DEF Agency, ClockType, animator
<1>9. CountType'
  BY <1>1, <1>3, <1>5 DEF Agency, CountType
<1> QED
  BY <1>4, <1>6, <1>7, <1>8, <1>9, TypeParts DEF TypeInv

\* What is scheduled next is at some time.
LEMMA NextType ==
  ASSUME PlanType, AlarmType, Upcoming # {}
  PROVE  NextScheduled \in Nat
<1>1. Upcoming \in SUBSET Nat
  BY DEF PlanType, AlarmType, Upcoming
<1> QED
  BY <1>1, MinLeast DEF NextScheduled

LEMMA PopNothingType == TypeInv /\ PopNothing => TypeInv'
<1> SUFFICES ASSUME TypeInv, PopNothing PROVE TypeInv'
  OBVIOUS
<1>1. StatusType /\ HandType /\ ClockType /\ CountType /\ PlanType /\ SideType
      /\ AlarmType /\ IsFiniteSet(scheduled)
  BY TypeParts DEF TypeInv
<1>2. ClockType'
  <2>1. CASE internalOnly /\ Upcoming # {} /\ NextScheduled > now
    BY <1>1, <2>1, NextType DEF PopNothing, ClockType, animator
  <2>2. CASE ~(internalOnly /\ Upcoming # {} /\ NextScheduled > now)
    BY <1>1, <2>2 DEF PopNothing, ClockType, clock, animator
  <2> QED
    BY <2>1, <2>2
<1>3. StatusType' /\ PlanType' /\ SideType' /\ AlarmType' /\ IsFiniteSet(scheduled)'
  BY <1>1 DEF PopNothing, StatusType, Pcs, PlanType, SideType, AlarmType, outside, world,
              animator
<1>4. HandType' /\ CountType'
  BY <1>1 DEF PopNothing, HandType, CountType, counts, committed
<1> QED
  BY <1>2, <1>3, <1>4, TypeParts DEF TypeInv

LEMMA CountedType ==
  ASSUME ClockType, NEW e \in Envelopes
  PROVE  Counted(e) \in [{"internal", "environment"} -> Nat]
<1>1. CASE Source(e) \in DOMAIN acted
  <2>1. acted[Source(e)] + 1 \in Nat
    BY <1>1 DEF ClockType
  <2> QED
    BY <1>1, <2>1 DEF ClockType, Counted
<1>2. CASE Source(e) \notin DOMAIN acted
  BY <1>2 DEF ClockType, Counted
<1> QED
  BY <1>1, <1>2

LEMMA PopType == ASSUME TypeInv, NEW e \in Envelopes, Pop(e) PROVE TypeInv'
<1>1. StatusType /\ HandType /\ ClockType /\ CountType /\ PlanType /\ SideType
      /\ AlarmType /\ IsFiniteSet(scheduled)
  BY TypeParts DEF TypeInv
<1>2. Counted(e) \in [{"internal", "environment"} -> Nat]
  BY <1>1, CountedType
<1>3. e \in queue /\ queue' = queue \ {e} /\ stamp' = stamp /\ pc = "pop"
  BY DEF Pop, Heads
<1>4. PlanType' /\ AlarmType' /\ IsFiniteSet(scheduled)'
  BY <1>1 DEF Pop, PlanType, AlarmType, animator
<1>5. /\ solo' = solo /\ idle' = idle /\ own' = own /\ inline' = inline /\ late' = late
      /\ animated' = animated /\ internalOnly' = internalOnly /\ static' = static
  BY DEF Pop, world, animator, committed
<1>6. CASE /\ Runaway(e)
           /\ acted' = [Counted(e) EXCEPT ![Source(e)] = Limit(Source(e)) + 1]
           /\ pc' = "top"
           /\ UNCHANGED <<current, clock, total, signals>>
  <2>1. Limit(Source(e)) + 1 \in Nat
    BY RunnerAssumption DEF Limit
  <2>2. acted' \in [{"internal", "environment"} -> Nat]
    BY <1>2, <1>6, <2>1 DEF Runaway
  <2>3. ClockType' /\ CountType'
    BY <1>1, <1>5, <1>6, <2>2 DEF ClockType, CountType, clock
  <2>4. StatusType' /\ SideType' /\ HandType'
    BY <1>1, <1>3, <1>5, <1>6 DEF StatusType, Pcs, SideType, HandType, Pop
  <2> QED
    BY <1>4, <2>3, <2>4, TypeParts DEF TypeInv
<1>7. CASE /\ pc' = "top"
           /\ total' = total + 1
           /\ signals' = signals \union {"deliverable"}
           /\ UNCHANGED current
           /\ IF internalOnly THEN Advanced(1) ELSE acted' = Counted(e) /\ UNCHANGED clock
  <2>1. now' \in Nat /\ tick' \in Nat /\ acted' \in [{"internal", "environment"} -> Nat]
    <3>1. CASE internalOnly
      BY <1>1, <1>7, <3>1, AdvancedType
    <3>2. CASE ~internalOnly
      BY <1>1, <1>2, <1>7, <3>2 DEF ClockType, clock
    <3> QED
      BY <3>1, <3>2
  <2>2. ClockType' /\ CountType'
    BY <1>1, <1>5, <1>7, <2>1 DEF ClockType, CountType
  <2>3. StatusType' /\ SideType' /\ HandType'
    BY <1>1, <1>3, <1>5, <1>7 DEF StatusType, Pcs, SideType, HandType, Pop
  <2> QED
    BY <1>4, <2>2, <2>3, TypeParts DEF TypeInv
<1>8. CASE /\ pc' = "execute"
           /\ current' = {e}
           /\ acted' = Counted(e)
           /\ UNCHANGED <<clock, total, signals>>
  <2>1. ClockType' /\ CountType'
    BY <1>1, <1>2, <1>5, <1>8 DEF ClockType, CountType, clock
  <2>2. StatusType' /\ SideType' /\ HandType'
    BY <1>1, <1>3, <1>5, <1>8 DEF StatusType, Pcs, SideType, HandType, Pop
  <2> QED
    BY <1>4, <2>1, <2>2, TypeParts DEF TypeInv
<1> QED
  BY <1>6, <1>7, <1>8 DEF Pop

LEMMA ExecuteType == TypeInv /\ Execute => TypeInv'
<1> SUFFICES ASSUME TypeInv, Execute PROVE TypeInv'
  OBVIOUS
<1>1. StatusType /\ HandType /\ ClockType /\ CountType /\ PlanType /\ SideType
      /\ AlarmType /\ IsFiniteSet(scheduled)
  BY TypeParts DEF TypeInv
<1>2. late' \in Nat /\ total' \in Nat /\ solo' \in Nat /\ idle' \in Nat
  BY <1>1 DEF Execute, CountType
<1>3. own' \in Nat /\ inline' \in Nat
  BY <1>1 DEF Execute, CountType
<1>4. StatusType' /\ SideType' /\ PlanType' /\ AlarmType' /\ IsFiniteSet(scheduled)'
  BY <1>1 DEF Execute, StatusType, Pcs, SideType, PlanType, AlarmType, outside, world, animator
<1>5. HandType' /\ ClockType'
  BY <1>1 DEF Execute, HandType, ClockType, clock, animator
<1> QED
  BY <1>2, <1>3, <1>4, <1>5, TypeParts DEF TypeInv, CountType

LEMMA NotifyType == TypeInv /\ Notify => TypeInv'
<1> SUFFICES ASSUME TypeInv, Notify PROVE TypeInv'
  OBVIOUS
<1>1. StatusType /\ HandType /\ ClockType /\ CountType /\ PlanType /\ SideType
      /\ AlarmType /\ IsFiniteSet(scheduled)
  BY TypeParts DEF TypeInv
<1>2. PICK R \in SUBSET Free(Reactions) : \E S \in SUBSET R : Activated(R, S)
  BY DEF Notify
<1>3. PICK S \in SUBSET R : Activated(R, S)
  BY <1>2
<1>4. R \in SUBSET Envelopes /\ S \in SUBSET Envelopes /\ S \subseteq Free(Reactions)
  BY DEF Free, Envelopes
<1>5. /\ inline' \in Nat
      /\ queue' = queue \union S
      /\ queue' \subseteq Envelopes
      /\ stamp' \in [Envelopes -> Nat]
  BY <1>1, <1>3, <1>4, ActivatedType DEF HandType, CountType, ClockType
<1>6. HandType'
  BY <1>1, <1>4, <1>5 DEF Notify, HandType, Free
<1>7. PlanType' /\ IsFiniteSet(scheduled')
  <2>1. PICK P \in SUBSET Plans : scheduled' = scheduled \union P
    BY DEF Notify
  <2>2. IsFiniteSet(Plans) /\ \A s \in Plans : s.at \in Nat /\ s.act \in Acts
    BY <1>1, PlansType DEF ClockType
  <2> QED
    BY <1>1, <2>1, <2>2, FS_Subset, FS_Union DEF PlanType
<1>8. StatusType' /\ SideType' /\ AlarmType'
  BY <1>1 DEF Notify, StatusType, Pcs, SideType, AlarmType, outside, world, animator
<1>9. ClockType' /\ CountType'
  BY <1>1, <1>5 DEF Notify, ClockType, CountType, clock, counts, animator
<1> QED
  BY <1>6, <1>7, <1>8, <1>9, TypeParts DEF TypeInv

LEMMA ReactType == TypeInv /\ React => TypeInv'
<1> SUFFICES ASSUME TypeInv, React PROVE TypeInv'
  OBVIOUS
<1>1. StatusType /\ HandType /\ ClockType /\ CountType /\ PlanType /\ SideType
      /\ AlarmType /\ IsFiniteSet(scheduled)
  BY TypeParts DEF TypeInv
<1>2. PlanType' /\ IsFiniteSet(scheduled')
  <2>1. Max({now, 1}) \in {now, 1}
    <3>1. \E x \in {now, 1} : \A y \in {now, 1} : x >= y
      BY <1>1 DEF ClockType
    <3> QED
      BY <3>1 DEF Max
  <2>2. Max({now, 1}) \in Nat
    BY <1>1, <2>1 DEF ClockType
  <2>3. CASE UNCHANGED scheduled
    BY <1>1, <2>3 DEF PlanType
  <2>4. CASE scheduled' = scheduled \union {[at |-> Max({now, 1}), act |-> "other"]}
    BY <1>1, <2>2, <2>4, FS_AddElement DEF PlanType, Acts
  <2> QED
    BY <2>3, <2>4 DEF React, Escalated
<1>3. idle' \in Nat
  BY <1>1 DEF React, CountType
<1>4. ClockType'
  BY <1>1, AdvancedType DEF React, ClockType, animator
<1>5. HandType' /\ StatusType'
  BY <1>1 DEF React, HandType, StatusType, Pcs, world
<1>6. CountType' /\ SideType' /\ AlarmType'
  BY <1>1, <1>3 DEF React, CountType, SideType, AlarmType, outside, committed, animator
<1> QED
  BY <1>2, <1>4, <1>5, <1>6, TypeParts DEF TypeInv

LEMMA VisitType == TypeInv /\ Visit => TypeInv'
<1> SUFFICES ASSUME TypeInv, Visit PROVE TypeInv'
  OBVIOUS
<1>1. StatusType /\ HandType /\ ClockType /\ CountType /\ PlanType /\ SideType
      /\ AlarmType /\ IsFiniteSet(scheduled)
  BY TypeParts DEF TypeInv
<1>2. HandType'
  <2>1. CASE UNCHANGED <<queue, stamp>>
    BY <1>1, <2>1 DEF Visit, HandType
  <2>2. CASE \E e \in Free(Visits) : Submitted({e})
    <3>1. PICK e \in Free(Visits) : Submitted({e})
      BY <2>2
    <3>2. e \in Envelopes /\ e \notin current
      BY DEF Free, Envelopes
    <3> QED
      BY <1>1, <3>1, <3>2 DEF Visit, HandType, ClockType, Submitted
  <2> QED
    BY <2>1, <2>2 DEF Visit
<1>3. StatusType' /\ SideType' /\ PlanType' /\ AlarmType' /\ IsFiniteSet(scheduled)'
  BY <1>1 DEF Visit, StatusType, Pcs, SideType, PlanType, AlarmType, world, animator
<1>4. ClockType' /\ CountType'
  BY <1>1 DEF Visit, ClockType, CountType, clock, counts, animator, committed
<1> QED
  BY <1>2, <1>3, <1>4, TypeParts DEF TypeInv

LEMMA TypeInvariant == Spec => []TypeInv
<1>1. TypeInv /\ [Next]_vars => TypeInv'
  BY Steps, SimpleTypes, AlarmsType, AnimateType, AgencyType, PopNothingType, PopType,
     ExecuteType, NotifyType, ReactType, VisitType
<1> QED
  BY InitType, <1>1, PTL DEF Spec

\* Every state of the runner is well formed: it says why it stopped exactly
\* when it has stopped, one envelope is in hand exactly while it is executed,
\* and clocks, counts and scheduled times never leave the naturals.
THEOREM RunnerTypeCorrect == Spec => []TypeOK
<1>1. TypeInv => TypeOK
  BY DEF TypeInv
<1> QED
  BY <1>1, TypeInvariant, PTL

-----------------------------------------------------------------------------
(* Stops.                                                                  *)

\* Once stop() has been called the status stays "stopped" until the loop ends,
\* and only the budget checker can then put another reason in its place.
Stopping ==
  /\ status = "stopped" => reason = "manual_stop"
  /\ stopped => \/ pc \notin {"idle", "done"} /\ status = "stopped"
                \/ pc = "done" /\ reason \in {"manual_stop", "all_budgets_exhausted"}

LEMMA StoppingStep == TypeInv /\ Stopping /\ [Next]_vars => Stopping'
<1> SUFFICES ASSUME TypeInv, Stopping, [Next]_vars PROVE Stopping'
  OBVIOUS
<1>1. StatusType /\ SideType
  BY TypeParts DEF TypeInv
<1>2. CASE \/ Alarms \/ Animate \/ Agency \/ PopNothing \/ (\E e \in Envelopes : Pop(e))
           \/ Execute \/ Notify \/ React \/ Signal \/ Visit \/ UNCHANGED vars
  <2>1. status' = status /\ reason' = reason /\ stopped' = stopped
    BY <1>2 DEF Alarms, Animate, Agency, PopNothing, Pop, Execute, Notify, React, Signal,
                Visit, vars,
                outside
  <2>2. \/ pc' = pc
        \/ pc \notin {"idle", "done"} /\ pc' \notin {"idle", "done"}
    BY <1>2 DEF Alarms, Animate, Agency, PopNothing, Pop, Execute, Notify, React, Signal,
                Visit, vars
  <2> QED
    BY <2>1, <2>2 DEF Stopping
<1>3. CASE Run \/ Top
  <2>1. stopped' = stopped
    BY <1>3 DEF Run, Top, outside
  <2>2. CASE Run
    BY <2>1, <2>2 DEF Stopping, Run
  <2>3. CASE Top
    BY <2>1, <2>3 DEF Stopping, Top
  <2> QED
    BY <1>3, <2>2, <2>3
<1>5. CASE Stop
  <2>1. status' = "stopped" /\ reason' = "manual_stop" /\ pc' = pc /\ pc # "done"
    BY <1>5 DEF Stop
  <2>2. stopped' => pc # "idle"
    BY <1>5 DEF Stop
  <2> QED
    BY <2>1, <2>2 DEF Stopping
<1>4. CASE Check
  <2>1. stopped' = stopped /\ pc = "budget"
    BY <1>4 DEF Check, outside
  <2>2. CASE Completed("all_budgets_exhausted")
    BY <2>1, <2>2 DEF Stopping, Completed
  <2>3. CASE Holding # {} /\ Completed(EndConditions[Min(Holding)].reason)
    BY <2>1, <2>3, FirstHolds DEF Stopping, Completed
  <2>4. CASE Holding = {} /\ pc' = "alarms" /\ UNCHANGED <<status, reason>>
    BY <2>1, <2>4 DEF Stopping
  <2> QED
    BY <1>4, <2>2, <2>3, <2>4 DEF Check
<1> QED
  BY <1>2, <1>3, <1>4, <1>5, Steps

\* A manual stop is the reason a run reports, unless it comes while the budget
\* checker is awaited and finds the budgets exhausted.
THEOREM RunnerStopWins == Spec => []StopWins
<1>1. Init => Stopping
  BY DEF Init, Stopping
<1>2. Stopping => StopWins
  BY DEF Stopping, StopWins
<1> QED
  BY <1>1, <1>2, StoppingStep, TypeInvariant, PTL DEF Spec

-----------------------------------------------------------------------------
(* The loop breaker.                                                       *)

\* The count is compared before an envelope is taken, and grows by one with it.
Breaking ==
  internalOnly \/ /\ solo <= LoopBreakerThreshold
                  /\ pc \in {"alarms", "animate", "agency", "pop", "execute"} =>
                       solo < LoopBreakerThreshold

LEMMA BreakingStep == TypeInv /\ Breaking /\ [Next]_vars => Breaking'
<1> SUFFICES ASSUME TypeInv, Breaking, [Next]_vars PROVE Breaking'
  OBVIOUS
<1>1. StatusType /\ CountType /\ SideType /\ LoopBreakerThreshold \in Nat
  BY TypeParts, RunnerAssumption DEF TypeInv
<1>2. CASE \/ Run \/ Top \/ Alarms \/ Animate \/ Agency \/ PopNothing
           \/ (\E e \in Envelopes : Pop(e)) \/ Notify \/ React \/ Stop \/ Signal \/ Visit \/ UNCHANGED vars
  <2>1. solo' = solo /\ internalOnly' = internalOnly
    BY <1>2 DEF Run, Top, Alarms, Animate, Agency, PopNothing, Pop, Notify, React, Stop,
                Signal, Visit,
                vars, counts, world
  <2>2. \/ pc' \notin {"alarms", "animate", "agency", "pop", "execute"}
        \/ pc \in {"alarms", "animate", "agency", "pop", "execute"}
    BY <1>2 DEF Run, Top, Alarms, Animate, Agency, PopNothing, Pop, Notify, React, Stop,
                Signal, Visit,
                vars
  <2> QED
    BY <2>1, <2>2, Zenon DEF Breaking
<1>3. CASE Check
  <2>1. solo' = solo /\ internalOnly' = internalOnly
    BY <1>3 DEF Check, counts, world
  <2>2. CASE pc' = "done"
    BY <2>1, <2>2 DEF Breaking
  <2>3. CASE Holding = {}
    <3>1. internalOnly \/ ~(solo >= LoopBreakerThreshold)
      BY <1>1, <2>3, NothingHolds DEF SideType
    <3>2. internalOnly \/ (solo < LoopBreakerThreshold /\ solo <= LoopBreakerThreshold)
      BY <1>1, <3>1 DEF CountType
    <3> QED
      BY <2>1, <3>2, Zenon DEF Breaking
  <2> QED
    BY <1>3, <2>2, <2>3 DEF Check, Completed
<1>4. CASE Execute
  <2>1. internalOnly' = internalOnly /\ pc' \in {"notify", "top"} /\ pc = "execute"
    BY <1>4 DEF Execute, world
  <2>2. solo' = 0 \/ solo' = solo + 1 \/ solo' = solo
    BY <1>4 DEF Execute
  <2>3. ASSUME solo < LoopBreakerThreshold PROVE solo' <= LoopBreakerThreshold
    BY <1>1, <2>2, <2>3 DEF CountType
  <2> QED
    BY <2>1, <2>3 DEF Breaking
<1> QED
  BY <1>2, <1>3, <1>4, Steps

\* In a simulation with external agents, the actors of the simulation never
\* get further than the threshold without them.
THEOREM RunnerLoopIsBroken == Spec => []LoopIsBroken
<1>1. Init => Breaking
  BY RunnerAssumption DEF Init, Breaking
<1>2. Breaking => LoopIsBroken
  BY DEF Breaking, LoopIsBroken
<1> QED
  BY <1>1, <1>2, BreakingStep, TypeInvariant, PTL DEF Spec

-----------------------------------------------------------------------------
(* Logical time.                                                           *)

\* In an internal simulation the queue's time is never ahead of the tick, so
\* it never goes back; nothing waits or is executed from the future.
Ordered ==
  /\ internalOnly => now <= tick
  /\ \A e \in queue \union current : stamp[e] <= now
  /\ Chronological

\* Time goes on, and what it leaves in the queue is not from the future.
LEMMA TimePasses ==
  ASSUME ClockType, HandType, Ordered, NEW n \in Nat, Advanced(n)
  PROVE  /\ now <= now'
         /\ internalOnly => now' <= tick'
         /\ tick <= tick'
<1>1. now \in Nat /\ tick \in Nat
  BY DEF ClockType
<1>2. CASE internalOnly /\ n > 0
  BY <1>1, <1>2 DEF Ordered, Advanced
<1>3. CASE ~(internalOnly /\ n > 0)
  BY <1>1, <1>3 DEF Ordered, Advanced, clock
<1> QED
  BY <1>2, <1>3

\* Envelopes that are free are queued with the present time, then time may pass.
LEMMA NewOrdered ==
  ASSUME TypeInv, Ordered, NEW S \in SUBSET Envelopes, S \intersect (queue \union current) = {},
         queue' = queue \union S,
         \A e \in Envelopes : stamp'[e] = IF e \in S THEN now ELSE stamp[e],
         current' \subseteq current,
         now' \in Nat, now <= now', internalOnly' = internalOnly, internalOnly => now' <= tick'
  PROVE  Ordered'
<1>1. HandType /\ ClockType
  BY TypeParts DEF TypeInv
<1>2. now \in Nat /\ queue \subseteq Envelopes /\ current \subseteq Envelopes
  BY <1>1 DEF HandType, ClockType
<1>3. \A e \in Envelopes : stamp[e] \in Nat
  BY <1>1 DEF HandType
<1>4. ASSUME NEW e \in queue' \union current' PROVE stamp'[e] <= now'
  <2>1. e \in Envelopes
    BY <1>2
  <2>2. CASE e \in S
    BY <1>2, <2>1, <2>2
  <2>3. CASE e \notin S
    <3>1. stamp'[e] = stamp[e] /\ stamp[e] <= now /\ stamp[e] \in Nat
      BY <1>3, <2>1, <2>3 DEF Ordered
    <3> QED
      BY <1>2, <3>1
  <2> QED
    BY <2>2, <2>3
<1>5. ASSUME NEW e \in current', NEW f \in queue' PROVE stamp'[e] <= stamp'[f]
  <2>1. e \in Envelopes /\ f \in Envelopes /\ e \notin S /\ e \in current
    BY <1>2
  <2>2. stamp'[e] = stamp[e] /\ stamp[e] <= now
    BY <2>1 DEF Ordered
  <2>3. CASE f \in S
    BY <2>1, <2>2, <2>3
  <2>4. CASE f \notin S
    BY <2>1, <2>2, <2>4 DEF Ordered, Chronological
  <2> QED
    BY <2>3, <2>4
<1> QED
  BY <1>4, <1>5 DEF Ordered, Chronological

\* The steps that queue nothing.
LEMMA StillOrdered ==
  ASSUME TypeInv, Ordered,
         Run \/ Top \/ Check \/ Execute \/ React \/ Stop \/ Signal \/ UNCHANGED vars
  PROVE  Ordered'
<1>1. HandType /\ ClockType
  BY TypeParts DEF TypeInv
<1>2. queue' = queue /\ stamp' = stamp /\ internalOnly' = internalOnly
  BY DEF Run, Top, Check, Execute, React, Stop, Signal, vars, world
<1>3. current' \subseteq current
  BY DEF Run, Top, Check, Execute, React, Stop, Signal, vars
<1>4. now' \in Nat /\ now <= now' /\ (internalOnly => now' <= tick')
  <2>1. CASE React
    BY <1>1, <2>1, TimePasses, AdvancedType DEF React
  <2>2. CASE Run \/ Top \/ Check \/ Execute \/ Stop \/ Signal \/ UNCHANGED vars
    <3>1. now' = now /\ tick' = tick
      BY <2>2 DEF Run, Top, Check, Execute, Stop, Signal, vars, clock
    <3> QED
      BY <1>1, <3>1 DEF ClockType, Ordered
  <2> QED
    BY <2>1, <2>2
<1>5. {} \in SUBSET Envelopes /\ queue' = queue \union {}
      /\ {} \intersect (queue \union current) = {}
      /\ \A e \in Envelopes : stamp'[e] = IF e \in {} THEN now ELSE stamp[e]
  BY <1>2
<1> QED
  BY <1>2, <1>3, <1>4, <1>5, NewOrdered

\* The steps in which envelopes are queued and no time passes.
LEMMA SubmittedOrdered ==
  ASSUME TypeInv, Ordered, NEW S \in SUBSET Envelopes, S \intersect (queue \union current) = {},
         Submitted(S), UNCHANGED <<current, internalOnly, now, tick>>
  PROVE  Ordered'
<1>1. HandType /\ ClockType
  BY TypeParts DEF TypeInv
<1>2. now' \in Nat /\ now <= now' /\ (internalOnly => now' <= tick')
  BY <1>1 DEF ClockType, Ordered
<1>3. /\ queue' = queue \union S
      /\ \A e \in Envelopes : stamp'[e] = IF e \in S THEN now ELSE stamp[e]
  BY DEF Submitted
<1> QED
  BY <1>2, <1>3, NewOrdered

LEMMA AlarmsOrdered == TypeInv /\ Ordered /\ Alarms => Ordered'
<1> SUFFICES ASSUME TypeInv, Ordered, Alarms PROVE Ordered'
  OBVIOUS
<1>1. UNCHANGED <<current, internalOnly, now, tick>>
  BY DEF Alarms, clock, world
<1>2. CASE UNCHANGED <<queue, stamp>>
  BY <1>1, <1>2 DEF Ordered, Chronological
<1>3. CASE \E E \in SUBSET Free(Reports) : Submitted(E)
  <2>1. PICK E \in SUBSET Free(Reports) : Submitted(E)
    BY <1>3
  <2>2. E \in SUBSET Envelopes /\ E \intersect (queue \union current) = {}
    BY DEF Free, Envelopes
  <2> QED
    BY <1>1, <2>1, <2>2, SubmittedOrdered
<1> QED
  BY <1>2, <1>3 DEF Alarms

LEMMA AnimateOrdered == TypeInv /\ Ordered /\ Animate => Ordered'
<1> SUFFICES ASSUME TypeInv, Ordered, Animate PROVE Ordered'
  OBVIOUS
<1>1. UNCHANGED <<current, internalOnly, now, tick>>
  BY DEF Animate, clock, world
<1>2. CASE UNCHANGED <<queue, stamp>>
  BY <1>1, <1>2 DEF Ordered, Chronological
<1>3. CASE Ticks
  <2>1. PICK R \in SUBSET Free(Reactions) : Submitted(R)
    BY <1>3, TicksType
  <2>2. R \in SUBSET Envelopes /\ R \intersect (queue \union current) = {}
    BY DEF Free, Envelopes
  <2> QED
    BY <1>1, <2>1, <2>2, SubmittedOrdered
<1> QED
  BY <1>2, <1>3 DEF Animate

LEMMA AgencyOrdered == TypeInv /\ Ordered /\ Agency => Ordered'
<1> SUFFICES ASSUME TypeInv, Ordered, Agency PROVE Ordered'
  OBVIOUS
<1>1. HandType /\ ClockType /\ CountType /\ IsFiniteSet(scheduled)
  BY TypeParts DEF TypeInv
<1>2. PICK R \in SUBSET Free(Reactions), S \in SUBSET Free(Errands) : Activated(R, R \union S)
  BY DEF Agency
<1>3. R \in SUBSET Envelopes /\ R \union S \in SUBSET Envelopes
      /\ (R \union S) \intersect (queue \union current) = {}
  BY DEF Free, Envelopes
<1>4. /\ queue' = queue \union (R \union S)
      /\ \A e \in Envelopes : stamp'[e] = IF e \in R \union S THEN now ELSE stamp[e]
  BY <1>1, <1>2, <1>3, ActivatedType DEF HandType, CountType, ClockType
<1>5. PICK n \in Nat : Advanced(n)
  <2>1. {s \in Due : s.act = "deliver"} \in SUBSET scheduled
    BY DEF Due
  <2>2. Cardinality({s \in Due : s.act = "deliver"}) \in Nat
    BY <1>1, <2>1, FS_Subset, FS_CardinalityType
  <2> QED
    BY <2>2 DEF Agency
<1>6. now' \in Nat /\ now <= now' /\ (internalOnly => now' <= tick')
  BY <1>1, <1>5, TimePasses, AdvancedType
<1>7. current' = current /\ internalOnly' = internalOnly
  BY DEF Agency, world
<1> QED
  BY <1>3, <1>4, <1>6, <1>7, NewOrdered

LEMMA NotifyOrdered == TypeInv /\ Ordered /\ Notify => Ordered'
<1> SUFFICES ASSUME TypeInv, Ordered, Notify PROVE Ordered'
  OBVIOUS
<1>1. HandType /\ ClockType /\ CountType
  BY TypeParts DEF TypeInv
<1>2. PICK R \in SUBSET Free(Reactions) : \E S \in SUBSET R : Activated(R, S)
  BY DEF Notify
<1>3. PICK S \in SUBSET R : Activated(R, S)
  BY <1>2
<1>4. R \in SUBSET Envelopes /\ S \in SUBSET Envelopes
      /\ S \intersect (queue \union current) = {}
  BY DEF Free, Envelopes
<1>5. /\ queue' = queue \union S
      /\ \A e \in Envelopes : stamp'[e] = IF e \in S THEN now ELSE stamp[e]
  BY <1>1, <1>3, <1>4, ActivatedType DEF HandType, CountType, ClockType
<1>6. current' = current /\ internalOnly' = internalOnly /\ now' = now /\ tick' = tick
  BY DEF Notify, clock, world
<1>7. now' \in Nat /\ now <= now' /\ (internalOnly => now' <= tick')
  BY <1>1, <1>6 DEF ClockType, Ordered
<1> QED
  BY <1>4, <1>5, <1>6, <1>7, NewOrdered

LEMMA VisitOrdered == TypeInv /\ Ordered /\ Visit => Ordered'
<1> SUFFICES ASSUME TypeInv, Ordered, Visit PROVE Ordered'
  OBVIOUS
<1>1. UNCHANGED <<current, internalOnly, now, tick>>
  BY DEF Visit, clock, world
<1>2. CASE UNCHANGED <<queue, stamp>>
  BY <1>1, <1>2 DEF Ordered, Chronological
<1>3. CASE \E e \in Free(Visits) : Submitted({e})
  <2>1. PICK e \in Free(Visits) : Submitted({e})
    BY <1>3
  <2>2. {e} \in SUBSET Envelopes /\ {e} \intersect (queue \union current) = {}
    BY DEF Free, Envelopes
  <2> QED
    BY <1>1, <2>1, <2>2, SubmittedOrdered
<1> QED
  BY <1>2, <1>3 DEF Visit

LEMMA PopOrdered ==
  ASSUME TypeInv, Ordered, NEW e \in Envelopes, Pop(e)
  PROVE  Ordered'
<1>1. HandType /\ ClockType
  BY TypeParts DEF TypeInv
<1>2. /\ e \in Heads /\ e \in queue /\ queue' = queue \ {e} /\ stamp' = stamp /\ current = {}
      /\ internalOnly' = internalOnly
  BY <1>1 DEF Pop, Heads, HandType, world
<1>3. now' \in Nat /\ now <= now' /\ (internalOnly => now' <= tick')
  <2>1. CASE UNCHANGED clock
    BY <1>1, <2>1 DEF ClockType, Ordered, clock
  <2>2. CASE Advanced(1)
    BY <1>1, <2>2, TimePasses, AdvancedType
  <2> QED
    BY <2>1, <2>2 DEF Pop
<1>4. current' \subseteq {e}
  BY <1>2 DEF Pop
<1>5. ASSUME NEW f \in queue' \union current' PROVE stamp'[f] <= now'
  <2>1. f \in queue /\ stamp[f] \in Nat /\ stamp[f] <= now /\ now \in Nat
    BY <1>1, <1>2, <1>4 DEF HandType, ClockType, Ordered
  <2> QED
    BY <1>2, <1>3, <2>1
<1>6. ASSUME NEW f \in queue' PROVE stamp'[e] <= stamp'[f]
  <2>1. stamp[e] \in Nat /\ stamp[f] \in Nat
    BY <1>1, <1>2 DEF HandType
  <2>2. NotAfter(e, f)
    BY <1>2 DEF Heads
  <2> QED
    BY <1>2, <2>1, <2>2 DEF NotAfter
<1> QED
  BY <1>2, <1>3, <1>4, <1>5, <1>6 DEF Ordered, Chronological

LEMMA PopNothingOrdered == TypeInv /\ Ordered /\ PopNothing => Ordered'
<1> SUFFICES ASSUME TypeInv, Ordered, PopNothing PROVE Ordered'
  OBVIOUS
<1>1. HandType /\ ClockType /\ PlanType /\ AlarmType
  BY TypeParts DEF TypeInv
<1>2. queue' = {} /\ current' = {} /\ internalOnly' = internalOnly
  BY <1>1 DEF PopNothing, HandType, world
<1>3. internalOnly => now' <= tick'
  <2>1. CASE internalOnly /\ Upcoming # {} /\ NextScheduled > now
    BY <1>1, <2>1, NextType DEF PopNothing
  <2>2. CASE ~(internalOnly /\ Upcoming # {} /\ NextScheduled > now)
    BY <2>2 DEF PopNothing, Ordered, clock
  <2> QED
    BY <2>1, <2>2
<1> QED
  BY <1>2, <1>3 DEF Ordered, Chronological

LEMMA OrderedInvariant == Spec => []Ordered
<1>1. Init => Ordered
  BY RunnerAssumption DEF Init, Ordered, Chronological
<1>2. TypeInv /\ Ordered /\ [Next]_vars => Ordered'
  BY Steps, StillOrdered, AlarmsOrdered, AnimateOrdered, AgencyOrdered, NotifyOrdered,
     VisitOrdered, PopOrdered, PopNothingOrdered
<1> QED
  BY <1>1, <1>2, TypeInvariant, PTL DEF Spec

\* What is executed is never younger than anything that waits, or arrives
\* while it is executed, whatever stops, visits and advances come in between.
THEOREM RunnerChronological == Spec => []Chronological
<1>1. Ordered => Chronological
  BY DEF Ordered
<1> QED
  BY <1>1, OrderedInvariant, PTL

\* From the alarms to the choice of an envelope no single timer is overdue.
AllRung ==
  pc \in {"animate", "agency", "pop"} /\ "deliverable" \notin signals /\ ~static =>
    \A x \in timers : x.every = 0 => x.at > now

LEMMA RungStays ==
  ASSUME AlarmType, NEW t, NEW x \in Rung(t), x.every = 0
  PROVE  x \in timers /\ ~(x.at <= t)
<1>1. CASE x \in timers \ Ringing(t)
  BY <1>1 DEF Ringing
<1>2. CASE \E y \in Ringing(t) : y.every > 0 /\ x = [y EXCEPT !.at = @ + y.every]
  <2>1. PICK y \in Ringing(t) : y.every > 0 /\ x = [y EXCEPT !.at = @ + y.every]
    BY <1>2
  <2>2. y \in [at : Nat, every : Nat]
    BY <2>1 DEF Ringing, AlarmType
  <2>3. x.every = y.every
    BY <2>1, <2>2
  <2> QED
    BY <2>1, <2>2, <2>3
<1> QED
  BY <1>1, <1>2 DEF Rung

LEMMA AllRungInvariant == Spec => []AllRung
<1>1. Init => AllRung
  BY DEF Init, AllRung
<1>2. TypeInv /\ AllRung /\ [Next]_vars => AllRung'
  <2> SUFFICES ASSUME TypeInv, AllRung, [Next]_vars, pc' \in {"animate", "agency", "pop"},
                      "deliverable" \notin signals', ~static', NEW x \in timers', x.every = 0
               PROVE  x.at > now'
    BY DEF AllRung
  <2>1. ClockType /\ AlarmType /\ IsFiniteSet(scheduled)
    BY TypeParts DEF TypeInv
  <2>2. CASE Alarms
    <3>1. now' = now /\ timers' = Rung(now)
      BY <2>2 DEF Alarms, Rings, clock, world
    <3>2. x \in timers /\ ~(x.at <= now)
      BY <2>1, <3>1, RungStays
    <3> QED
      BY <2>1, <3>1, <3>2 DEF AlarmType, ClockType
  <2>3. CASE Animate
    <3>1. now' = now /\ pc = "animate" /\ signals' = signals /\ static' = static
      BY <2>3 DEF Animate, clock, world, outside
    <3>2. x \in timers
      <4>1. timers' = timers \/ \E t \in Cutoffs : timers' = Rung(t)
        BY <2>3 DEF Animate, Ticks, Rings
      <4> QED
        BY <2>1, <4>1, RungStays
    <3> QED
      BY <3>1, <3>2 DEF AllRung
  <2>4. CASE Agency
    <3>1. timers' = timers /\ static' = static /\ pc = "agency"
      BY <2>4 DEF Agency, animator, world
    <3>2. PICK n \in Nat :
                 /\ signals' = IF n > 0 THEN signals \union {"deliverable"} ELSE signals
                 /\ Advanced(n)
      <4>1. {s \in Due : s.act = "deliver"} \in SUBSET scheduled
        BY DEF Due
      <4>2. Cardinality({s \in Due : s.act = "deliver"}) \in Nat
        BY <2>1, <4>1, FS_Subset, FS_CardinalityType
      <4> QED
        BY <2>4, <4>2 DEF Agency
    <3>3. ~(n > 0)
      BY <3>2
    <3>4. now' = now /\ signals' = signals
      BY <3>2, <3>3 DEF Advanced, clock
    <3> QED
      BY <3>1, <3>4 DEF AllRung
  <2>5. CASE Stop \/ Signal \/ Visit \/ UNCHANGED vars
    <3>1. /\ pc' = pc /\ timers' = timers /\ now' = now /\ static' = static
          /\ signals \subseteq signals'
      BY <2>5 DEF Stop, Signal, Visit, vars, clock, animator, world, outside
    <3> QED
      BY <3>1 DEF AllRung
  <2>6. CASE \/ Run \/ Top \/ Check \/ PopNothing \/ (\E e \in Envelopes : Pop(e))
             \/ Execute \/ Notify \/ React
    BY <2>6 DEF Run, Top, Check, Completed, PopNothing, Pop, Execute, Notify, React
  <2> QED
    BY <2>2, <2>3, <2>4, <2>5, <2>6, Steps
<1> QED
  BY <1>1, <1>2, TypeInvariant, PTL DEF Spec

\* Actors that schedule ahead never leave anything overdue when the loop takes
\* an envelope, nor does the animator's scheduler a single timer, although time
\* is advanced in four places.
THEOREM RunnerNothingOverdue ==
  ASSUME 0 \notin Offsets
  PROVE  Spec => []NothingOverdue
<1> DEFINE Timely == pc = "pop" /\ "deliverable" \notin signals =>
                       \A s \in scheduled : s.at > now
<1>1. Init => Timely
  BY DEF Init
<1>2. TypeInv /\ Timely /\ [Next]_vars => Timely'
  <2> SUFFICES ASSUME TypeInv, Timely, [Next]_vars, pc' = "pop",
                      "deliverable" \notin signals', NEW s \in scheduled'
               PROVE  s.at > now'
    OBVIOUS
  <2>1. ClockType /\ PlanType /\ IsFiniteSet(scheduled)
    BY TypeParts DEF TypeInv
  <2>2. CASE Agency
    <3>1. PICK P \in SUBSET Plans : scheduled' = (scheduled \ Due) \union P
      BY <2>2 DEF Agency
    <3>2. PICK n \in Nat :
                 /\ signals' = IF n > 0 THEN signals \union {"deliverable"} ELSE signals
                 /\ Advanced(n)
      <4>1. {t \in Due : t.act = "deliver"} \in SUBSET scheduled
        BY DEF Due
      <4>2. Cardinality({t \in Due : t.act = "deliver"}) \in Nat
        BY <2>1, <4>1, FS_Subset, FS_CardinalityType
      <4> QED
        BY <2>2, <4>2 DEF Agency
    <3>3. ~(n > 0)
      BY <3>2
    <3>4. now' = now
      BY <3>2, <3>3 DEF Advanced, clock
    <3>5. CASE s \in scheduled \ Due
      BY <2>1, <3>4, <3>5 DEF Due, PlanType, ClockType
    <3>6. CASE s \in P
      <4>1. PICK d \in Offsets : s.at = now + d
        BY <3>6 DEF Plans
      <4>2. d \in Nat /\ d # 0
        BY RunnerAssumption
      <4> QED
        BY <2>1, <3>4, <4>1, <4>2 DEF ClockType
    <3> QED
      BY <3>1, <3>5, <3>6
  <2>3. CASE Stop \/ Signal \/ Visit \/ UNCHANGED vars
    <3>1. pc' = pc /\ scheduled' = scheduled /\ now' = now /\ signals \subseteq signals'
      BY <2>3 DEF Stop, Signal, Visit, vars, clock, outside
    <3> QED
      BY <3>1
  <2>4. CASE \/ Run \/ Top \/ Check \/ Alarms \/ Animate \/ PopNothing
             \/ (\E e \in Envelopes : Pop(e)) \/ Execute \/ Notify \/ React
    BY <2>4 DEF Run, Top, Check, Completed, Alarms, Animate, PopNothing, Pop, Execute, Notify,
                React
  <2> QED
    BY <2>2, <2>3, <2>4, Steps
<1>3. Timely /\ AllRung => NothingOverdue
  BY DEF AllRung, NothingOverdue
<1> QED
  BY <1>1, <1>2, <1>3, TypeInvariant, AllRungInvariant, PTL DEF Spec

-----------------------------------------------------------------------------
(* The end.                                                                *)

\* The end conditions that nothing undoes; only idle ticks are ever reset.
Spent == \/ status = "stopped"
         \/ total >= MaxTotalEvents \/ now >= MaxTime
         \/ signals # {} /\ ("mission" \in signals \/ internalOnly)
         \/ internalOnly /\ tick >= MaxTicks

\* The turn in which an envelope was executed although an end condition held
\* is the last one; actors are not idle for too long in the middle of a turn.
Closing ==
  /\ pc \in {"alarms", "animate", "agency", "pop", "execute", "notify", "react"}
       => ~(internalOnly /\ idle >= IdleStopTicks)
  /\ \/ late = 0
     \/ /\ late = 1
        /\ \/ pc = "done"
           \/ pc \in {"notify", "react", "top", "budget"} /\ Spent

\* What has ended the run goes on doing so until the loop looks.
LEMMA SpentStays ==
  ASSUME TypeInv, Ordered, [Next]_vars, Spent, pc \in {"notify", "react", "top", "budget"}
  PROVE  \/ pc' = "done"
         \/ pc' \in {"notify", "react", "top", "budget"} /\ Spent'
<1>1. ClockType /\ HandType /\ CountType /\ SideType
  BY TypeParts DEF TypeInv
<1>2. CASE Top \/ Notify \/ Stop \/ Signal \/ Visit \/ UNCHANGED vars
  <2>1. /\ internalOnly' = internalOnly /\ total' = total /\ now' = now /\ tick' = tick
        /\ status = "stopped" => status' = "stopped"
        /\ signals \subseteq signals'
    BY <1>2 DEF Top, Notify, Stop, Signal, Visit, vars, clock, counts, outside, world
  <2>2. pc' = "done" \/ pc' \in {"notify", "react", "top", "budget"}
    BY <1>2 DEF Top, Notify, Stop, Signal, Visit, vars
  <2>3. Spent'
    BY <2>1 DEF Spent
  <2> QED
    BY <2>2, <2>3
<1>3. CASE React
  <2>1. now <= now' /\ tick <= tick' /\ now' \in Nat /\ tick' \in Nat
    BY <1>1, <1>3, TimePasses, AdvancedType DEF React
  <2>2. /\ internalOnly' = internalOnly /\ total' = total /\ status' = status
        /\ signals' = signals /\ pc' = "top"
    BY <1>3 DEF React, outside, world
  <2>3. now >= MaxTime => now' >= MaxTime
    BY <1>1, <2>1, RunnerAssumption DEF ClockType
  <2>4. tick >= MaxTicks => tick' >= MaxTicks
    BY <1>1, <2>1, RunnerAssumption DEF ClockType
  <2> QED
    BY <2>2, <2>3, <2>4 DEF Spent
<1>4. CASE Check
  <2>1. ASSUME Holding = {} PROVE FALSE
    BY <1>1, <2>1, NothingHolds DEF SideType, Spent, Ending
  <2>2. pc' = "done" \/ Holding = {}
    BY <1>4 DEF Check, Completed
  <2> QED
    BY <2>1, <2>2, Zenon
<1>5. CASE \/ Run \/ Alarms \/ Animate \/ Agency \/ PopNothing
           \/ (\E e \in Envelopes : Pop(e)) \/ Execute
  BY <1>5 DEF Run, Alarms, Animate, Agency, PopNothing, Pop, Execute
<1> QED
  BY <1>2, <1>3, <1>4, <1>5, Steps

LEMMA ClosingStep == TypeInv /\ Ordered /\ Closing /\ [Next]_vars => Closing'
<1> SUFFICES ASSUME TypeInv, Ordered, Closing, [Next]_vars PROVE Closing'
  OBVIOUS
<1> DEFINE Turn == {"alarms", "animate", "agency", "pop", "execute", "notify", "react"}
<1>1. CountType /\ SideType
  BY TypeParts DEF TypeInv
<1>2. pc' \in Turn => ~(internalOnly' /\ idle' >= IdleStopTicks)
  <2>1. CASE Check
    <3>1. internalOnly' = internalOnly /\ idle' = idle
      BY <2>1 DEF Check, counts, world
    <3>2. Holding = {} => ~(internalOnly /\ idle >= IdleStopTicks)
      BY <1>1, NothingHolds DEF SideType, Ending
    <3>3. pc' = "done" \/ Holding = {}
      BY <2>1 DEF Check, Completed
    <3>4. CASE Holding = {}
      BY <3>1, <3>2, <3>4, Zenon
    <3>5. CASE pc' = "done"
      BY <3>5
    <3> QED
      BY <3>3, <3>4, <3>5
  <2>2. CASE Run \/ Top \/ PopNothing \/ React
    BY <2>2 DEF Run, Top, PopNothing, React
  <2>3. CASE \/ Alarms \/ Animate \/ Agency \/ (\E e \in Envelopes : Pop(e)) \/ Execute \/ Notify
             \/ Stop \/ Signal \/ Visit \/ UNCHANGED vars
    <3>1. internalOnly' = internalOnly /\ idle' = idle
      BY <2>3 DEF Alarms, Animate, Agency, Pop, Execute, Notify, Stop, Signal, Visit, vars,
                  counts,
                  world
    <3>2. pc' \in Turn => pc \in Turn
      BY <2>3 DEF Alarms, Animate, Agency, Pop, Execute, Notify, Stop, Signal, Visit, vars
    <3> QED
      BY <3>1, <3>2, Zenon DEF Closing
  <2> QED
    BY <2>1, <2>2, <2>3, Steps
<1>3. CASE Execute
  <2>1. pc = "execute" /\ late = 0 /\ ~(internalOnly /\ idle >= IdleStopTicks)
    BY <1>3 DEF Closing, Execute
  <2>2. CASE ~Ending
    BY <1>2, <1>3, <2>1, <2>2 DEF Execute, Closing
  <2>3. CASE Ending
    <3>1. Spent
      BY <2>1, <2>3, Zenon DEF Ending, Spent
    <3>2. /\ internalOnly' = internalOnly /\ now' = now /\ tick' = tick /\ status' = status
          /\ signals' = signals /\ (total' = total \/ total' = total + 1)
      BY <1>3 DEF Execute, clock, outside, world
    <3>3. total >= MaxTotalEvents => total' >= MaxTotalEvents
      BY <1>1, <3>2, RunnerAssumption DEF CountType
    <3>4. Spent'
      BY <3>1, <3>2, <3>3 DEF Spent
    <3>5. late' = 1 /\ pc' \in {"notify", "top"}
      BY <1>3, <2>1, <2>3 DEF Execute
    <3> QED
      BY <1>2, <3>4, <3>5 DEF Closing
  <2> QED
    BY <2>2, <2>3
<1>4. CASE ~Execute
  <2>1. late' = late
    BY <1>4, Steps DEF Run, Top, Check, Alarms, Animate, Agency, PopNothing, Pop, Notify,
                       React, Stop,
                       Signal, Visit, vars
  <2>2. CASE late = 0
    BY <1>2, <2>1, <2>2 DEF Closing
  <2>3. CASE late = 1 /\ pc = "done"
    <3>1. pc' = "done"
      BY <2>3, Steps DEF Run, Top, Check, Alarms, Animate, Agency, PopNothing, Pop, Execute,
                         Notify,
                         React, Stop, Signal, Visit, vars
    <3>2. pc' \notin Turn /\ late' = 1
      BY <2>1, <2>3, <3>1
    <3> QED
      BY <3>1, <3>2, Zenon DEF Closing
  <2>4. CASE late = 1 /\ pc \in {"notify", "react", "top", "budget"} /\ Spent
    BY <1>2, <2>1, <2>4, SpentStays DEF Closing
  <2> QED
    BY <2>2, <2>3, <2>4 DEF Closing
<1> QED
  BY <1>3, <1>4

\* Once an end condition holds for good, no more than the envelope in hand is
\* executed: signals, stops and limits are looked at between any two.
THEOREM RunnerOneMoreAtMost == Spec => []OneMoreAtMost
<1>1. Init => Closing
  BY DEF Init, Closing
<1>2. Closing => OneMoreAtMost
  BY DEF Closing, OneMoreAtMost
<1> QED
  BY <1>1, <1>2, ClosingStep, OrderedInvariant, TypeInvariant, PTL DEF Spec

-----------------------------------------------------------------------------
(* The loop has a next envelope, and keeps to the cap on its own.          *)

\* Logical time and priority in one number: priorities are below 4.
Rank(e) == 4 * stamp[e] + Priority(e)

LEMMA PriorityType == \A e \in Envelopes : Priority(e) \in 0..3
BY DEF Priority

LEMMA RankOrders ==
  ASSUME stamp \in [Envelopes -> Nat], NEW e \in Envelopes, NEW f \in Envelopes,
         Rank(e) <= Rank(f)
  PROVE  NotAfter(e, f)
<1>1. PICK a \in Nat, b \in Nat, p \in 0..3, q \in 0..3 :
             a = stamp[e] /\ b = stamp[f] /\ p = Priority(e) /\ q = Priority(f)
  BY PriorityType
<1>2. 4 * a + p <= 4 * b + q
  BY <1>1 DEF Rank
<1>3. a < b \/ (a = b /\ p <= q)
  BY <1>2, SMT
<1> QED
  BY <1>1, <1>3 DEF NotAfter

\* The loop takes an envelope, or finds the queue empty.
LoopHasNext == pc = "pop" => queue = {} \/ Heads # {}

\* However logical times and priorities are mixed, a queue that is not empty
\* has an envelope that none of the others precedes: get() never fails.
THEOREM RunnerHasNext == Spec => []LoopHasNext
<1>1. TypeInv => LoopHasNext
  <2> SUFFICES ASSUME TypeInv, queue # {} PROVE Heads # {}
    BY DEF LoopHasNext
  <2>1. queue \subseteq Envelopes /\ stamp \in [Envelopes -> Nat]
    BY TypeParts DEF TypeInv, HandType
  <2> DEFINE K == {Rank(e) : e \in queue}
  <2>2. \A e \in queue : Rank(e) \in Nat
    <3> TAKE e \in queue
    <3>1. PICK a \in Nat, p \in 0..3 : a = stamp[e] /\ p = Priority(e)
      BY <2>1, PriorityType
    <3> QED
      BY <3>1 DEF Rank
  <2>3. K \in SUBSET Nat /\ K # {}
    BY <2>2
  <2>4. PICK k \in K : \A y \in K : k <= y
    BY <2>3, MinLeast
  <2>5. PICK e \in queue : Rank(e) = k
    BY <2>4
  <2>6. \A f \in queue : Rank(e) <= Rank(f)
    BY <2>4, <2>5
  <2>7. \A f \in queue : NotAfter(e, f)
    BY <2>1, <2>5, <2>6, RankOrders
  <2> QED
    BY <2>5, <2>7 DEF Heads
<1> QED
  BY <1>1, TypeInvariant, PTL

\* While the loop decides what to execute it has room for one more commit.
CapInv ==
  /\ own <= total
  /\ own <= MaxTotalEvents
  /\ pc \in {"alarms", "animate", "agency", "pop", "execute"} => own < MaxTotalEvents

LEMMA CapStep == TypeInv /\ CapInv /\ [Next]_vars => CapInv'
<1> SUFFICES ASSUME TypeInv, CapInv, [Next]_vars PROVE CapInv'
  OBVIOUS
<1>1. CountType /\ SideType /\ IsFiniteSet(scheduled) /\ MaxTotalEvents \in Nat
  BY TypeParts, RunnerAssumption DEF TypeInv
<1>2. CASE Check
  <2>1. own' = own /\ total' = total
    BY <1>2 DEF Check, counts, committed
  <2>2. pc' = "done" \/ Holding = {}
    BY <1>2 DEF Check, Completed
  <2>3. Holding = {} => ~(total >= MaxTotalEvents)
    BY <1>1, NothingHolds DEF SideType, Ending
  <2>4. CASE pc' = "done"
    BY <2>1, <2>4 DEF CapInv
  <2>5. CASE Holding = {}
    BY <1>1, <2>1, <2>3, <2>5 DEF CapInv, CountType
  <2> QED
    BY <2>2, <2>4, <2>5
<1>3. CASE Agency
  <2>1. own' = own /\ pc = "agency"
    BY <1>3 DEF Agency
  <2>2. \E n \in Nat : total' = total + n
    <3>1. {t \in Due : t.act = "deliver"} \in SUBSET scheduled
      BY DEF Due
    <3>2. Cardinality({t \in Due : t.act = "deliver"}) \in Nat
      BY <1>1, <3>1, FS_Subset, FS_CardinalityType
    <3> QED
      BY <1>3, <3>2 DEF Agency
  <2> QED
    BY <1>1, <2>1, <2>2 DEF CapInv, CountType
<1>4. CASE Execute
  <2>1. CASE own' = own /\ total' = total /\ pc' = "top"
    BY <2>1 DEF CapInv
  <2>2. CASE own' = own + 1 /\ total' = total + 1 /\ pc' = "notify"
    <3>1. own < MaxTotalEvents
      BY <1>4 DEF Execute, CapInv
    <3> QED
      BY <1>1, <2>2, <3>1 DEF CapInv, CountType
  <2> QED
    BY <1>4, <2>1, <2>2 DEF Execute
<1>5. CASE \E e \in Envelopes : Pop(e)
  <2>1. own' = own /\ (total' = total \/ total' = total + 1) /\ pc = "pop"
    BY <1>5 DEF Pop, committed
  <2> QED
    BY <1>1, <2>1 DEF CapInv, CountType
<1>6. CASE \/ Run \/ Top \/ Alarms \/ Animate \/ PopNothing \/ Notify \/ React
           \/ Stop \/ Signal \/ Visit \/ UNCHANGED vars
  <2>1. own' = own /\ total' = total
    BY <1>6 DEF Run, Top, Alarms, Animate, PopNothing, Notify, React, Stop, Signal, Visit,
                vars, counts, committed
  <2>2. \/ pc' \notin {"alarms", "animate", "agency", "pop", "execute"}
        \/ pc \in {"alarms", "animate", "agency", "pop", "execute"}
    BY <1>6 DEF Run, Top, Alarms, Animate, PopNothing, Notify, React, Stop, Signal, Visit, vars
  <2> QED
    BY <2>1, <2>2, Zenon DEF CapInv
<1> QED
  BY <1>2, <1>3, <1>4, <1>5, <1>6, Steps

\* Whatever the agency and the animator commit outside the loop, and however
\* many deliverables are counted as events, what the loop itself commits is
\* counted before it looks at max_total_events again.
THEOREM RunnerCapsItsOwn == Spec => [](own <= total /\ own <= MaxTotalEvents)
<1>1. Init => CapInv
  BY RunnerAssumption DEF Init, CapInv
<1>2. CapInv => own <= total /\ own <= MaxTotalEvents
  BY DEF CapInv
<1> QED
  BY <1>1, <1>2, CapStep, TypeInvariant, PTL DEF Spec
=============================================================================
