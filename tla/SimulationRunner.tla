------------------------- MODULE SimulationRunner -------------------------
(***************************************************************************)
(* The simulation loop: SimulationRunner.run(), its EventQueue, the agency *)
(* it notifies, the animator's scheduler and the signals that may end it.  *)
(*                                                                         *)
(* An envelope is an action waiting for its turn.  The agency executes the *)
(* tool calls of an activation at once (tool_executor) and returns their   *)
(* envelopes.  Envelopes are reusable names: one that is neither queued    *)
(* nor executed stands for any new envelope.  The clock counts ticks; a    *)
(* step is what the loop does up to an await at which the world may have   *)
(* changed for it.                                                         *)
(***************************************************************************)
EXTENDS Integers, Sequences, FiniteSets, FiniteSetsExt

CONSTANTS
  Reactions,        \* envelopes of the tool calls of internal actors
  Errands,          \* envelopes of the actions internal actors have scheduled
  Reports,          \* envelopes of the environment
  Visits,           \* envelopes of external agents
  Deliverables,     \* the envelopes that are the meta-action produce_deliverable
  Kickstart,        \* the envelopes the queue starts with
  Offsets,          \* how far from now an LLM schedules an action
  Setups,           \* simulations: the type, the actions scheduled at the start, the
                    \* animator's behavior and what its scheduler holds
  MaxInvented,      \* organic events in a tick of the animator
  MaxInline,        \* how far actions committed outside the loop are counted
  InitialTick, MaxTicks, MaxTime, MaxTotalEvents, IdleStopTicks, LoopBreakerThreshold,
  MaxEnvelopesPerEvent, MaxActionsPerActor, MaxReactions, AnimatorInterval

Envelopes == Reactions \union Errands \union Reports \union Visits
Acts == {"work", "deliver", "other"}

ASSUME RunnerAssumption ==
  /\ Deliverables \subseteq Visits
  /\ Kickstart \subseteq Envelopes
  /\ IsFiniteSet(Envelopes) /\ IsFiniteSet(Offsets)
  /\ Offsets \subseteq Nat
  /\ \A u \in Setups :
       /\ IsFiniteSet(u.agenda) /\ \A s \in u.agenda : s.at \in Nat /\ s.act \in Acts
       /\ {u.internalOnly, u.static} \subseteq BOOLEAN /\ u.triggers \in Nat
       /\ IsFiniteSet(u.timers) /\ u.timers \subseteq [at : Nat, every : Nat]
  /\ {MaxInvented, MaxInline, InitialTick, MaxTicks, MaxTime, MaxTotalEvents, IdleStopTicks,
      LoopBreakerThreshold, MaxEnvelopesPerEvent, MaxActionsPerActor, MaxReactions,
      AnimatorInterval} \subseteq Nat

VARIABLES
  internalOnly,  \* the simulation type: no external agents
  static,        \* the animator's behavior: it fires nothing and invents nothing
  status,      \* of the runner
  reason,      \* why it stopped
  pc,          \* where the loop is
  queue,       \* the queued envelopes
  stamp,       \* their logical times
  current,     \* the envelope that is being executed, as a set of at most one
  now,         \* the queue's logical time
  tick,        \* the runner's tick
  total,       \* events processed
  solo,        \* events since the last external one
  idle,        \* consecutive idle ticks
  acted,       \* actions counted at this logical time, for each source
  animated,    \* the tick at which the animator last ran
  timers,      \* its scheduled events; those with every > 0 recur
  triggers,    \* how many conditions its scheduler waits for
  scheduled,   \* what the actors have scheduled
  signals,     \* "mission", "deliverable"
  agents,      \* external agents: "never", "connected" or "gone"
  stopped,     \* whether stop() was called while run() was under way
  own,         \* actions the loop has committed
  inline,      \* actions the agency and the animator have, up to MaxInline
  late         \* envelopes executed although an end condition held

world == <<internalOnly, static>>
clock == <<now, tick>>
counts == <<total, solo, idle>>
animator == <<animated, timers, triggers>>
outside == <<signals, agents, stopped>>
committed == <<own, inline>>
vars == <<world, status, reason, pc, queue, stamp, current, clock, counts, acted,
          animator, scheduled, outside, committed, late>>

Source(e) == CASE e \in Reports -> "environment"
               [] e \in Visits  -> "external"
               [] OTHER         -> "internal"
Free(S) == S \ (queue \union current)

-----------------------------------------------------------------------------
(* The queue: by logical time, then by priority.                           *)

Priority(e) == CASE e \in Deliverables \union Errands -> 0
                 [] e \in Reports -> 1
                 [] e \in Visits -> 2
                 [] OTHER -> 3

\* Mutant: the priority decides alone.
PriorityFirst(e, f) == Priority(e) <= Priority(f)

NotAfter(e, f) == \/ stamp[e] < stamp[f]
                  \/ stamp[e] = stamp[f] /\ Priority(e) <= Priority(f)

Heads == {e \in queue : \A f \in queue : NotAfter(e, f)}

Submitted(S) ==
  /\ queue' = queue \union S
  /\ stamp' = [e \in Envelopes |-> IF e \in S THEN now ELSE stamp[e]]

Bounded(n) == Min({n, MaxInline})

\* The agency has executed the tool calls R and returns their envelopes, of
\* which S are submitted.
Activated(R, S) ==
  /\ inline' = Bounded(inline + Cardinality(R))
  /\ Submitted(S)

\* What the LLM may schedule during an activation.
Plans == {[at |-> now + d, act |-> a] : d \in Offsets, a \in {"work", "other"}}

-----------------------------------------------------------------------------
(* The end conditions, in the order of _check_end_conditions().            *)

\* Nothing is queued and neither the agency nor the animator has anything
\* scheduled: timers, recurring ones too, and conditions all count.
OutOfWork == queue = {} /\ scheduled = {} /\ timers = {} /\ triggers = 0

EndConditions == <<
  [reason |-> "manual_stop",             holds |-> status = "stopped"],
  [reason |-> "max_events_reached",      holds |-> total >= MaxTotalEvents],
  [reason |-> "max_time_reached",        holds |-> now >= MaxTime],
  [reason |-> "mission_completed",       holds |-> "mission" \in signals],
  [reason |-> "queue_empty",             holds |-> OutOfWork],
  [reason |-> "all_agents_disconnected", holds |-> agents = "gone" /\ queue = {}],
  [reason |-> "loop_breaker",
      holds |-> ~internalOnly /\ solo >= LoopBreakerThreshold],
  [reason |-> "deliverable_produced",
      holds |-> internalOnly /\ "deliverable" \in signals],
  [reason |-> "idle_stop",               holds |-> internalOnly /\ idle >= IdleStopTicks],
  [reason |-> "tick_limit",              holds |-> internalOnly /\ tick >= MaxTicks] >>

Holding == {i \in DOMAIN EndConditions : EndConditions[i].holds}

\* The conditions that nothing but their own action can bring about or undo.
Ending == \/ status = "stopped"
          \/ total >= MaxTotalEvents \/ now >= MaxTime
          \/ signals # {} /\ ("mission" \in signals \/ internalOnly)
          \/ internalOnly /\ (idle >= IdleStopTicks \/ tick >= MaxTicks)

-----------------------------------------------------------------------------
(* The loop.                                                               *)

Run ==
  /\ pc = "idle"
  /\ pc' = "top"
  /\ status' = "running"
  /\ reason' = "none"
  /\ UNCHANGED <<world, queue, stamp, current, clock, counts, acted, animator,
                 scheduled, outside, committed, late>>

Top ==
  /\ pc = "top"
  /\ \/ status # "running" /\ pc' = "done"
     \/ status = "running" /\ pc' = "budget"
  /\ UNCHANGED <<world, status, reason, queue, stamp, current, clock, counts, acted,
                 animator, scheduled, outside, committed, late>>

Completed(r) ==
  /\ status' = "completed"
  /\ reason' = r
  /\ pc' = "done"

\* Mutant: a mixed simulation looks at its end conditions only when idle.
ChecksIdle ==
  /\ pc = "budget"
  /\ \/ /\ Holding # {} /\ (internalOnly \/ queue = {})
        /\ Completed(EndConditions[Min(Holding)].reason)
     \/ /\ Holding = {} \/ (~internalOnly /\ queue # {})
        /\ pc' = "alarms"
        /\ UNCHANGED <<status, reason>>
  /\ UNCHANGED <<world, queue, stamp, current, clock, counts, acted, animator,
                 scheduled, outside, committed, late>>

Check ==
  /\ pc = "budget"
  /\ \/ Completed("all_budgets_exhausted")
     \/ Holding # {} /\ Completed(EndConditions[Min(Holding)].reason)
     \/ Holding = {} /\ pc' = "alarms" /\ UNCHANGED <<status, reason>>
  /\ UNCHANGED <<world, queue, stamp, current, clock, counts, acted, animator,
                 scheduled, outside, committed, late>>

\* The scheduler gives out the timers that are due at t, each once however
\* late it is, and the conditions that hold, n of them.
Ringing(t) == {x \in timers : x.at <= t}
Rung(t) == (timers \ Ringing(t)) \union
           {[x EXCEPT !.at = @ + x.every] : x \in {y \in Ringing(t) : y.every > 0}}

Rings(t, n) ==
  /\ timers' = Rung(t)
  /\ triggers' = triggers - n

\* On every turn the animator submits what is due (while there is a name for
\* it: the number of Reports bounds those that wait).
Alarms ==
  /\ pc = "alarms"
  /\ pc' = "animate"
  /\ \/ static /\ UNCHANGED <<queue, stamp, timers, triggers>>
     \/ /\ ~static
        /\ \E n \in 0..triggers, E \in SUBSET Free(Reports) :
             /\ Rings(now, n)
             /\ Cardinality(E) = Min({Cardinality(Ringing(now)) + n,
                                      Cardinality(Free(Reports))})
             /\ Submitted(E)
  /\ UNCHANGED <<world, status, reason, current, clock, counts, acted, animated, scheduled,
                 outside, committed, late>>

\* The time of a tick of the animator is the wall clock's while the queue is at 0.
Cutoffs == IF now = 0 THEN {0} \union {x.at : x \in timers} ELSE {now}

\* What is due and up to MaxInvented organic events go through the pipeline at
\* once; actors react to the c of them that are committed.
Ticks ==
  \E t \in Cutoffs, n \in 0..triggers :
  \E c \in 0..(Cardinality(Ringing(t)) + n + MaxInvented),
     R \in SUBSET Free(Reactions), P \in SUBSET Plans :
       /\ Rings(t, n)
       /\ c = 0 => R = {} /\ P = {}
       /\ inline' = Bounded(inline + c + Cardinality(R))
       /\ Submitted(R)
       /\ scheduled' = scheduled \union P

\* At most once in AnimatorInterval ticks the animator has its own tick.
Animate ==
  /\ pc = "animate"
  /\ pc' = "agency"
  /\ animated' = IF now >= animated + AnimatorInterval THEN now ELSE animated
  /\ \/ now >= animated + AnimatorInterval /\ ~static /\ Ticks
     \/ /\ now < animated + AnimatorInterval \/ static
        /\ UNCHANGED <<queue, stamp, timers, triggers, scheduled, inline>>
  /\ UNCHANGED <<world, status, reason, current, clock, counts, acted, outside, own, late>>

Due == {s \in scheduled : s.at <= now}
DueActs == {s.act : s \in Due}

\* In an internal simulation n events take n ticks, and the window of the
\* runaway protection slides forward.
Advanced(n) ==
  IF internalOnly /\ n > 0
  THEN tick' = tick + n /\ now' = tick' /\ acted' = [s \in DOMAIN acted |-> 0]
  ELSE UNCHANGED <<clock, acted>>

\* Mutant: an action that is due stays scheduled.
KeepsDue ==
  /\ pc = "agency"
  /\ pc' = "pop"
  /\ "deliver" \notin DueActs
  /\ UNCHANGED <<world, status, reason, queue, stamp, current, clock, counts, acted,
                 animator, scheduled, outside, committed, late>>

\* The agency takes out what is due: work activates its actor, a deliverable
\* is produced at once, anything else becomes an envelope (while there is a
\* name for it: the number of Errands bounds those that wait).
Agency ==
  /\ pc = "agency"
  /\ pc' = "pop"
  /\ \E R \in SUBSET Free(Reactions), S \in SUBSET Free(Errands), P \in SUBSET Plans :
       /\ "work" \notin DueActs => R = {} /\ P = {}
       /\ Cardinality(S) = Min({Cardinality({s \in Due : s.act = "other"}),
                                Cardinality(Free(Errands))})
       /\ Activated(R, R \union S)
       /\ scheduled' = (scheduled \ Due) \union P
  /\ LET n == Cardinality({s \in Due : s.act = "deliver"}) IN
       /\ total' = total + n
       /\ signals' = IF n > 0 THEN signals \union {"deliverable"} ELSE signals
       /\ Advanced(n)
  /\ UNCHANGED <<world, status, reason, current, solo, idle, animator, agents,
                 stopped, own, late>>

\* Mutant: the animator's timers are left out.
ForgetsTimers == {s.at : s \in scheduled}

\* The times the agency and the animator's timers are waiting for; nobody
\* knows when a condition will hold.
Upcoming == {s.at : s \in scheduled} \union {x.at : x \in timers}
NextScheduled == Min(Upcoming)

\* Nothing is queued: time jumps to what is scheduled next or the loop naps.
PopNothing ==
  /\ pc = "pop"
  /\ queue = {}
  /\ pc' = "top"
  /\ IF internalOnly /\ Upcoming # {} /\ NextScheduled > now
     THEN /\ tick' = NextScheduled
          /\ now' = NextScheduled
          /\ acted' = [s \in DOMAIN acted |-> 0]
     ELSE UNCHANGED <<clock, acted>>
  /\ UNCHANGED <<world, status, reason, queue, stamp, current, counts, animator,
                 scheduled, outside, committed, late>>

Limit(s) == IF s = "internal" THEN MaxActionsPerActor ELSE MaxReactions

\* Runaway protection counts an action whether it drops it or not.
Counted(e) == IF Source(e) \in DOMAIN acted
              THEN [acted EXCEPT ![Source(e)] = @ + 1]
              ELSE acted
Runaway(e) == Source(e) \in DOMAIN acted /\ Counted(e)[Source(e)] > Limit(Source(e))

Pop(e) ==
  /\ pc = "pop"
  /\ e \in Heads
  /\ queue' = queue \ {e}
  /\ \/ /\ Runaway(e)
        /\ acted' = [Counted(e) EXCEPT ![Source(e)] = Limit(Source(e)) + 1]
        /\ pc' = "top"
        /\ UNCHANGED <<current, clock, total, signals>>
     \/ /\ ~Runaway(e)
        /\ e \in Deliverables
        /\ pc' = "top"
        /\ total' = total + 1
        /\ signals' = signals \union {"deliverable"}
        /\ UNCHANGED current
        /\ IF internalOnly THEN Advanced(1) ELSE acted' = Counted(e) /\ UNCHANGED clock
     \/ /\ ~Runaway(e)
        /\ e \notin Deliverables
        /\ pc' = "execute"
        /\ current' = {e}
        /\ acted' = Counted(e)
        /\ UNCHANGED <<clock, total, signals>>
  /\ UNCHANGED <<world, status, reason, stamp, solo, idle, animator, scheduled,
                 agents, stopped, committed, late>>

\* Mutant: a blocked envelope gives way to the next one at once.
ExecutesOn ==
  /\ pc = "execute"
  /\ late' = IF Ending THEN late + 1 ELSE late
  /\ pc' = "pop"
  /\ current' = {}
  /\ UNCHANGED <<world, status, reason, queue, stamp, clock, counts, acted, animator,
                 scheduled, outside, committed>>

\* The pipeline commits the action or blocks it.
Execute ==
  /\ pc = "execute"
  /\ late' = IF Ending THEN late + 1 ELSE late
  /\ \/ /\ pc' = "notify"
        /\ total' = total + 1
        /\ solo' = IF current \subseteq Visits THEN 0 ELSE solo + 1
        /\ own' = own + 1
        /\ UNCHANGED current
     \/ /\ pc' = "top"
        /\ current' = {}
        /\ UNCHANGED <<total, solo, own>>
  /\ UNCHANGED <<world, status, reason, queue, stamp, clock, idle, acted, animator,
                 scheduled, outside, inline>>

\* The agency activates actors; not more than MaxEnvelopesPerEvent of their
\* envelopes are submitted.
Notify ==
  /\ pc = "notify"
  /\ pc' = "react"
  /\ \E R \in SUBSET Free(Reactions) :
       /\ \E S \in SUBSET R :
            /\ Cardinality(S) = Min({Cardinality(R), MaxEnvelopesPerEvent})
            /\ Activated(R, S)
       /\ \E P \in SUBSET Plans :
            /\ scheduled' = scheduled \union P
  /\ UNCHANGED <<world, status, reason, current, clock, counts, acted, animator,
                 outside, own, late>>

\* An actor whose patience is over schedules an escalation one second later.
Escalated == \/ UNCHANGED scheduled
             \/ /\ \A s \in scheduled : s.act # "other"
                /\ scheduled' = scheduled \union {[at |-> Max({now, 1}), act |-> "other"]}

\* The states of the actors are updated, the event is recorded, an internal
\* simulation advances by a tick and the cohort may rotate.
React ==
  /\ pc = "react"
  /\ pc' = "top"
  /\ Escalated
  /\ IF internalOnly THEN idle' \in {0, idle + 1} ELSE UNCHANGED idle
  /\ Advanced(1)
  /\ current' = {}
  /\ UNCHANGED <<world, status, reason, queue, stamp, total, solo, animator, outside,
                 committed, late>>

Loop == \/ Run \/ Top \/ Check \/ Alarms \/ Animate \/ Agency
        \/ PopNothing \/ \E e \in Envelopes : Pop(e)
        \/ Execute \/ Notify \/ React

-----------------------------------------------------------------------------
(* What happens around it, between any two steps.                          *)

\* Mutant: stop() does not end the loop.
StopsLater ==
  /\ pc # "done" /\ ~stopped
  /\ stopped' = (pc # "idle")
  /\ UNCHANGED <<world, status, reason, pc, queue, stamp, current, clock, counts,
                 acted, animator, scheduled, signals, agents, committed, late>>

Stop ==
  /\ pc # "done" /\ ~stopped
  /\ stopped' = (pc # "idle")
  /\ status' = "stopped"
  /\ reason' = "manual_stop"
  /\ UNCHANGED <<world, pc, queue, stamp, current, clock, counts, acted, animator,
                 scheduled, signals, agents, committed, late>>

Signal ==
  /\ pc # "done"
  /\ \E s \in {"mission", "deliverable"} \ signals : signals' = signals \union {s}
  /\ UNCHANGED <<world, status, reason, pc, queue, stamp, current, clock, counts,
                 acted, animator, scheduled, agents, stopped, committed, late>>

\* External agents come, act and go.
Visit ==
  /\ pc # "done"
  /\ ~internalOnly
  /\ \/ /\ agents = "never" /\ agents' = "connected"
        /\ UNCHANGED <<queue, stamp>>
     \/ /\ agents = "connected" /\ agents' = "gone"
        /\ UNCHANGED <<queue, stamp>>
     \/ /\ agents = "connected"
        /\ \E e \in Free(Visits) : Submitted({e})
        /\ UNCHANGED agents
  /\ UNCHANGED <<world, status, reason, pc, current, clock, counts, acted, animator,
                 scheduled, signals, stopped, committed, late>>

Finished == pc = "done" /\ UNCHANGED vars

Init ==
  /\ status = "idle" /\ reason = "none" /\ pc = "idle"
  /\ queue = Kickstart
  /\ stamp = [e \in Envelopes |-> 0]
  /\ current = {}
  /\ now = 0 /\ tick = InitialTick
  /\ total = 0 /\ solo = 0 /\ idle = 0
  /\ acted = [s \in {"internal", "environment"} |-> 0]
  /\ animated = 0 - AnimatorInterval
  /\ \E u \in Setups :
       /\ scheduled = u.agenda
       /\ internalOnly = u.internalOnly /\ static = u.static
       /\ timers = u.timers /\ triggers = u.triggers
  /\ signals = {} /\ agents = "never" /\ stopped = FALSE
  /\ own = 0 /\ inline = 0 /\ late = 0

Next == Loop \/ Stop \/ Signal \/ Visit \/ Finished

Spec == Init /\ [][Next]_vars

\* The pipeline and the agency answer, so the loop goes on.
FairSpec == Spec /\ WF_vars(Loop)

-----------------------------------------------------------------------------
(* Properties.                                                             *)

Reasons == {"none", "all_budgets_exhausted"} \union
           {EndConditions[i].reason : i \in DOMAIN EndConditions}

\* The types, and: the runner says why it stopped exactly when it has stopped,
\* and one envelope is in hand exactly while it is executed.
TypeOK ==
  /\ {internalOnly, static, stopped} \subseteq BOOLEAN
  /\ status \in {"idle", "running", "stopped", "completed"}
  /\ reason \in Reasons
  /\ (reason = "none") <=> (status \in {"idle", "running"})
  /\ pc \in {"idle", "top", "budget", "alarms", "animate", "agency", "pop", "execute", "notify",
              "react", "done"}
  /\ queue \subseteq Envelopes
  /\ IF pc \in {"execute", "notify", "react"}
     THEN \E e \in Envelopes \ queue : current = {e}
     ELSE current = {}
  /\ stamp \in [Envelopes -> Nat]
  /\ {now, tick, total, solo, idle, triggers, own, inline, late} \subseteq Nat
  /\ acted \in [{"internal", "environment"} -> Nat]
  /\ animated \in Int
  /\ IsFiniteSet(timers) /\ timers \subseteq [at : Nat, every : Nat]
  /\ \A s \in scheduled : s.at \in Nat /\ s.act \in Acts
  /\ signals \subseteq {"mission", "deliverable"}
  /\ agents \in {"never", "connected", "gone"}

\* The loop looks at the end conditions between any two envelopes: once one
\* holds for good, at most the envelope of the current turn is executed.
OneMoreAtMost == late <= 1

\* What is executed is never younger than anything that waits or arrives
\* meanwhile: the actors see the world in the order of logical time.
Chronological == \A e \in current, f \in queue : stamp[e] <= stamp[f]

\* When the loop chooses an envelope, no scheduled action is overdue and no
\* single timer of an animator that fires, however time got here: by events, by
\* deliverables or by a jump.  (A recurring timer may be several rings behind.)
NothingOverdue ==
  pc = "pop" /\ "deliverable" \notin signals =>
    /\ \A s \in scheduled : s.at > now
    /\ ~static => \A x \in timers : x.every = 0 => x.at > now

\* A manual stop is the reason the run reports, unless it comes while the
\* budgets are being looked at and found exhausted.
StopWins ==
  pc = "done" /\ stopped => reason \in {"manual_stop", "all_budgets_exhausted"}

\* Internal actors and the environment go on alone for no more than
\* LoopBreakerThreshold events, unless the simulation has only internal ones.
LoopIsBroken == internalOnly \/ solo <= LoopBreakerThreshold

\* "Hard cap on committed events" (docs/configuration.md): no more than
\* MaxTotalEvents actions are committed.
WithinCap == own + inline <= MaxTotalEvents

\* A simulation of internal actors ends once no condition is waited for that
\* may never hold, unless timers wait for an animator that never fires; any
\* simulation ends once stop() is called.
MustEnd == \/ internalOnly /\ pc = "top" /\ triggers = 0 /\ (static => timers = {})
           \/ stopped
RunEnds == MustEnd ~> pc = "done"
=============================================================================
