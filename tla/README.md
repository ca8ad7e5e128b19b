# Volnix: TLA+ models, checks and proofs

Volnix runs simulated worlds for AI agents. An agent's action goes through a
pipeline of seven steps (permission, policy, budget, capability, responder,
validation, commit); engines talk to each other over an event bus; a ledger
keeps the audit trail. Everything is one Python process on one asyncio event
loop: what interleaves is what runs between two `await`s, and a database
connection is a thread that runs one statement at a time.

This directory models the parts of that program that carry state across an
`await`. Paths below are relative to `volnix/` in the repository.

## Inventory

| part | state | operations | what is hard | what makes it correct |
|---|---|---|---|---|
| SQLite connection (`persistence/sqlite.py`) | one connection, one transaction counter | `execute`, `fetch*`, `transaction`, `close` | tasks share the counter; BEGIN outside the `try`; cancellation is not an `Exception` | the counter covers the tasks inside; one owner; a clean exit is durable, a failed body leaves nothing |
| State engine, commit step (`engines/state/`) | entities, event log, causal edges | `execute`, `populate_entities`, `commit_event`, `snapshot`, `reconfigure` | read-modify-write across awaits; ledger after commit; connection replaced between runs | an action's deltas and event take effect together or not at all |
| Event bus (`bus/`) | subscriptions, bounded queues, log, counters | `subscribe`, `unsubscribe`, `publish`, `shutdown`, consumers | overflow, hanging callbacks, crash between log and delivery | a queue is a sliding window over one order; the log is never behind |
| Budget engine (`engines/budget/`) | remaining amounts per actor and dimension, warned thresholds | `execute`, `deduct`, `deduct_llm_spend`, `refill`, `reset` | check before and deduction after the responder; clamping at zero | overspend is bounded by what was in flight; each threshold is announced once |
| Policy engine and holds (`engines/policy/`, `app.resolve_hold`) | policies, `holds` table | `execute`, `store`, `resolve`, `expire_stale` | two approvers; expiry between read and update; hold announced before it is stored | a held action runs at most once, and never if rejected or expired |
| Pipeline (`pipeline/`) | per-action context, side-effect queue | `DAG.execute`, `enqueue`, `process_all` | short circuits, errors, recursion of side effects | steps run in order, nothing after a terminal verdict |
| Sessions (`sessions/`) | session rows, slot pins | `start`, `pause`, `resume`, `end`, `checkpoint`, `pin_slot` | check, await, write; ledger entry then store write with compensation | a session ends once, an ended one is never resurrected, ledger and store agree |
| Slots (`actors/slot_manager.py`, `slot_binding.py`) | slots, assignments, tokens | `register`, `restore_assignment`, `auto_assign`, `release` | two agents, one slot | one agent per slot, one live token per agent |
| Cohorts (`actors/cohort_manager.py`) | active and dormant sets, queues, activity | `register`, `enqueue`, `drain_queue`, `try_promote`, `rotate` | eviction of an NPC in its activation, a batch larger than the dormant set, full queues | the active set keeps its size, reactions keep their order, everybody gets a turn |
| Game (`engines/game/`) | handlers, event counter, players out, timers, `_terminated`, result future, the gate | `_handle_game_event`, `_handle_timeout`, `_handle_budget_exhausted`, `_terminate_natural`, `_on_stop` | handlers of different topics interleave; timeout racing an accept; a move past the gate when the game ends | it ends, is announced once and answered once; at most one move is committed after the end |
| Simulation runner (`simulation/`) | event queue, tick, status | `run`, `stop`, `_check_end_conditions` | stop racing the loop; runaway and idle limits | it stops, for one reason |
| World scheduler (`scheduling/`) | due times | `register_*`, `get_due_events`, `cancel` | awaits in a loop over the schedule | an event fires once |
| Animator (`engines/animator/`) | tick lock, scheduled events | `tick`, `notify_event` | cancelled while it commits; two ticks | one tick at a time |
| Agency (`engines/agency/`) | activations, per-actor locks, pipeline lock | `notify`, tool loop, cohort gate | parallel agents, one pipeline | one activation per actor |
| Memory (`engines/memory/`) | records, eviction on cohort rotation | `remember`, `evict`, `hydrate` | rotation events out of order | what an actor knew is found again when it is promoted |
| Runs (`runs/`, `app.create_run`, `app.end_run`) | run table, metadata files, current run and world, the connection | `create_run`, `end_run`, `_idle_watcher`, `handle_action`, reload | end during start; database swapped under actions; a file written by two threads; crash while saving | actions write in their own run; an end is durable; an idle run ends |
| Webhooks (`webhook/`) | registrations, semaphore | `_on_event`, `send` | retries, timeouts, reordering | bounded concurrency, bounded attempts |
| Validation (`validation/`) | none | `execute`, `StateMachineValidator` | validates against a state that may change before the commit | every committed transition is allowed |
| Ledger (`ledger/`) | append-only rows | `append`, `query` | a failing append after a commit | it is never ahead of the world |
| Actions' authority (`engines/permission/`) | visibility tables | `execute` | none: it reads | denies what no rule allows |
| Responder, packs, LLM, world compiler, reporter, feedback, adapters, kernel, reality, templates, CLI, SDK, dashboard | mostly none | data transformation, network calls, text | out of reach of a state model, or nothing concurrent | - |

The parts interact as follows: the gateway, the agency and the animator call
`VolnixApp.handle_action`; that runs the pipeline, whose policy step may hold
the action, whose budget step charges the actor and whose last step commits
through the state engine; the pipeline publishes the events of each step on the
bus; the game, the agency, the animator and the webhooks subscribe to the bus
and may act in turn. All engines of a run share the state database connection.

## The commit step

`StateCommit` models `StateEngine.execute` (`engines/state/engine.py:179`) with
the `EntityStore` calls it makes, on `SQLiteDatabase` (`persistence/sqlite.py`).

- An `await` on the connection is a statement put in `queue`; `Serve*` is the
  connection's thread running the head of the queue, `reply` what the task
  picks up later. `working` is the database the connection sees, `committed`
  what a new connection would find; `inTxn` says whether SQLite has a
  transaction open.
- `depth` is `_transaction_depth`. `Start` reads and increments it, as
  `transaction()` does before its first `await`, and fixes whether the task is
  `outer` or `nested`.
- `ReadDone`, `WriteDone`, `Appended` are the body; `Raise` is what an exception
  does (outer: roll back, nested: count down); `BeginFailed` is the failure of
  `BEGIN`, which is awaited outside of the `try`.
- After the transaction the ledger, another database, gets one entry per
  applied delta (`LedgerAppend`), then a proposed event is appended outside of
  any transaction (`ServePropose`, `Proposed`, `AutoCommitted`).
- Any statement but a `ROLLBACK` may be refused (`ServeRefused`, within
  `MayRefuse`: the file is locked, the disk is full). A refused INSERT, UPDATE
  or DELETE has opened a transaction all the same, a refused COMMIT leaves it
  open. `Refused` is the exception the task sees: inside the body, which ends
  with the COMMIT, it is raised there; after the transaction the caller is told
  of an error although the action is durable (`late`).
- `Cancel` is `task.cancel()`, which the application uses on the animator's
  tick (`app.py:2404`); `Restart` is a stop or a crash of the process.
- `lock` is the agency's `_pipeline_lock`. Actions that reach the pipeline from
  the gateway or the animator do not take it; `Locked` says which tasks do.

`AtomicCommit` is the promise: an action's deltas and its event take effect in
one step or not at all.

| run | what it shows |
|---|---|
| `commit_shared` | three tasks without a lock; one may be cancelled, any statement but a ROLLBACK may be refused, the ledger may fail, the process may restart. The counter covers the tasks inside, there is one owner, its transaction stays open to its own COMMIT, and what it was told is durable. A counter that is too high never comes down again and then nothing is stored. Under fairness every started task ends: a wedged connection does not block, it silently loses. |
| `commit_serial` | the same tasks under the lock and without cancellation. A statement inside the transaction may be refused, its COMMIT too, the ledger may fail, the process may restart: clean exits are durable, the ledger is not ahead, and the whole implements `AtomicCommit`, by which a failed task leaves nothing and no update is lost. |
| `commit_lost_update` | without the lock two updates of one entity, both in a transaction, lose one (finding). |

`commit_serial` keeps the refusals inside the transaction because two others
wedge the connection even under the lock. A refused BEGIN leaves the counter
up. A refused INSERT of a proposed event, or its refused autocommit, leaves a
transaction open with the counter at zero, so that the next BEGIN is refused
and leaves the counter up. From then on clean exits are not durable: this is
`WedgedStoresNothing`, which `commit_shared` checks with every refusal. Not
modelled: a ROLLBACK that raises, and SQLite rolling back by itself when the
disk is full.

`CleanExitIsDurable` fails without the lock too: a nested task is told of
success and rolled back with the outermost one; and with the lock once a task
is cancelled inside, which wedges the connection. Both are consequences of what
`commit_shared` shows of the counter; the runs kept are those that say what
holds.

Bounds: three tasks with one or two deltas on two entities, one of which may
not exist, so that creation, update and deletion each find and do not find
their row; one restart without the lock, two under it. Two tasks suffice for an outermost and a nested one;
the third comes after the other two have met.

Fairness (`FairSpec`): the connection's thread and a task whose reply has come
go on. Nothing obliges an action to arrive, a cancellation or a restart.

### Proofs (`StateCommit_proofs`)

For all tasks, entities and deltas, and under the assumptions of `StateCommit`
only: `TypeCorrect`, `CounterCovers`, `SingleOwner`, `OwnerTxnStaysOpen`,
`OuterCommitsAreDurable`, `WedgedForever`. They rest on one inductive invariant
with three parts:

- `TypeInv`: the type of every variable, sharper than `TypeOK` where a step
  needs it;
- `CountInv`: the counter is at least the number of tasks in `transaction()`,
  and what that number does when one task moves;
- `OwnerInv`: at most one owner, what the queue may hold while it is inside
  (its own statement at most once, no foreign COMMIT or ROLLBACK), and
  what `inTxn`, `working` and `committed` are at each of its steps.

`OneOwner` alone is not inductive: a second task could enter at zero while an
owner is inside, which only `CountInv` excludes. `OwnerTxnOpen` needs to know
that no `autocommit` of an earlier task is still queued when the counter
becomes positive again, or that it runs before the owner's BEGIN does.

### Proofs under the lock (`SerialCommit_proofs`)

What the documentation says of transactions holds under `OneAtATime`: every
action takes the pipeline lock, none is cancelled, and what the database
refuses is a statement of a transaction that has begun, its COMMIT included.
The constants of `commit_serial` satisfy it; refused statements of the body,
refused deltas, a failing ledger and restarts stay. For all tasks, entities and deltas then:
`CleanExitIsDurable`, `LedgerFollowsStore`, `ImplementsAtomicCommit`, and
`NoLostUpdate`, which `commit_lost_update` refutes without the lock.

- `SerialControl`: only the holder of the lock runs, it is always the outermost
  task, the counter is exactly the number of tasks inside, and between two
  transactions the connection sees the durable database. The first two
  properties follow from it and `OwnerInv`.
- `SerialInv`: how far the running task has come. In its body the connection
  sees the durable rows with the first n deltas applied, each accepted where it
  was checked (`RowsFollow`); the row it has read is still the row it will write
  (`SeenRow`, what fails without the lock); the log has its event and no more
  (`LogFollows`), once (`EventNew`); only a proposing action appends later
  (`ProposalFollows`).
- The refinement maps a COMMIT that is served to `Commit`, a call that ends in
  an error before its event is durable to `Fail`, the served autocommit of a
  proposed event to `Propose` and every other step to a stutter. The rows
  after n deltas are a recursive function in `AtomicCommit`; that it exists is
  proved by a least counterexample, as no induction rule can be used here.
- `NoLostUpdate` follows from the refinement, since a commit only adds to a row
  that is updated and never created or deleted.

### What is proved of `StartedTasksEnd`

Liveness is out of the prover's reach, but its two safety halves are not, and
they are where the code could go wrong. `NobodyWaitsInVain`: a running task has
its statement in the queue, or the reply, or the ledger entry, that lets it go
on; whoever is cancelled, refused or restarted meanwhile does not cost it that.
`StepsRunOut`: each step of a task lowers a number that starts at three per
delta and five more, and nobody else's step raises it. What TLC adds is the
fairness: the connection serves its queue, and a task with a reply is scheduled.

## The event bus

`EventBus` models `EventBus`, `TopicFanout` and `BusPersistence` (`bus/`).

- `Publish`, `Insert`, `Commit` or `PersistFails`, `Fanout` are the stretches of
  `publish()` between its awaits; `pc[e]` is where the publisher of `e` is.
  `log` is the event log as the connection sees it, `durable` how many of its
  rows are committed. `Fanout` puts the event in all matching queues in one
  step: `fanout()` does not await.
- `Take`, `CallbackEnds`, `ConsumerEnds` are the consumer task. A callback may
  return or raise; a subscriber in `Hanging` may never return.
- `Unsubscribe` forgets the subscription and requests the cancellation of its
  consumer; `Shutdown`, `ShutdownCancels`, `ShutdownEnds` are `shutdown()`,
  which cancels and awaits the consumers it found one by one.
- `Crash` is the loss of the process: what is not committed is gone.

`offered`, `got` and `handed` are history variables. `SlidingWindow` is the
promise of a bounded subscription: one order for all subscribers, each takes in
that order, misses an event only if more than `Capacity` newer ones came, and
never takes one twice.

The run `bus` has a topic subscriber and a wildcard subscriber, a queue of one
for each, two events with a publisher each. One subscriber may hang, the log
may fail at either statement, subscriptions end, the bus shuts down and the
process crashes once, at any moment.

| property | what it says |
|---|---|
| `ImplementsWindow` | each queue is the window over what was offered: what is lost is the oldest, and nothing is taken twice or out of order |
| `DropsAreCounted` | every event that was offered and not taken is in the queue or was counted as dropped |
| `LogNeverBehind` | whatever a callback was handed is durable, once, also after a crash, unless writing the log failed |
| `QueuedIsTaken` | a hanging callback keeps no event from the other subscriber |
| `ShutdownCompletes` | shutdown ends, with each consumer it found ended |

`ShutdownCompletes` says nothing of a subscription made while `shutdown()` awaits:
in the code as in the model it is not on the list, and its consumer lives on.

The docstring of `publish()` says "Persist BEFORE fanout so the log is never
behind"; the code catches the failure of `persist()` and delivers all the same,
so `LogNeverBehind` excepts those events (`pc[e] = "unlogged"`).

`EventBus_proofs` proves, for any events, subscribers and capacities: the type,
with the bound on every queue; `LogNeverBehind`, from the place of each publisher
(what is past `Commit` is in the durable part of the log, and stays there through
crashes); and `ImplementsWindow`, for which the invariant says that each queue is
a suffix of what was offered to its subscriber. `DropsAreCounted`
equates sums over all subscribers: per subscriber the difference is what its
queue holds, and a sum over a growing set of subscribers is followed from the
empty set to the whole (`SumCounts`); where an induction on the size of the set
would stand, the proof takes a least counterexample (`LeastNatural`). What is
left to TLC is liveness, `QueuedIsTaken` and `ShutdownCompletes`. Of the latter
two halves are proved: `BusShutdownGoesOn`, at each point of a shutdown one of
its own steps or the end of a cancelled consumer is possible, whatever hangs, and
`BusShutdownKeeps`, nothing but a crash takes such a step back.

Bounds: one event more than a queue holds is the smallest overflow; two
publishers are enough for an INSERT between another's INSERT and COMMIT.
Fairness: the event loop runs what is ready, the log's connection answers,
cancellation reaches a task; a callback outside of `Hanging` returns. The
published, delivered and error counters are left out; a callback that raises is
like one that returns.
## Holds

A policy may hold an action. `Holds` follows a held action from the pipeline to
its end: `Announce` (the policy engine publishes the hold with its id), `Store`
and `StoreCommit` (`handle_action()` writes the row after the pipeline has
returned), then `Request` (somebody calls `resolve_hold()`), which goes through
`Get` (SELECT of the pending row), `Update` (UPDATE guarded by `status =
'pending'`), `UpdateCommit` and `Execute` (the approved action runs through the
pipeline again with `hold_approved`). The expiry loop is `Sweep`: `SweepSelect`
collects the ids of overdue rows, `SweepUpdate` marks each expired, `SweepCommit`
commits. Between any two of these steps, each an await of the database, every
other one may happen; a hold's deadline passes at any moment (`Overdue`).

`SQLiteDatabase.execute()` awaits the statement and then the commit
(sqlite.py:61-63), on one connection for all tasks. So the model keeps two
states of every row: `status` is what reads on the connection see, uncommitted
writes included, `durable` what is in the file; a commit of any task commits what
all of them have written, and `Crash` goes back to `durable`. Every statement
and every commit may raise (`DbFails`, at most `MaxFailures` times). What was not
committed then stays on the connection (a busy database) or SQLite has rolled
it back (a full disk, an I/O error), the rows of other tasks included; the model
has both. An exception in the loop ends it, for it has no handler
(`SweepFails`); one in a request's SELECT or UPDATE ends the request; one in its
commit leaves it "unsure".

| Run | Shows |
| --- | --- |
| `holds` | one hold, three requests, the loop, two failures and a restart in any order: `DecisionStands` (what the file says was decided is never replaced by another decision; an expiry can replace one), `SerialHoldsAreSafe` (a hold whose requests and sweeps do not overlap is executed at most once, and only when the file says approved), `HoldsAreClosed`, `ApprovedIsExecuted` |
| `holds_double` | finding: two approvals that both read the row while it is pending execute the action twice |

What the exceptions in these properties say about the code:

- An approval whose COMMIT raises is executed by nobody. `resolve()` raises after
  its UPDATE, the row reads approved, and a second `resolve_hold()` is refused
  because it is no longer pending; the next commit of any task makes the
  approval durable. The same holds of a crash between the commit and the
  execution. `ApprovedIsExecuted` excepts exactly these two.
- `HoldsAreClosed` excepts a dead loop.
- `raced` is a history variable: the holds on which two requests, or a request
  and a sweep, were under way at once, or whose uncommitted row a failure of
  another task took back from under one. Without that exception
  `SerialHoldsAreSafe` fails in a second way: an approval that read the row
  before a rejection or an expiry executes a refused action.
- `DecisionStands` speaks of the file: a decision on the connection that was never
  committed may be undone, by a restart or a rollback, and taken again the
  other way.

`Holds_proofs` proves the type, `DecisionStands` and `SerialHoldsAreSafe` for any
holds, requests, failures and restarts. `DecisionStands` needs that a row is
stored before anything is decided about it (`RowsAreStored`) and that only an
expiry is ever written over a decision that is in the file (`DecidedOrExpired`);
for `SerialHoldsAreSafe` the invariant `Serial` says of each hold that is not
raced that one request at most is past its SELECT, that the row is still pending
until that request's UPDATE and still says what it wrote until its commit, and
that it was executed only when row and file say approved and nobody is about to
do it again. `HoldsApprovedIsPursued` is what `ApprovedIsExecuted` rests on: as
long as the process lives, a hold that reads approved was executed or refused by
the pipeline, or the request that approved it is about to commit or to execute
it, or its commit has raised.

One hold is enough for the runs because tasks of different holds meet only in
the shared connection, and the holder, three requests and the loop meet there
too; the proofs cover any number. Fairness: the awaited database calls return
and the loop's sleep runs out, so each step that has begun is taken; nothing is
assumed of the people who decide.

## Cohorts

`Cohort` is the manager that decides which NPCs may react and the gate the agency
puts in front of every activation. `Notify` is an event: its targets, those of
tier 3 and then those of tier 2 (`SecondWave`), pass the gate and run. `Gate` is
one target's way through it: active NPCs go on to their activation, for a
dormant one the event's policy says to record it only, to defer it into the
NPC's queue (`Enqueue`, the oldest goes when it is full) or to promote the NPC in
the place of the least recently activated one (`GatePromote`), which falls back
to deferring once the window's budget is used up. The gate runs without an
`await` up to the activation, so it is one step, but the activations of a wave
overlap with the gates of the others. `Finish` records the activation for the
LRU order, or not, when it ended before its LLM loop. `Rotate` is
`rotate_cohort()`: it swaps a batch of dormant NPCs, chosen by the policy, for
the least recently activated and replays the queues of those that come in. It is
one step: the runner awaits it between two turns of its loop, and nothing else
activates NPCs then.

Abstracted: an event is the tick it came at, a queue entry the same; which NPCs
an event concerns and in which tier is any choice of at most `MaxTargets`
(`max_activations_per_event`); what an activation does is not modelled, except
that it may fail early. The order of equals under the recency policy, a seeded
generator in the code, is any order.

| Run | Shows |
| --- | --- |
| `cohort` | `CohortIsFull`, `InFlightBound` (more NPCs than `max_active` can be in an activation at once, since the victim of a promotion may be in one, but only as many more as the window's budget), `ReactsInOrder`, `RoundRobinReachesAll` |
| `cohort_backlog` | finding: an NPC promoted for an event keeps what was deferred for it |

The finding, in the code's terms: `try_promote()` activates the NPC for the event
at hand and only `rotate_cohort()` drains queues, of the NPCs it promotes. The
events deferred before stay in the queue while the NPC is active, however long
that is, and are replayed, if ever, after later ones. `ReactsInOrder` therefore
speaks of configurations without preemptive promotions (`promote_budget_per_tick`
0), and the order within a queue holds for all.

`RoundRobinReachesAll` is about the round-robin policy only, and about
simulations in which rotations recur (`[]<><<Rotate>>_vars` is its hypothesis,
not an assumption of the fairness): the code does not see to that. The runner
rotates after a committed event, and only when its tick is a multiple of
`rotation_interval_ticks` and not 0 (runner.py:509, 623-661). In a simulation with
external actors the tick does not advance with commits (runner.py:497), and a
jump to a scheduled time may skip the multiples, so a simulation may never
rotate, and the dormant stay dormant. Under the other two policies an NPC can stay dormant for good, under event pressure because others have queues
as deep and were registered earlier.

Bounds: three NPCs, cohorts of one and two, queues of two and three events, so a
queue overflows, a batch exceeds the dormant NPCs, a promotion meets an exhausted
budget and evicts an NPC in its activation. Fairness: `Gate`, `SecondWave` and
`Finish` are steps of one task whose awaits return (LLM calls have a timeout).
Nothing is assumed of events and rotations. After the last of `MaxEvents` events
rotations may go on, for the runner rotates after commits that concern no NPC
too; no run ends in a deadlock, as a rotation is always possible once an event
came.

Proved in `Cohort_proofs` for every `N` and every set of configurations that
`CohortConfig` accepts: `TypeOK`, from the invariant that gates and activations
belong to an event (`EventFirst`); `CohortIsFull` and `InFlightBound` together, by
the sizes of unions and differences, a promotion adding to the NPCs in flight one
that it charges to the window and a rotation finding none; and `ReactsInOrder`,
for which `OrderInv` adds that the waves of an event are disjoint, that an NPC
whose gate is to come has neither queued nor seen the event (`NotYet`) and that
without promotions active NPCs have empty queues (`ActiveCaughtUp`). That
last part is also `CohortBacklogIsPromoted`: without a budget for promotions the
property that `cohort_backlog` refutes holds.

`RoundRobinReachesAll` itself is only checked, but what it rests on is proved:
`CohortRoundRobinNears` says that each rotation activates a dormant NPC or lowers
its distance from the cursor, and that no other step changes that distance. The
distance is below `N`, so no NPC is passed over for more than `N` rotations; that
the size of the cohort is constant (`CohortIsFull`) is needed for a batch never to
be empty while somebody is dormant.

## The simulation loop

`SimulationRunner` is `run()` with the queue it takes envelopes from, the agency
it notifies, the animator's scheduler and what may happen around it. One turn of
the loop is `Top` (with a budget checker its answer comes in `Check`), `Check`
(the end conditions, in their order), `Alarms` (`check_scheduled_events`: what the animator's scheduler
has due, on every turn), `Animate` (`animator.tick`, at most once in
`AnimatorInterval` ticks: what is due and organic events go through the pipeline
at once, and actors react), `Agency` (what the actors have scheduled and is due),
then `PopNothing` or `Pop`, `Execute` (the pipeline commits or blocks), `Notify`
(the agency activates actors) and `React` (actor states, idle ticks, the clock). Each of them ends at an await, so `Stop`,
`Signal` and `Visit` (agents connect, submit, leave) come between any two.

The agency executes the tool calls of an activation through the pipeline at
once and returns the envelopes of those that were committed; `Activated` models
both. `own` counts what the loop has committed, `inline` what the agency and the
animator have, up to `MaxInline`.

The scheduler of the animator (`scheduling/scheduler.py`) keeps `timers`, of which
those with `every > 0` recur and are never taken away, and `triggers`, conditions
on the state of which any may hold at any time. All of them count as work that is
left (`OutOfWork`), only the timers have a time to jump to (`Upcoming`). An
animator whose behavior is `static` fires none of them, yet they count. While the
queue is at time 0 `tick()` is given the wall clock (`Cutoffs`). Only the runner's
own calls of `tick()` are modelled: the other callers (`app.py:2370`, `app.py:2445`)
serve worlds without a runner.

Data is abstracted: envelopes are a handful of reusable names of four kinds
(`Reactions`, `Errands`, `Reports`, `Visits`), the runaway window, a rolling
tick, is a count per source that time resets, the actors of a kind share it,
and one unit of time is a tick. `Setups` are the simulations `Init` chooses
from: the type (`internalOnly`), the first schedule and the animator.
`stop_on_empty_queue` is taken to be on, its default. No caller in `volnix/`
connects external agents or submits their envelopes, and none passes a budget
checker: `Visit` and the branch of `Check` that stops on exhausted budgets are
the interface the runner and its tests offer.

| Run | Shows |
| --- | --- |
| `runner` | `OneMoreAtMost` (once an end condition holds for good no more than the envelope in hand is executed), `Chronological`, `NothingOverdue`, `StopWins`, `LoopIsBroken`, `RunEnds` |
| `runner_cap` | finding: inline commits do not count towards `max_total_events` |

More came up while modelling that decides what the runs may assume:

- `RunEnds` is stated for internal simulations whose conditions have all come
  true and whose timers, if there are any, belong to an animator that fires. A
  condition that never holds, or a timer of a static animator, suppresses
  QUEUE_EMPTY for good, and a timer in the past also hides every later action
  from the jump: when nothing is committed such a run goes on napping.
- A timer of the blueprint is at a time of the wall clock (`next_fire` is now,
  `at_time` is relative to now), far beyond the queue's time. An internal run
  that has one therefore jumps there and ends by `max_logical_time` or
  `max_ticks`; the run has such a timer (`Again`) and one within reach (`Once`).
- `RunEnds` needs actors that schedule ahead of time (`Offsets` has no 0). An
  action scheduled for now is due in every turn; if each activation schedules the
  next and commits nothing that is counted, no end condition is ever reached.
- A `stop()` before the first step of `run()` is overwritten (`Run` does not
  look at the status); `stopped` records only those that come later.
- A runner that resumes at `initial_tick > 0` starts its queue at time 0, and
  the jump to the next scheduled action assigns the tick that belongs to that
  time. The run has `InitialTick = 0`.

`SimulationRunner_proofs` proves the safety properties, and the type, for any
limits, agendas and sets of envelopes. `Stopping`: once `stop()` was called the
status stays `stopped` until the loop ends, and the first end condition that
holds is then the manual stop. `Breaking`: the count of events is below the
threshold from the end conditions to the execution. `Ordered`: in an internal
simulation the queue's time is never ahead of the tick, so it never goes back, and
nothing in the queue is from the future. `Closing`: an end condition that held
when an envelope was executed still holds when the loop looks next, since only
idle ticks are ever reset and they are zero enough in the middle of a turn.
`NothingOverdue` is proved for `Offsets` without 0, for the reason above; its half
on timers (`AllRung`) holds from the alarms to the choice of an envelope, and a
recurring timer, which rings once a turn however late it is, is left out of it.
`RunnerHasNext` says that a queue which is not empty has a head in every mixture
of times and priorities. `RunnerCapsItsOwn` delimits the finding of `runner_cap`: while the loop
chooses what to execute (`CapInv`) its own commits are below the cap, so whatever
exceeds it was committed outside the loop, by tool calls of the agency or by events
of the animator.

Bounds: three ticks, a time of four, three events, limits of one or two, one
envelope of each kind, one organic event in a tick. They are small enough for
every end condition to be the reason of some run and to be passed by the allowed
overshoot. Of six simulations three have no animator that fires: the lead's agenda
(work at 1, deliver at 2) internal and mixed, where the deliverable races the event
limit, and a static animator with a timer. The others have both timers without an
agenda (which lets a run reach the tick and time limits), the agenda with a
condition, and in a mixed simulation the agenda with the recurring timer.
`MaxInline` is 0 in `runner`, where no property counts inline commits, and 1 in
`runner_cap`, where one beyond the loop's own is enough. Fairness:
`WF_vars(Loop)`: the loop is one task and its awaits return. Nothing is assumed
of stops, signals and visitors.

## A negotiation game

`Game` is one game from its kickstart to its result: the orchestrator with the
bus handlers it subscribes, the agency that runs the players, the pipeline their
moves go through and the deal the moves are about. `Init` is the state after
`_on_start`; `configure` has chosen the activation mode.

- **Handlers.** Each subscription has a queue and a consumer (see the event bus),
  so the four kinds of move and the timeouts are five handlers at work at the
  same time. `Hear`, `Scored`, `Ask`, `AskAgain`, then `Pass` and `Activate` are
  the pieces of `_handle_game_event` between two awaits; `HearTimeout`, `Ask`,
  `AskAgain`, `TimeOut`, `Settle` those of `_handle_timeout`; `Terminate`,
  `Announce` and `Deliver` those of `_terminate_natural` and
  `_publish_terminated`.
- **Players.** `Answer` and `NextCall` put the moves of an LLM's answer into the
  pipeline, which `AgencyEngine._pipeline_lock` gives to one move at a time
  (`lane`). A committed move ends the turn (`AfterCall`), `Finish` is the end of
  the task, and only then can the player be activated again (`Launch` skips a
  player that is pending).
- **Pipeline.** Of its seven steps the model has the three that know about the
  game: `Policy` (the game-active gate), `Charge` (world actions left) and
  `Commit` (the pack's handler and the state, `Negotiated`). A move a step
  refuses is published as an event all the same (`Blocked`), and the
  orchestrator counts, scores and answers it like a committed one.
- **Ends.** Win conditions are queried (`Ask`, `AskAgain` read the deal at
  different moments, and a query that raises has met nothing), timers `Fire`,
  and the engine may be stopped at any moment (`Stop`, `StopDone`). The handlers
  stay subscribed after a stop: `_on_stop` unsubscribes bound methods and the
  fan-out compares callbacks with `is`, which a new bound method never meets.

Every player of the model is driven by the agency, so that at most one move is
between the gate and its commit. A move submitted through the gateway does not
take `_pipeline_lock`; a game with such moves is outside the model, and then
`OneLateMove` would read: at most one late move per task that submits.

| Run | Shows |
| --- | --- |
| `game` | `GateFollowsGame` (who learns the result finds the gate closed), `OneLateMove` (at most the one move that was past the gate changes the deal afterwards), `ImplementsOutcome` (one announcement, one result, the same reason, whatever races), `GameEnds` (whatever the players do, somebody gets a result) |

`GameOutcome` is the abstract specification: announce at most once, deliver what
was announced unless the engine was stopped first. `ImplementsOutcome` is the
refinement, with its fairness: what is announced is delivered.

Bounds: two players with one and two world actions, answers of one move
(`propose`) or two (`accept`, then `reject`), two moves in all, a cap of two
events. Every end of a game is reached in them, as is a refused move, a last
action announced before it is committed, a handler in front of another. Fairness:
the wall clock runs out, state queries and publications return, a consumer goes
on, a stop that has begun is finished; nothing is assumed of the players. The run
does not check for deadlock: a game that is over stops.

`Game_proofs` proves the safety half of this for any number of players, any
answers and any timers. `TypeInv` adds to `TypeOK` that whose move is in the
pipeline is acting and that a handler which ends the game knows why. `Over` is
the invariant of the end: a handler past `Terminate` or `TimeOut` is alone
(`Ends(h)` holds of one handler at most), the game was marked terminated before, the gate is
closed before anything is announced, and what is announced is that handler's
reason; `GameGate` and `GameImplementsOutcome` follow. `LateInv` says that a
move committed late was past the gate when it closed and that nothing is past it
any more. `EndIsComing` is the invariant `GameEnds` rests on; the liveness itself
is checked by TLC.

What the model contains and no property forbids: a move after an accept reopens
the deal, although the pack describes a forward-only state machine
(`packs/verified/game/pack.py`), because `PackRuntime` sees no previous status
on an update; `event_counter` may repeat or fall when two handlers take their
number before either has scored; a player whose turn comes while its last task
is still pending loses the turn and, in serial mode, only the timers end the
game; an activation is launched after the end if the summary for it was being
built. Left out: scores, terms and deadlines of a deal, games of more than two
parties, the events of the lifecycle ledger.


## Runs

`Runs` is the life of runs in the application: `VolnixApp.create_run`, `end_run`,
`handle_action` and the idle watchers, over the table and the metadata files of
`RunManager` and the one database connection of the state engine. All of them are
coroutines of one process, started by HTTP requests, the command line, actions
and timers, and no lock keeps them apart.

- **State.** `rec` is `RunManager._runs` and `disk` the status in each
  `metadata.json`, which a worker thread truncates before it writes it (`torn`
  in between); `cur`, `world` and `last` are `_current_run_id`, whether
  `_current_world_id` is set, and `_last_action_time`; `db` is what the state
  engine's connection is open on.
- **`create_run`** of run `r` (`create[r]`) is `CreateWorld` for a call that
  generates its world, `Record` and its save, `Close` and `Reconfigure` (the
  connection moves to the run's copy of the database), `MakeCurrent`, `Start` and
  its save, `Finish`, which also starts the watcher of a run without internal
  actors. `CreateFails` may come at any of its awaits; the code undoes nothing.
- **`end_run`** (`end[t]`, of a client or of a watcher) is `Begins`, whose guard
  is the only look at the status, `Complete`, `CompleteOpens`, `Leave`.
  `Wake` is a look of the idle watcher; `Quiet` the passing of the idle timeout.
- **`handle_action`** (`act[a]`) is `Ensure` (an action that finds a world and no
  current run creates one), `Enter` (its context names the current run), then
  the commit step: `BeginCommit`, `Write`, `EndCommit`, each on the connection of
  its own moment. `Refused` is what stops an action before the commit. `Fail` is a
  statement, the COMMIT or the ledger append after it that raises, or a connection
  that was closed meanwhile. Actions on one connection share its transaction
  (`SQLiteDatabase.transaction` counts its depth, `StateCommit` models it), so an
  action decides neither whether its writes are committed nor whether they are
  undone: one that fails may leave durable writes (an outer action commits them, or
  the COMMIT was through when the ledger raised) and one that succeeds may lose
  them (the outer action rolls back). `Kept` leaves that open for every action, at
  its success and at its failure, which covers whatever other actions do; `where`
  is the database they are kept in if they are.
- **`Crash`** and restart: the table is read back from the files, a running run is
  marked stopped, a torn file is skipped, no run is current.

`touching`, `upset`, `astray`, `raced`, `saved` and `unsaved` are history
variables. They say which calls overlapped, so that a property can claim exactly
what the code guarantees when they do not.

| property | what it says |
|---|---|
| `Isolation` | what an action that overlaps no `create_run` writes is kept in the database of the run its context names or in none, whether it succeeds or fails and whoever commits it; and while those calls neither overlap nor fail, the connection is open on the current run |
| `EndIsDurable` | a run that was ended and saved is still ended after a restart, unless saves or ends of it overlapped |
| `CurrentIsOpen` | no end of a run leaves it current, whoever ends it and whatever is created meanwhile, unless its save raises |
| `ImplementsRunRecord` | `RunRecord`, the life of a record: created, started and completed in this order and never back, and what a restart reads is something a save has written |
| `IdleRunEnds` | a watched run in which something was done and then nothing more is ended |

The exceptions in these properties are behaviours of the code that the model
contains:

- A call of `create_run` that fails after `Close` leaves the previous run current
  while the connection is open on the failed one's database, or on none. The same
  holds, for a while, of every call: an action admitted before `Close` finds its
  connection closed, or writes through the new one, without a transaction, into
  the database of the other run (`astray`).
- A world generated in the background is current before its run is
  (`cli.py`), so an action can create a second run, and two actions may each
  create one; the calls then take the database from each other (`upset`). The run
  that loses stays `running` and is ended only by a client or a restart.
- An end of a run whose start is still being saved, and two ends at once (both
  find it running), write one file from two threads (`raced`): the last write may
  be the older status, or the file torn.
- A save that raises in `complete_run` leaves the run current although its status
  is completed (`unsaved`), and no later `end_run` gets past `Begins`.
- `create_run` sets `_last_action_time` to `None` for all runs, and the watcher of
  an older run then waits for an action of another run: `last = "none"` in
  `IdleRunEnds`.
- `end_run` clears `_current_world_id` with the run, so nothing is created
  automatically after an end, and an action then writes in the database of the run
  that has ended (its context names none). `POST /runs/new` without a `world_id`
  ends the current run first and finds no world afterwards, while its docstring
  says that the server's world is used.

Bounds: two runs are enough for one to take the database from the other, for an
older watcher and for an automatic run; one client ends either of them while the
watcher does. One action is in flight: others matter to it by what becomes of the
shared transaction, which `Kept` already leaves open, and by the runs they may
create, of which this one creates the only one there is; the proofs have any number.
One crash, and the calls of the first run and the action may raise, which keeps the
run near a million states. Fairness: what
was called goes on, threads run and timers fire; nobody has to create, end or act.

`Runs_proofs` proves the four safety properties for any number of runs, calls,
actions and crashes. `LifeInv` ties the place of each call to the status of its
run (a call that has not recorded its run has no record; an end past `Complete`
is of a completed run). `OpenInv` adds that a current run is created, running, or
completed by an end that has still to leave; `DurableInv` that a run which is not
raced has one end at most, which completes it after the start has been saved, and
none once an end was saved;
`PlaceInv` that, unless calls of `create_run` overlapped or failed, one of them at
most has the database and the connection is else on the current run, and that an
action under way which met none of them has its run's database on the connection,
its transaction too.

Left out: tags, listing and the artifacts of a run (reports, scorecard, event
log), the ledger, the animator's and the slots' part in `create_run`, worlds
other than one.
## Plan

Modules, in the order of their importance to the system:

1. `StateCommit`, `AtomicCommit`, `StateCommit_proofs`, `SerialCommit_proofs`: the
   commit path (done).
2. `EventBus`, `SlidingWindow`, `EventBus_proofs`: publication and delivery (done).
3. `Holds`, `Holds_proofs`: held actions (done).
4. `SimulationRunner`, `SimulationRunner_proofs`: the loop and its queue (done).
5. `Cohort`, `Cohort_proofs`: the cohort manager with the agency's gate (done).
6. `Game`, `GameOutcome`, `Game_proofs`: the orchestrator, its players and the
   game-active gate (done).
7. `Runs`, `RunRecord`, `Runs_proofs`: the run life cycle of the application
   (done).
8. `Budget`: check and deduct around an action, LLM spend deducted afterwards,
   thresholds once each. Runs: concurrent actions of one actor, the overspend.
9. `Sessions` and slots: the life cycle of a session over its store and the
   ledger, with crashes; registration and release of slots.
10. `Pipeline`: the order of the steps and their short circuits, the queue of side
    effects and its recursion bound.
11. `Scheduler` with the animator's bridge: events fired once, while others are
    registered and cancelled during the awaits of `get_due_events()`.
12. Webhooks, agency locks and memory eviction, validation against a state that
    changes before the commit, the life cycle of engines.

Every safety property of a passing run is proved. Further proofs: abstract
specifications for the held actions, the cohort and the runner, which so far have
invariants only, and the conditions under which the properties that a run
refutes do hold, as `SerialLosesNoUpdate` does for lost updates and
`RunnerCapsItsOwn` for the loop's own commits and `CohortBacklogIsPromoted` for the
deferred events.

Composition: `Cohort` takes its clock from the runner's event count, so its
notifications are the `Notify` of the runner;
`Budget` and `Pipeline` are one module of concurrent actions whose last step is
abstracted by `AtomicCommit`; the game and the sessions act through that same
step. One run per component asks what holds of it, and a second one only where
a documented promise fails.
## What is proved and what is checked

Proved by TLAPS, for every number of tasks, entities, subscribers, holds, NPCs,
players, runs and envelopes and for every limit: the theorems of
`StateCommit_proofs`, `SerialCommit_proofs`, `EventBus_proofs`, `Holds_proofs`,
`Cohort_proofs`, `SimulationRunner_proofs`, `Game_proofs` and `Runs_proofs`; the
section of each component says from which invariant. Those of
`SerialCommit_proofs` have the hypothesis `OneAtATime`. They assume what the `ASSUME` of each module
says of its constants, which TLC evaluates in every run. The type invariants of
`EventBus`, `Holds`, `SimulationRunner` and `Runs` are proved and not run.

Checked by TLC only, within the bounds each section names: liveness
(`StartedTasksEnd`, `QueuedIsTaken`, `ShutdownCompletes`, `HoldsAreClosed`,
`ApprovedIsExecuted`, `RoundRobinReachesAll`, `RunEnds`, `GameEnds`,
`IdleRunEnds` and the fairness in `GameOutcome`), because fairness and `ENABLED`
are outside what the proof system handles, and that the four runs which expect a
violation find one. Every other property of a passing run is proved. Of
five liveness properties the safety half is proved too, that a next step is there
at each point or that it is not undone: `StartedTasksEnd` (`NobodyWaitsInVain`,
`StepsRunOut`), `ShutdownCompletes` (`BusShutdownGoesOn`, `BusShutdownKeeps`),
`ApprovedIsExecuted` (`HoldsApprovedIsPursued`), `RoundRobinReachesAll` (`CohortRoundRobinNears`) and
`GameEnds` (`GameEndIsComing`); what TLC alone shows is that fair scheduling takes those
steps. No module uses
`RECURSIVE` operators, so each can be proved about; the library's induction rules
cannot be instantiated here, and where a proof needs induction over data it takes
a least counterexample, which exists because `<` on the naturals is well-founded
(`LeastNatural` in `EventBus_proofs` and `SerialCommit_proofs`).

Each property of a passing run is also checked to fail on a variant of the model
with a plausible mistake in one definition; the variants stand in the modules,
each marked `Mutant`, right before the definition they vary.

Not modelled, and why, component by component: the `components` list of
`PROJECT.json`. In short: text and world generation by LLMs, protocol
translation, reports and service packs transform data one call at a time and
keep no state that concurrent calls share.
