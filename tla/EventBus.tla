------------------------------ MODULE EventBus ------------------------------
(***************************************************************************)
(* The event bus (EventBus, TopicFanout, BusPersistence): publishers write *)
(* an event to the log and put it in the bounded queue of every matching   *)
(* subscriber; a consumer task per subscriber runs its callback.           *)
(*                                                                         *)
(* Each event has a task that publishes it; publishers, consumers, the     *)
(* shutdown and the log's connection interleave.  A step is what runs      *)
(* between two awaits.  The sequences offered, got and the set handed are  *)
(* history: what the properties are about.                                 *)
(***************************************************************************)
EXTENDS Integers, Sequences, FiniteSets, Functions

CONSTANTS
  Events,
  Subs,
  Wants,            \* the events whose type each subscriber asked for
  Capacity,         \* the size of each subscriber's queue
  Hanging,          \* subscribers whose callback may never return
  PersistMayFail,   \* whether writing the log may raise
  MaxCrashes        \* bound on the crashes of the process

ASSUME SubsAssumption ==
  /\ IsFiniteSet(Subs)
  /\ Wants \in [Subs -> SUBSET Events]
  /\ Capacity \in [Subs -> Nat \ {0}]
ASSUME EventsAssumption ==
  /\ IsFiniteSet(Events)
  /\ Hanging \subseteq Subs
  /\ PersistMayFail \in BOOLEAN
  /\ MaxCrashes \in Nat

VARIABLES
  phase,      \* "up", "closing" while shutdown() runs, "down"
  toClose,    \* the subscriptions shutdown() found
  awaited,    \* those whose consumer it has cancelled, to await its end
  pc,         \* where publish() is for each event
  log,        \* rows of the event log, as the connection sees them
  durable,    \* how many of them are committed
  listed,     \* subscriptions known to the fanout
  queue,      \* each subscriber's queue
  consumer,   \* each subscriber's consumer task
  cancelled,  \* consumer tasks whose cancellation was requested
  dropped,    \* how many events the bus has counted as dropped
  offered,    \* the events put in each subscriber's queue
  got,        \* the events its consumer took
  handed,     \* events handed to a callback, before or after a crash
  crashes

bus == <<phase, toClose, awaited>>
history == <<offered, got, handed>>
vars == <<bus, pc, log, durable, listed, queue, consumer, cancelled, dropped,
          history, crashes>>

Publishing == {"insert", "commit", "persisted", "failed"}
Full(s) == Len(queue[s]) >= Capacity[s]

-----------------------------------------------------------------------------
(* Subscribing.                                                            *)

Subscribe(s) ==
  /\ consumer[s] = "none"
  /\ consumer' = [consumer EXCEPT ![s] = "waiting"]
  /\ listed' = listed \union {s}
  /\ UNCHANGED <<bus, pc, log, durable, queue, cancelled, dropped, history, crashes>>

\* The subscription is forgotten at once; its consumer ends when the
\* cancellation reaches it and takes nothing from its queue until then.
Unsubscribe(s) ==
  /\ s \in listed
  /\ listed' = listed \ {s}
  /\ cancelled' = cancelled \union {s}
  /\ UNCHANGED <<bus, pc, log, durable, queue, consumer, dropped, history, crashes>>

-----------------------------------------------------------------------------
(* Publishing.                                                             *)

\* publish() refuses an event only once shutdown() is over; a middleware may
\* drop it.
Publish(e) ==
  /\ pc[e] = "idle"
  /\ \/ /\ phase = "down"
        /\ pc' = [pc EXCEPT ![e] = "refused"]
     \/ /\ phase # "down"
        /\ \E result \in {"refused", "insert"} : pc' = [pc EXCEPT ![e] = result]
  /\ UNCHANGED <<bus, log, durable, listed, queue, consumer, cancelled, dropped,
                 history, crashes>>

\* The connection of the log: an INSERT, then a COMMIT that makes every row
\* so far durable.
Insert(e) ==
  /\ pc[e] = "insert"
  /\ log' = Append(log, e)
  /\ pc' = [pc EXCEPT ![e] = "commit"]
  /\ UNCHANGED <<bus, durable, listed, queue, consumer, cancelled, dropped, history,
                 crashes>>

\* Mutant: the INSERT is not committed.
CommitsNothing(e) ==
  /\ pc[e] = "commit"
  /\ pc' = [pc EXCEPT ![e] = "persisted"]
  /\ UNCHANGED <<bus, log, durable, listed, queue, consumer, cancelled, dropped, history,
                 crashes>>

Commit(e) ==
  /\ pc[e] = "commit"
  /\ durable' = Len(log)
  /\ pc' = [pc EXCEPT ![e] = "persisted"]
  /\ UNCHANGED <<bus, log, listed, queue, consumer, cancelled, dropped, history, crashes>>

\* Either statement may raise; publish() counts the error and goes on.
PersistFails(e) ==
  /\ PersistMayFail
  /\ pc[e] \in {"insert", "commit"}
  /\ pc' = [pc EXCEPT ![e] = "failed"]
  /\ UNCHANGED <<bus, log, durable, listed, queue, consumer, cancelled, dropped, history,
                 crashes>>

Targets(e) == {s \in listed : e \in Wants[s]}

\* Mutants: what a fanout with another queue discipline does.
FanoutWith(e, Queued(_), counted) ==
  /\ pc[e] \in {"persisted", "failed"}
  /\ pc' = [pc EXCEPT ![e] = IF @ = "failed" THEN "unlogged" ELSE "done"]
  /\ queue' = [s \in Subs |-> IF s \in Targets(e) THEN Queued(s) ELSE queue[s]]
  /\ offered' = [s \in Subs |-> IF s \in Targets(e) THEN Append(offered[s], e)
                                                    ELSE offered[s]]
  /\ dropped' = dropped + counted
  /\ UNCHANGED <<bus, log, durable, listed, consumer, cancelled, got, handed, crashes>>
FullTargets(e) == Cardinality({s \in Targets(e) : Full(s)})
FanoutUncounted(e) ==
  FanoutWith(e, LAMBDA s : Append(IF Full(s) THEN Tail(queue[s]) ELSE queue[s], e), 0)
FanoutDropsNewest(e) ==
  FanoutWith(e, LAMBDA s : IF Full(s) THEN queue[s] ELSE Append(queue[s], e), FullTargets(e))

\* The event goes to all its subscribers in one step; a full queue loses its
\* oldest event.  Subscriptions being shut down are still in the list.
Fanout(e) ==
  /\ pc[e] \in {"persisted", "failed"}
  /\ pc' = [pc EXCEPT ![e] = IF @ = "failed" THEN "unlogged" ELSE "done"]
  /\ queue' = [s \in Subs |->
                 IF s \notin Targets(e) THEN queue[s]
                 ELSE Append(IF Full(s) THEN Tail(queue[s]) ELSE queue[s], e)]
  /\ offered' = [s \in Subs |-> IF s \in Targets(e) THEN Append(offered[s], e)
                                                    ELSE offered[s]]
  /\ dropped' = dropped + Cardinality({s \in Targets(e) : Full(s)})
  /\ UNCHANGED <<bus, log, durable, listed, consumer, cancelled, got, handed, crashes>>

-----------------------------------------------------------------------------
(* Consumer tasks.  A task whose cancellation was requested does nothing    *)
(* more than end: no callback of this code swallows a cancellation.        *)

\* Mutant: one callback at a time for the whole bus.
TakeAlone(s) ==
  /\ \A u \in Subs : consumer[u] # "callback"
  /\ s \notin cancelled
  /\ consumer[s] = "waiting"
  /\ queue[s] # <<>>
  /\ queue' = [queue EXCEPT ![s] = Tail(@)]
  /\ got' = [got EXCEPT ![s] = Append(@, Head(queue[s]))]
  /\ handed' = handed \union {Head(queue[s])}
  /\ consumer' = [consumer EXCEPT ![s] = "callback"]
  /\ UNCHANGED <<bus, pc, log, durable, listed, cancelled, dropped, offered, crashes>>

Take(s) ==
  /\ s \notin cancelled
  /\ consumer[s] = "waiting"
  /\ queue[s] # <<>>
  /\ queue' = [queue EXCEPT ![s] = Tail(@)]
  /\ got' = [got EXCEPT ![s] = Append(@, Head(queue[s]))]
  /\ handed' = handed \union {Head(queue[s])}
  /\ consumer' = [consumer EXCEPT ![s] = "callback"]
  /\ UNCHANGED <<bus, pc, log, durable, listed, cancelled, dropped, offered, crashes>>

\* The callback returns, or raises: the consumer goes on either way.
CallbackEnds(s) ==
  /\ s \notin cancelled
  /\ consumer[s] = "callback"
  /\ consumer' = [consumer EXCEPT ![s] = "waiting"]
  /\ UNCHANGED <<bus, pc, log, durable, listed, queue, cancelled, dropped, history,
                 crashes>>

\* Mutant: a callback is not interrupted.
ConsumerEndsIdle(s) ==
  /\ s \in cancelled
  /\ consumer[s] = "waiting"
  /\ consumer' = [consumer EXCEPT ![s] = "ended"]
  /\ UNCHANGED <<bus, pc, log, durable, listed, queue, cancelled, dropped, history,
                 crashes>>

ConsumerEnds(s) ==
  /\ s \in cancelled
  /\ consumer[s] \in {"waiting", "callback"}
  /\ consumer' = [consumer EXCEPT ![s] = "ended"]
  /\ UNCHANGED <<bus, pc, log, durable, listed, queue, cancelled, dropped, history,
                 crashes>>

-----------------------------------------------------------------------------
(* Shutdown and crash.                                                     *)

Shutdown ==
  /\ phase = "up"
  /\ phase' = "closing"
  /\ toClose' = listed
  /\ UNCHANGED <<awaited, pc, log, durable, listed, queue, consumer, cancelled, dropped,
                 history, crashes>>

Ended(s) == consumer[s] = "ended"

\* The consumers are cancelled one after the other, each awaited.
ShutdownCancels(s) ==
  /\ phase = "closing"
  /\ s \in toClose \ awaited
  /\ ~Ended(s)
  /\ \A u \in awaited : Ended(u)
  /\ awaited' = awaited \union {s}
  /\ cancelled' = cancelled \union {s}
  /\ UNCHANGED <<phase, toClose, pc, log, durable, listed, queue, consumer, dropped,
                 history, crashes>>

ShutdownEnds ==
  /\ phase = "closing"
  /\ \A s \in toClose : Ended(s)
  /\ phase' = "down"
  /\ UNCHANGED <<toClose, awaited, pc, log, durable, listed, queue, consumer, cancelled,
                 dropped, history, crashes>>

\* The process dies and starts again: only committed rows of the log are left.
Crash ==
  /\ crashes < MaxCrashes
  /\ crashes' = crashes + 1
  /\ phase' = "up"
  /\ toClose' = {}
  /\ awaited' = {}
  /\ pc' = [e \in Events |-> IF pc[e] \in Publishing THEN "lost" ELSE pc[e]]
  /\ log' = SubSeq(log, 1, durable)
  /\ listed' = {}
  /\ queue' = [s \in Subs |-> <<>>]
  /\ consumer' = [s \in Subs |-> "none"]
  /\ cancelled' = {}
  /\ dropped' = 0
  /\ offered' = [s \in Subs |-> <<>>]
  /\ got' = [s \in Subs |-> <<>>]
  /\ UNCHANGED <<durable, handed>>

-----------------------------------------------------------------------------
Init ==
  /\ phase = "up"
  /\ toClose = {}
  /\ awaited = {}
  /\ pc = [e \in Events |-> "idle"]
  /\ log = <<>>
  /\ durable = 0
  /\ listed = {}
  /\ queue = [s \in Subs |-> <<>>]
  /\ consumer = [s \in Subs |-> "none"]
  /\ cancelled = {}
  /\ dropped = 0
  /\ offered = [s \in Subs |-> <<>>]
  /\ got = [s \in Subs |-> <<>>]
  /\ handed = {}
  /\ crashes = 0

Publisher(e) == Insert(e) \/ Commit(e) \/ Fanout(e)
Closing == ShutdownEnds \/ \E s \in Subs : ShutdownCancels(s)

\* Every event was published and everything that runs has come to rest.
AtRest ==
  /\ phase = "down"
  /\ \A e \in Events : pc[e] \notin Publishing \union {"idle"}
  /\ \A s \in Subs : \/ consumer[s] \in {"none", "ended"}
                     \/ consumer[s] = "waiting" /\ queue[s] = <<>>
  /\ UNCHANGED vars

Next ==
  \/ \E e \in Events : Publish(e) \/ Publisher(e) \/ PersistFails(e)
  \/ \E s \in Subs : \/ Subscribe(s) \/ Unsubscribe(s)
                     \/ Take(s) \/ CallbackEnds(s) \/ ConsumerEnds(s)
  \/ Shutdown \/ Closing \/ Crash
  \/ AtRest

\* The event loop runs what is ready, the log's connection answers, and
\* cancellation reaches a task; a hanging callback need not return.
Fairness ==
  /\ \A e \in Events : WF_vars(Publisher(e))
  /\ \A s \in Subs : WF_vars(Take(s)) /\ WF_vars(ConsumerEnds(s))
  /\ \A s \in Subs \ Hanging : WF_vars(CallbackEnds(s))
  /\ WF_vars(Closing)

Spec == Init /\ [][Next]_vars
FairSpec == Spec /\ Fairness
-----------------------------------------------------------------------------
TypeOK ==
  /\ phase \in {"up", "closing", "down"}
  /\ toClose \subseteq Subs
  /\ awaited \subseteq toClose
  /\ pc \in [Events -> Publishing \union
                        {"idle", "refused", "done", "unlogged", "lost"}]
  /\ log \in Seq(Events)
  /\ durable \in 0..Len(log)
  /\ listed \subseteq Subs
  /\ queue \in [Subs -> Seq(Events)]
  /\ \A s \in Subs : Len(queue[s]) <= Capacity[s]
  /\ consumer \in [Subs -> {"none", "waiting", "callback", "ended"}]
  /\ cancelled \subseteq Subs
  /\ dropped \in Nat
  /\ offered \in [Subs -> Seq(Events)]
  /\ got \in [Subs -> Seq(Events)]
  /\ handed \subseteq Events
  /\ crashes \in Nat

\* "Persist BEFORE fanout so the log is never behind" (bus.py, publish()):
\* an event that any callback was ever handed is in the durable log, once, also
\* after a crash, unless publish() was told that the log could not be written.
LogNeverBehind ==
  \A e \in handed :
    pc[e] # "unlogged" => Cardinality({i \in 1..durable : log[i] = e}) = 1

\* Every event a subscriber was offered and did not take is still in its
\* queue or was counted as dropped.
DropsAreCounted ==
  dropped = SumFunction([s \in Subs |-> Len(offered[s]) - Len(got[s]) - Len(queue[s])])

\* The queue of a subscriber is the window over what it was offered.
Window == INSTANCE SlidingWindow
            WITH next <- [s \in Subs |-> Len(offered[s]) - Len(queue[s]) + 1]
ImplementsWindow == Window!Spec

\* One subscriber's hanging callback does not keep events from the others.
QueuedIsTaken ==
  \A s \in Subs \ Hanging, e \in Events :
    (\E i \in 1..Len(queue[s]) : queue[s][i] = e)
      ~> (~(\E i \in 1..Len(queue[s]) : queue[s][i] = e) \/ Ended(s))

\* Shutdown comes to its end although a callback hangs, and then no subscriber
\* that it found runs.
ShutdownCompletes ==
  phase = "closing" ~> \/ phase = "down" /\ \A s \in toClose : Ended(s)
                       \/ phase = "up"
=============================================================================
