---------------------------- MODULE StateCommit ----------------------------
(***************************************************************************)
(* The commit step of the pipeline (StateEngine.execute) on the database   *)
(* it writes through (SQLiteDatabase): asyncio tasks that share ONE        *)
(* connection and ONE counter, _transaction_depth.                         *)
(*                                                                         *)
(* Every await on the connection is a statement put in the queue of the    *)
(* connection's thread, which runs the statements in the order they were   *)
(* submitted; the task continues when it picks up the reply.  What a task  *)
(* does between two awaits is one step.  Replies are picked up in any      *)
(* order, which covers the event loop's own order.                         *)
(*                                                                         *)
(* An entity's JSON document is abstracted to the set of tasks whose       *)
(* fields it holds (each task updates a field of its own); the event log   *)
(* to the set of events in it.                                             *)
(***************************************************************************)
EXTENDS Integers, Sequences, FiniteSets

CONSTANTS
  Tasks,         \* actions whose pipeline reaches the commit step
  Entities,      \* entities of the world
  NoTask,        \* no task: the pipeline lock is free
  Deltas,        \* the proposed state deltas of each task, in order
  Existing,      \* the entities with a row before any task runs
  Proposing,     \* tasks whose proposal carries one more event
  Locked,        \* tasks that run their pipeline under the agency's lock
  Cancellable,   \* tasks another task may cancel (the animator's tick)
  MayRefuse,     \* statements the database may refuse: it is locked, the disk full
  LedgerMayFail, \* whether an append to the ledger may raise
  MaxRestarts    \* bound on the restarts of the process

StateDelta == [op : {"create", "update", "delete"}, entity : Entities]

ASSUME TasksAssumption ==
  /\ IsFiniteSet(Tasks)
  /\ NoTask \notin Tasks
ASSUME DeltasAssumption ==
  Deltas \in [Tasks -> Seq(StateDelta)]
ASSUME SetsAssumption ==
  /\ Existing \subseteq Entities
  /\ Proposing \subseteq Tasks
  /\ Locked \subseteq Tasks
  /\ Cancellable \subseteq Tasks
  /\ MayRefuse \subseteq {"begin", "read", "write", "append", "commit", "propose", "autocommit"}
  /\ LedgerMayFail \in BOOLEAN
  /\ MaxRestarts \in Nat

VARIABLES
  depth,      \* SQLiteDatabase._transaction_depth
  inTxn,      \* whether the connection has a transaction open
  working,    \* the database as the connection sees it
  committed,  \* the database as a new connection would find it
  queue,      \* statements submitted to the connection's thread
  reply,      \* the reply a task has not picked up yet
  pc,         \* what each task awaits
  role,       \* how a task entered transaction(): outermost or nested
  at,         \* the delta a task is at
  seen,       \* the row a task has read
  applied,    \* the deltas a task has applied
  ledger,     \* StateMutationEntry rows: <<task, delta>>
  outcome,    \* what the task's caller was told
  lock,       \* the holder of the pipeline lock
  restarts

db == <<inTxn, working, committed>>
progress == <<role, at, seen, applied>>
vars == <<depth, db, queue, reply, pc, progress, ledger, outcome, lock, restarts>>

Statements ==
  {"begin", "read", "write", "append", "commit", "rollback", "propose", "autocommit"}
Statement == [task : Tasks, op : Statements]
Absent == {NoTask}   \* no row: no document holds this field
Rows == SUBSET (Tasks \union {NoTask})
Events == Tasks \X {"event", "proposed"}
Outcomes == {"none", "ok", "error", "late", "cancelled", "lost"}

Store == [ents : [Entities -> Rows], log : SUBSET Events]

\* The states in which a task is inside the body of transaction().
BodyStates == {"read", "write", "append", "commit", "rollback"}
Inside(t) == pc[t] \in BodyStates
Running(t) == pc[t] \notin {"idle", "end"}
Entering(t) == pc[t] = "begin"

-----------------------------------------------------------------------------
(* Submitting a statement, picking up its reply, ending a task.            *)

Submit(t, statement) ==
  /\ pc' = [pc EXCEPT ![t] = statement]
  /\ queue' = Append(queue, [task |-> t, op |-> statement])
  /\ UNCHANGED <<outcome, lock>>

Finish(t, result) ==
  /\ pc' = [pc EXCEPT ![t] = "end"]
  /\ outcome' = [outcome EXCEPT ![t] = result]
  /\ lock' = IF lock = t THEN NoTask ELSE lock
  /\ UNCHANGED queue

PickUp(t, statement, answer) ==
  /\ pc[t] = statement
  /\ reply[t] = answer
  /\ reply' = [reply EXCEPT ![t] = "none"]

\* The statement that starts the delta i of a task; after the last delta the
\* event is appended.
StatementFor(t, i) ==
  IF i > Len(Deltas[t]) THEN "append"
  ELSE IF Deltas[t][i].op = "create" THEN "write" ELSE "read"

Delta(t) == Deltas[t][at[t]]

-----------------------------------------------------------------------------
(* The connection's thread: one action per statement.                      *)

Due(statement) == queue # <<>> /\ Head(queue).op = statement

Serve(statement, answer) ==
  /\ Due(statement)
  /\ queue' = Tail(queue)
  /\ LET t == Head(queue).task
     IN  reply' = IF pc[t] = statement THEN [reply EXCEPT ![t] = answer] ELSE reply
  /\ UNCHANGED <<depth, pc, role, at, applied, ledger, outcome, lock, restarts>>

\* BEGIN is refused when the connection has a transaction open.
ServeBegin ==
  \/ /\ ~inTxn
     /\ Serve("begin", "ok")
     /\ inTxn' = TRUE
     /\ UNCHANGED <<working, committed, seen>>
  \/ /\ inTxn
     /\ Serve("begin", "error")
     /\ UNCHANGED <<db, seen>>

ServeRead ==
  /\ Serve("read", "ok")
  /\ LET t == Head(queue).task
     IN  seen' = [seen EXCEPT ![t] = working.ents[Delta(t).entity]]
  /\ UNCHANGED db

\* Mutant: every statement is committed at once.
WriteCommits ==
  /\ Serve("write", "ok")
  /\ LET t == Head(queue).task
     IN  working' = [working EXCEPT !.ents[Delta(t).entity] =
                       IF Delta(t).op = "delete" THEN Absent ELSE seen[t] \union {t}]
  /\ committed' = working'
  /\ UNCHANGED <<inTxn, seen>>

\* A data statement opens a transaction when none is open, even if it fails.
\* An INSERT of an existing row is refused; an UPDATE or DELETE of a row that
\* is gone changes nothing.
ServeWrite ==
  /\ Due("write")
  /\ LET t == Head(queue).task
         e == Delta(t).entity
         row == working.ents[e]
         exists == row # Absent
     IN  \/ /\ Delta(t).op = "create"
            /\ ~exists
            /\ Serve("write", "ok")
            /\ working' = [working EXCEPT !.ents[e] = {t}]
         \/ /\ Delta(t).op = "create"
            /\ exists
            /\ Serve("write", "error")
            /\ UNCHANGED working
         \/ /\ Delta(t).op = "update"
            /\ Serve("write", "ok")
            /\ working' = [working EXCEPT
                             !.ents[e] = IF exists THEN seen[t] \union {t} ELSE row]
         \/ /\ Delta(t).op = "delete"
            /\ Serve("write", "ok")
            /\ working' = [working EXCEPT !.ents[e] = Absent]
  /\ inTxn' = TRUE
  /\ UNCHANGED <<committed, seen>>

\* Mutant: the columns of the INSERT are swapped.
InsertSwaps(statement, kind) ==
  /\ Serve(statement, "ok")
  /\ working' = [working EXCEPT !.log = @ \union {<<kind, Head(queue).task>>}]
  /\ inTxn' = TRUE
  /\ UNCHANGED <<committed, seen>>

ServeInsert(statement, kind) ==
  /\ Serve(statement, "ok")
  /\ working' = [working EXCEPT !.log = @ \union {<<Head(queue).task, kind>>}]
  /\ inTxn' = TRUE
  /\ UNCHANGED <<committed, seen>>
ServeAppend == ServeInsert("append", "event")
ServePropose == ServeInsert("propose", "proposed")

ServeCommit ==
  /\ Serve("commit", "ok") \/ Serve("autocommit", "ok")
  /\ committed' = working
  /\ inTxn' = FALSE
  /\ UNCHANGED <<working, seen>>

\* A refused INSERT, UPDATE or DELETE has opened a transaction all the same; a
\* refused COMMIT leaves it open.
ServeRefused ==
  \E statement \in MayRefuse :
    /\ Serve(statement, "error")
    /\ inTxn' = (inTxn \/ statement \in {"write", "append", "propose"})
    /\ UNCHANGED <<working, committed, seen>>

ServeRollback ==
  /\ Serve("rollback", "ok")
  /\ working' = committed
  /\ inTxn' = FALSE
  /\ UNCHANGED <<committed, seen>>

Connection ==
  \/ ServeBegin \/ ServeRead \/ ServeWrite \/ ServeAppend
  \/ ServePropose \/ ServeCommit \/ ServeRefused \/ ServeRollback

-----------------------------------------------------------------------------
(* The tasks: entering the transaction.                                    *)

\* Mutant: a task issues its own BEGIN whatever the counter says.
StartsOwn(t) ==
  /\ pc[t] = "idle"
  /\ t \in Locked => lock = NoTask
  /\ role' = [role EXCEPT ![t] = "outer"]
  /\ queue' = Append(queue, [task |-> t, op |-> "begin"])
  /\ pc' = [pc EXCEPT ![t] = "begin"]
  /\ depth' = depth + 1
  /\ lock' = IF t \in Locked THEN t ELSE lock
  /\ UNCHANGED <<db, reply, at, seen, applied, ledger, outcome, restarts>>

\* A task enters transaction().  The counter is shared: any task that finds
\* it positive takes itself for nested and issues no BEGIN.
Start(t) ==
  /\ pc[t] = "idle"
  /\ t \in Locked => lock = NoTask
  /\ \/ /\ depth = 0
        /\ role' = [role EXCEPT ![t] = "outer"]
        /\ queue' = Append(queue, [task |-> t, op |-> "begin"])
        /\ pc' = [pc EXCEPT ![t] = "begin"]
     \/ /\ depth > 0
        /\ role' = [role EXCEPT ![t] = "nested"]
        /\ queue' = Append(queue, [task |-> t, op |-> StatementFor(t, at[t])])
        /\ pc' = [pc EXCEPT ![t] = StatementFor(t, at[t])]
  /\ depth' = depth + 1
  /\ lock' = IF t \in Locked THEN t ELSE lock
  /\ UNCHANGED <<db, reply, at, seen, applied, ledger, outcome, restarts>>

Began(t) ==
  /\ PickUp(t, "begin", "ok")
  /\ Submit(t, StatementFor(t, at[t]))
  /\ UNCHANGED <<depth, db, progress, ledger, restarts>>

\* Mutant: BEGIN is tried again for ever.
RetriesBegin(t) ==
  /\ PickUp(t, "begin", "error")
  /\ Submit(t, "begin")
  /\ UNCHANGED <<depth, db, progress, ledger, restarts>>

\* BEGIN is awaited outside the try block: its failure leaves the counter up.
BeginFailed(t) ==
  /\ PickUp(t, "begin", "error")
  /\ Finish(t, "error")
  /\ UNCHANGED <<depth, db, progress, ledger, restarts>>

-----------------------------------------------------------------------------
(* The body of the transaction.                                            *)

NextDelta(t) ==
  /\ at' = [at EXCEPT ![t] = @ + 1]
  /\ Submit(t, StatementFor(t, at[t] + 1))
  /\ UNCHANGED depth

\* Mutant: the except block counts down too.
RaiseCountsTwice(t) ==
  /\ depth' = depth - 1
  /\ \/ role[t] = "outer" /\ Submit(t, "rollback")
     \/ role[t] = "nested" /\ Finish(t, "error")

\* Mutant: a nested task rolls back as well.
RaiseRollsBack(t) ==
  /\ Submit(t, "rollback")
  /\ UNCHANGED depth

\* An exception leaves the body: the outermost rolls back, a nested one only
\* counts down.
Raise(t) ==
  \/ /\ role[t] = "outer"
     /\ Submit(t, "rollback")
     /\ UNCHANGED depth
  \/ /\ role[t] = "nested"
     /\ depth' = depth - 1
     /\ Finish(t, "error")

\* After its read an update of a missing entity raises, a delete skips it.
ReadDone(t) ==
  /\ PickUp(t, "read", "ok")
  /\ \/ /\ seen[t] # Absent
        /\ Submit(t, "write")
        /\ UNCHANGED <<depth, at>>
     \/ /\ seen[t] = Absent
        /\ Delta(t).op = "update"
        /\ Raise(t)
        /\ UNCHANGED at
     \/ /\ seen[t] = Absent
        /\ Delta(t).op = "delete"
        /\ NextDelta(t)
  /\ UNCHANGED <<db, role, seen, applied, ledger, restarts>>

\* Mutant: the ledger is written with each delta, before the commit.
WriteLedgers(t) ==
  /\ \/ /\ PickUp(t, "write", "ok")
        /\ applied' = [applied EXCEPT ![t] = @ \union {at[t]}]
        /\ ledger' = ledger \union {<<t, at[t]>>}
        /\ NextDelta(t)
     \/ /\ PickUp(t, "write", "error")
        /\ Raise(t)
        /\ UNCHANGED <<applied, at, ledger>>
  /\ UNCHANGED <<db, role, seen, restarts>>

WriteDone(t) ==
  /\ \/ /\ PickUp(t, "write", "ok")
        /\ applied' = [applied EXCEPT ![t] = @ \union {at[t]}]
        /\ NextDelta(t)
     \/ /\ PickUp(t, "write", "error")
        /\ Raise(t)
        /\ UNCHANGED <<applied, at>>
  /\ UNCHANGED <<db, role, seen, ledger, restarts>>

RolledBack(t) ==
  /\ PickUp(t, "rollback", "ok")
  /\ depth' = depth - 1
  /\ Finish(t, "error")
  /\ UNCHANGED <<db, progress, ledger, restarts>>

-----------------------------------------------------------------------------
(* Leaving the transaction; the ledger; the proposed event.                *)

Unledgered(t) == {i \in applied[t] : <<t, i>> \notin ledger}

\* With the ledger written, the proposed event is appended outside of any
\* transaction, then the step returns.
AfterLedger(t) ==
  \/ /\ t \in Proposing
     /\ Submit(t, "propose")
  \/ /\ t \notin Proposing
     /\ Finish(t, "ok")

Leave(t) ==
  /\ depth' = depth - 1
  /\ \/ /\ Unledgered(t) # {}
        /\ pc' = [pc EXCEPT ![t] = "ledger"]
        /\ UNCHANGED <<queue, outcome, lock>>
     \/ /\ Unledgered(t) = {}
        /\ AfterLedger(t)

\* Mutant: nested tasks commit too.
AppendedCommits(t) ==
  /\ PickUp(t, "append", "ok")
  /\ Submit(t, "commit")
  /\ UNCHANGED <<depth, db, progress, ledger, restarts>>

\* Mutant: nobody commits.
AppendedLeaves(t) ==
  /\ PickUp(t, "append", "ok")
  /\ Leave(t)
  /\ UNCHANGED <<db, progress, ledger, restarts>>

Appended(t) ==
  /\ PickUp(t, "append", "ok")
  /\ \/ /\ role[t] = "outer"
        /\ Submit(t, "commit")
        /\ UNCHANGED depth
     \/ /\ role[t] = "nested"
        /\ Leave(t)
  /\ UNCHANGED <<db, progress, ledger, restarts>>

CommitDone(t) ==
  /\ PickUp(t, "commit", "ok")
  /\ Leave(t)
  /\ UNCHANGED <<db, progress, ledger, restarts>>

\* The ledger is another database: its appends do not queue here.
LedgerAppend(t) ==
  /\ pc[t] = "ledger"
  /\ \E i \in Unledgered(t) :
       /\ \A j \in Unledgered(t) : i <= j
       /\ ledger' = ledger \union {<<t, i>>}
       /\ \/ /\ Unledgered(t) # {i}
             /\ UNCHANGED <<pc, queue, outcome, lock>>
          \/ /\ Unledgered(t) = {i}
             /\ AfterLedger(t)
  /\ UNCHANGED <<depth, db, reply, progress, restarts>>

LedgerFails(t) ==
  /\ LedgerMayFail
  /\ pc[t] = "ledger"
  /\ Finish(t, "late")
  /\ UNCHANGED <<depth, db, reply, progress, ledger, restarts>>

\* Mutant: execute() commits whatever the counter says.
ProposedCommits(t) ==
  /\ PickUp(t, "propose", "ok")
  /\ Submit(t, "autocommit")
  /\ UNCHANGED <<depth, db, progress, ledger, restarts>>

\* execute() commits only if the counter is zero when the statement returns.
Proposed(t) ==
  /\ PickUp(t, "propose", "ok")
  /\ \/ /\ depth = 0
        /\ Submit(t, "autocommit")
     \/ /\ depth > 0
        /\ Finish(t, "ok")
  /\ UNCHANGED <<depth, db, progress, ledger, restarts>>

AutoCommitted(t) ==
  /\ PickUp(t, "autocommit", "ok")
  /\ Finish(t, "ok")
  /\ UNCHANGED <<depth, db, progress, ledger, restarts>>

\* A refused statement raises: in the body, which ends with the COMMIT, or
\* after it, where the commit is durable and the caller is told of an error.
Refused(t) ==
  /\ \/ /\ \E statement \in {"read", "append", "commit"} : PickUp(t, statement, "error")
        /\ Raise(t)
     \/ /\ \E statement \in {"propose", "autocommit"} : PickUp(t, statement, "error")
        /\ Finish(t, "late")
        /\ UNCHANGED depth
  /\ UNCHANGED <<db, progress, ledger, restarts>>

-----------------------------------------------------------------------------
(* Cancellation and restart.                                               *)

\* CancelledError is not an Exception: the body is left through `finally`
\* only, with no rollback.  While BEGIN is awaited nothing counts down.  A
\* statement already submitted still runs; its reply is dropped.
Cancel(t) ==
  /\ t \in Cancellable
  /\ Running(t)
  /\ depth' = IF Inside(t) THEN depth - 1 ELSE depth
  /\ reply' = [reply EXCEPT ![t] = "none"]
  /\ Finish(t, "cancelled")
  /\ UNCHANGED <<db, progress, ledger, restarts>>

\* The process stops (or crashes) and starts again on the same file.
Restart ==
  /\ restarts < MaxRestarts
  /\ restarts' = restarts + 1
  /\ depth' = 0
  /\ inTxn' = FALSE
  /\ working' = committed
  /\ queue' = <<>>
  /\ reply' = [t \in Tasks |-> "none"]
  /\ pc' = [t \in Tasks |-> IF Running(t) THEN "end" ELSE pc[t]]
  /\ outcome' = [t \in Tasks |-> IF Running(t) THEN "lost" ELSE outcome[t]]
  /\ lock' = NoTask
  /\ UNCHANGED <<committed, progress, ledger>>

-----------------------------------------------------------------------------
Init ==
  /\ depth = 0
  /\ inTxn = FALSE
  /\ committed = [ents |-> [e \in Entities |-> IF e \in Existing THEN {} ELSE Absent],
                  log |-> {}]
  /\ working = committed
  /\ queue = <<>>
  /\ reply = [t \in Tasks |-> "none"]
  /\ pc = [t \in Tasks |-> "idle"]
  /\ role = [t \in Tasks |-> "none"]
  /\ at = [t \in Tasks |-> 1]
  /\ seen = [t \in Tasks |-> Absent]
  /\ applied = [t \in Tasks |-> {}]
  /\ ledger = {}
  /\ outcome = [t \in Tasks |-> "none"]
  /\ lock = NoTask
  /\ restarts = 0

Resume(t) ==
  \/ Began(t) \/ BeginFailed(t) \/ ReadDone(t) \/ WriteDone(t) \/ RolledBack(t)
  \/ Appended(t) \/ CommitDone(t) \/ LedgerAppend(t) \/ Proposed(t) \/ AutoCommitted(t)
  \/ Refused(t)

\* Every task has ended and every statement has run.
Finished ==
  /\ \A t \in Tasks : pc[t] = "end"
  /\ queue = <<>>
  /\ UNCHANGED vars

Next ==
  \/ Connection
  \/ \E t \in Tasks : Start(t) \/ Resume(t) \/ LedgerFails(t) \/ Cancel(t)
  \/ Restart
  \/ Finished

\* The thread of the connection and the event loop do not stop while they
\* have work; nothing obliges an action to arrive, a cancel or a restart.
Fairness ==
  /\ WF_vars(Connection)
  /\ \A t \in Tasks : WF_vars(Resume(t))

Spec == Init /\ [][Next]_vars
FairSpec == Spec /\ Fairness
-----------------------------------------------------------------------------
(* Properties that hold of any mix of tasks.                               *)

TypeOK ==
  /\ depth \in Int
  /\ inTxn \in BOOLEAN
  /\ working \in Store
  /\ committed \in Store
  /\ queue \in Seq(Statement)
  /\ reply \in [Tasks -> {"none", "ok", "error"}]
  /\ pc \in [Tasks -> Statements \union {"idle", "ledger", "end"}]
  /\ role \in [Tasks -> {"none", "outer", "nested"}]
  /\ at \in [Tasks -> Nat \ {0}]
  /\ seen \in [Tasks -> Rows]
  /\ applied \in [Tasks -> SUBSET Nat]
  /\ ledger \subseteq Tasks \X Nat
  /\ outcome \in [Tasks -> Outcomes]
  /\ lock \in Tasks \union {NoTask}
  /\ restarts \in Nat

InTransaction == {t \in Tasks : Inside(t) \/ Entering(t)}
Owner(t) == role[t] = "outer" /\ t \in InTransaction

\* The shared counter never falls below the number of tasks that are in
\* transaction(), whatever order they enter, fail, are cancelled and leave in:
\* it never lets a task believe that nobody else has a transaction.
DepthCoversTasks == depth >= Cardinality(InTransaction)

\* At most one task at a time takes itself for the outermost one, the one
\* that issues BEGIN, COMMIT and ROLLBACK (sqlite.py, transaction()).
OneOwner == \A t, u \in Tasks : Owner(t) /\ Owner(u) => t = u

\* Once its BEGIN has run, the outermost task's transaction stays open until
\* its own COMMIT or ROLLBACK: no autocommit of another task's execute()
\* closes it halfway.
OwnerTxnOpen ==
  \A t \in Tasks :
    role[t] = "outer" /\ pc[t] \in {"read", "write", "append"} => inTxn

\* An outermost task that was told its commit succeeded finds its event in
\* the durable log, whatever other tasks do on the connection meanwhile.
OuterDurable ==
  \A t \in Tasks :
    role[t] = "outer" /\ outcome[t] \in {"ok", "late"}
      => <<t, "event">> \in committed.log

\* A counter above the number of tasks in transaction() will never come back
\* to zero.
Wedged == depth > Cardinality(InTransaction)
CommitQueued == \E i \in 1..Len(queue) : queue[i].op \in {"commit", "autocommit"}

\* The consequence of a BEGIN that failed, or was cancelled: every later task
\* is nested and nothing any of them writes is made durable, until the
\* process is restarted.
WedgedStoresNothing ==
  [][Wedged /\ ~CommitQueued /\ restarts' = restarts
       => UNCHANGED committed /\ Wedged' /\ ~CommitQueued']_vars

\* A task that has started ends: tasks that share the connection never wait
\* for one another, not even when the transaction is wedged.
StartedTasksEnd == \A t \in Tasks : Running(t) ~> pc[t] = "end"

-----------------------------------------------------------------------------
(* Properties of transactions as the code documents them.  They hold of    *)
(* tasks that run one at a time and are not cancelled.                     *)

\* Nobody is in transaction() and the connection has nothing left to run.
Quiet == InTransaction = {} /\ queue = <<>>

\* "commits on clean exit" (sqlite.py, transaction()): once the outermost
\* transaction is over too, a task whose body ended cleanly has its event in
\* the durable log.
CleanExitIsDurable ==
  Quiet => \A t \in Tasks :
    outcome[t] \in {"ok", "late"} => <<t, "event">> \in committed.log

\* "wrap in db.transaction() to prevent lost updates under concurrency"
\* (store.py, update()): of two durable updates of one entity, none is lost.
UpdatedOnly(e) ==
  \A t \in Tasks : \A i \in DOMAIN Deltas[t] :
    Deltas[t][i].entity = e => Deltas[t][i].op = "update"
Updates(t, e) == \E i \in DOMAIN Deltas[t] : Deltas[t][i].entity = e
NoLostUpdate ==
  \A e \in Entities : \A t \in Tasks :
    UpdatedOnly(e) /\ Updates(t, e) /\ <<t, "event">> \in committed.log
      => t \in committed.ents[e]

\* The audit log never runs ahead of the world: a mutation in the ledger
\* belongs to an event that is durable.
LedgerFollowsStore ==
  \A entry \in ledger : <<entry[1], "event">> \in committed.log

Atomic == INSTANCE AtomicCommit
            WITH store <- committed,
                 failed <- {t \in Tasks : outcome[t] \in {"error", "lost"}
                                          /\ <<t, "event">> \notin committed.log}

\* Run one at a time, the tasks implement the atomic commit.
ImplementsAtomicCommit == Atomic!Spec
=============================================================================
