------------------------ MODULE SerialCommit_proofs -------------------------
(***************************************************************************)
(* What the code's documentation says of transactions holds when every     *)
(* action takes the pipeline lock, none is cancelled and the database      *)
(* refuses statements only inside the transaction: clean exits are         *)
(* durable, the ledger is not ahead, and the commit step is atomic.        *)
(***************************************************************************)
EXTENDS StateCommit_proofs

\* The statements of a transaction that has begun, its COMMIT included.
Within == {"read", "write", "append", "commit"}

\* Every action runs under the pipeline lock; no task is cancelled; what the
\* database refuses is a statement of a transaction that has begun.
OneAtATime == Locked = Tasks /\ Cancellable = {} /\ MayRefuse \subseteq Within

-----------------------------------------------------------------------------
(* One task at a time.                                                     *)

\* Only the holder of the lock runs; it is the outermost, the counter is the
\* number of tasks in transaction(), the queue holds statements of running
\* tasks, and what is refused is refused within a transaction.
OneRuns == \A t \in Tasks : Running(t) => lock = t
AllOuter == \A t \in Tasks : pc[t] # "idle" => role[t] = "outer"
NoGap == depth = Cardinality(InTransaction)
QueueRuns == \A i \in 1..Len(queue) : Running(queue[i].task)
ErrorsWithin == \A t \in Tasks : reply[t] = "error" => pc[t] \in Within

\* A task that has not written since its transaction began, or has closed it.
Settled(t) ==
  \/ ~Running(t) \/ pc[t] = "ledger"
  \/ Awaiting(t, "begin") \/ Awaiting(t, "propose")
  \/ \E s \in Closers : Answered(t, s)
CleanStore ==
  (\A t \in Tasks : Settled(t)) => inTxn = FALSE /\ working = committed

SerialControl ==
  OneRuns /\ AllOuter /\ NoGap /\ QueueRuns /\ ErrorsWithin /\ CleanStore


LEMMA ControlInit == Init => SerialControl
<1> SUFFICES ASSUME Init PROVE SerialControl
  OBVIOUS
<1>1. /\ \A t \in Tasks : pc[t] = "idle" /\ reply[t] = "none"
      /\ queue = <<>> /\ depth = 0 /\ inTxn = FALSE /\ working = committed
  BY DEF Init
<1>2. InTransaction = {}
  BY <1>1 DEF InTransaction, Inside, Entering, BodyStates
<1>3. NoGap
  BY <1>1, <1>2, FS_EmptySet DEF NoGap
<1> QED
  BY <1>1, <1>3 DEF SerialControl, OneRuns, AllOuter, QueueRuns, ErrorsWithin, CleanStore,
                    Running

\* The task whose statement is served awaits it, and no other task runs.
LEMMA Served ==
  ASSUME TypeInv, SerialControl, NEW s \in Statements, NEW a \in {"ok", "error"}, Serve(s, a)
  PROVE  LET h == Head(queue).task
         IN  /\ h \in Tasks /\ Running(h) /\ Awaiting(h, s)
             /\ pc' = pc /\ reply' = [reply EXCEPT ![h] = a]
             /\ \A u \in Tasks : u # h => ~Running(u)
             /\ s \in {"read", "write"} => at[h] \in 1..Len(Deltas[h])
<1> DEFINE h == Head(queue).task
<1>1. queue \in Seq(Statement) /\ queue # <<>> /\ Head(queue).op = s
  BY DEF TypeInv, TypeOK, Serve, Due
<1>2. Head(queue) = queue[1] /\ 1 \in 1..Len(queue) /\ queue[1] \in Statement
  BY <1>1
<1>3. h \in Tasks /\ Running(h)
  BY <1>2 DEF Statement, SerialControl, QueueRuns
<1>4. pc[h] = s /\ reply[h] = "none" /\ (s \in {"read", "write"} => at[h] \in 1..Len(Deltas[h]))
  BY <1>1, <1>2, <1>3 DEF TypeInv, QueueInv, QueueMatches, Running
<1>5. pc' = pc /\ reply' = [reply EXCEPT ![h] = a]
  BY <1>4 DEF Serve
<1>6. \A u \in Tasks : u # h => ~Running(u)
  BY <1>3 DEF SerialControl, OneRuns
<1> QED
  BY <1>3, <1>4, <1>5, <1>6 DEF Awaiting

\* What each statement leaves of the connection, for the lock's holder.
LEMMA ServedClean ==
  ASSUME TypeInv, SerialControl, OneAtATime, Connection
  PROVE  \E s \in Statements, a \in {"ok", "error"} :
           /\ Serve(s, a)
           /\ a = "error" => s \in Within
           /\ s \in Closers /\ a = "ok" => inTxn' = FALSE /\ working' = committed'
<1> USE DEF Statements, Closers, Within
<1>1. CASE ServeBegin
  <2>1. CASE Serve("begin", "ok")
    BY <2>1
  <2>2. CASE inTxn /\ Serve("begin", "error")
    <3>1. Awaiting(Head(queue).task, "begin")
          /\ \A u \in Tasks : u # Head(queue).task => ~Running(u)
      BY <2>2, Served
    <3>2. \A u \in Tasks : Settled(u)
      BY <3>1 DEF Settled
    <3> QED
      BY <2>2, <3>2 DEF SerialControl, CleanStore
  <2> QED
    BY <1>1, <2>1, <2>2 DEF ServeBegin
<1>2. CASE ServeRead
  BY <1>2 DEF ServeRead
<1>3. CASE ServeWrite
  BY <1>3 DEF ServeWrite
<1>4. CASE ServeAppend \/ ServePropose
  BY <1>4 DEF ServeAppend, ServePropose, ServeInsert
<1>5. CASE ServeCommit
  BY <1>5 DEF ServeCommit
<1>6. CASE ServeRollback
  BY <1>6 DEF ServeRollback
<1>7. CASE ServeRefused
  BY <1>7 DEF ServeRefused, OneAtATime
<1> QED
  BY <1>1, <1>2, <1>3, <1>4, <1>5, <1>6, <1>7 DEF Connection

LEMMA ControlServeStep ==
  ASSUME TypeInv, SerialControl, OneAtATime, Connection
  PROVE  SerialControl'
<1>1. PICK s \in Statements, a \in {"ok", "error"} :
        /\ Serve(s, a)
        /\ a = "error" => s \in Within
        /\ s \in Closers /\ a = "ok" => inTxn' = FALSE /\ working' = committed'
  BY ServedClean
<1>2. PICK h \in Tasks :
      /\ h = Head(queue).task /\ Running(h) /\ Awaiting(h, s)
      /\ pc' = pc /\ reply' = [reply EXCEPT ![h] = a]
      /\ \A u \in Tasks : u # h => ~Running(u)
  BY <1>1, Served
<1>3. reply \in [Tasks -> {"none", "ok", "error"}] /\ queue \in Seq(Statement) /\ queue # <<>>
      /\ queue' = Tail(queue)
  BY <1>1 DEF TypeInv, TypeOK, Serve, Due
<1>4. OneRuns' /\ AllOuter' /\ NoGap'
  BY ConnectionFrame DEF SerialControl, OneRuns, AllOuter, NoGap, Running, InTransaction,
                         Inside, Entering
<1>5. QueueRuns'
  BY <1>2, <1>3 DEF SerialControl, QueueRuns, Running
<1>6. ErrorsWithin'
  BY <1>1, <1>2, <1>3 DEF SerialControl, ErrorsWithin, Awaiting
<1>7. CleanStore'
  <2>1. CASE s \in Closers /\ a = "ok"
    BY <1>1, <2>1 DEF CleanStore
  <2>2. CASE ~(s \in Closers /\ a = "ok")
    <3>1. pc'[h] = s /\ reply'[h] = a
      BY <1>2, <1>3 DEF Awaiting
    <3>2. ~Settled(h)'
      BY <1>2, <2>2, <3>1 DEF Settled, Awaiting, Answered, Running, Statements
    <3> QED
      BY <1>2, <3>2 DEF CleanStore
  <2> QED
    BY <2>1, <2>2
<1> QED
  BY <1>4, <1>5, <1>6, <1>7 DEF SerialControl

\* The steps of a task that runs alone: where it comes from, where it goes and
\* what its caller is told.
To(t, x, i, r) == pc'[t] = x /\ at'[t] = i /\ outcome'[t] = r
MovesOn(t) ==
  \/ pc[t] = "idle" /\ lock = NoTask /\ role'[t] = "outer" /\ To(t, "begin", at[t], "none")
  \/ Answered(t, "begin") /\ To(t, StatementFor(t, at[t]), at[t], "none")
  \/ /\ Answered(t, "read")
     /\ \/ seen[t] # Absent /\ To(t, "write", at[t], "none")
        \/ To(t, "rollback", at[t], "none")
        \/ /\ seen[t] = Absent /\ Delta(t).op = "delete"
           /\ To(t, StatementFor(t, at[t] + 1), at[t] + 1, "none")
  \/ Answered(t, "write") /\ To(t, StatementFor(t, at[t] + 1), at[t] + 1, "none")
  \/ pc[t] \in Within /\ reply[t] = "error" /\ To(t, "rollback", at[t], "none")
  \/ Answered(t, "rollback") /\ To(t, "end", at[t], "error")
  \/ Answered(t, "append") /\ To(t, "commit", at[t], "none")
  \/ /\ Answered(t, "commit") \/ pc[t] = "ledger"
     /\ \/ To(t, "ledger", at[t], "none")
        \/ t \in Proposing /\ To(t, "propose", at[t], "none")
        \/ \E r \in {"ok", "late"} : To(t, "end", at[t], r)
  \/ Answered(t, "propose") /\ To(t, "autocommit", at[t], "none")
  \/ Answered(t, "autocommit") /\ To(t, "end", at[t], "ok")
Alone(t) ==
  /\ pc[t] # "end" /\ outcome[t] = "none" /\ reply'[t] = "none"
  /\ pc[t] # "idle" => role' = role
  /\ seen' = seen
  /\ lock' = t \/ pc'[t] = "end"
  /\ \A u \in Tasks : u # t => at'[u] = at[u]
  /\ ledger' \subseteq ledger \union {entry \in Tasks \X Nat : entry[1] = t /\ pc[t] = "ledger"}

LEMMA Moves ==
  ASSUME TypeInv, OwnerInv, SerialControl, OneAtATime, NEW t \in Tasks,
         Start(t) \/ Resume(t) \/ LedgerFails(t) \/ Cancel(t)
  PROVE  MovesOn(t) /\ Alone(t)
<1>a. /\ pc \in [Tasks -> Statements \union {"idle", "ledger", "end"}]
      /\ outcome \in [Tasks -> Outcomes] /\ reply \in [Tasks -> {"none", "ok", "error"}]
      /\ role \in [Tasks -> {"none", "outer", "nested"}]
      /\ at \in [Tasks -> Nat \ {0}] /\ ledger \subseteq Tasks \X Nat
      /\ applied \in [Tasks -> SUBSET Nat]
  BY DEF TypeInv, TypeOK
<1>c. pc[t] # "end" => outcome[t] = "none"
  BY DEF OwnerInv, OutcomeAtEnd
<1>o. /\ pc[t] # "idle" => role[t] = "outer"
      /\ Running(t) => lock = t
      /\ reply[t] = "error" => pc[t] \in Within
      /\ reply[t] # "none" => pc[t] \in Statements
      /\ t \in Locked /\ t \notin Cancellable
  BY DEF SerialControl, AllOuter, OneRuns, ErrorsWithin, TypeInv, QueueInv, RepliesAwaited,
         OneAtATime
<1>d. \A s, a : PickUp(t, s, a) => pc[t] = s /\ reply[t] = a /\ reply'[t] = "none"
  BY <1>a DEF PickUp
<1>e. \A s : Submit(t, s) => pc'[t] = s /\ outcome' = outcome /\ lock' = lock
  BY <1>a DEF Submit
<1>f. \A r : Finish(t, r) => pc'[t] = "end" /\ outcome'[t] = r
  BY <1>a DEF Finish
<1>g. AfterLedger(t) =>
        \/ t \in Proposing /\ pc'[t] = "propose" /\ outcome' = outcome /\ lock' = lock
        \/ pc'[t] = "end" /\ outcome'[t] = "ok"
  BY <1>e, <1>f DEF AfterLedger
<1>h. Leave(t) =>
        \/ pc'[t] = "ledger" /\ outcome' = outcome /\ lock' = lock
        \/ t \in Proposing /\ pc'[t] = "propose" /\ outcome' = outcome /\ lock' = lock
        \/ pc'[t] = "end" /\ outcome'[t] = "ok"
  BY <1>a, <1>g DEF Leave
<1>i. Raise(t) /\ pc[t] # "idle" => pc'[t] = "rollback" /\ outcome' = outcome /\ lock' = lock
  BY <1>e, <1>o DEF Raise
<1>j. NextDelta(t) => /\ pc'[t] = StatementFor(t, at[t] + 1) /\ outcome' = outcome /\ lock' = lock
                      /\ at'[t] = at[t] + 1 /\ \A u \in Tasks : u # t => at'[u] = at[u]
  BY <1>a, <1>e DEF NextDelta
<1> USE DEF MovesOn, Alone, To, Answered
<1>1. CASE Start(t)
  <2>1. /\ pc[t] = "idle" /\ lock = NoTask /\ lock' = t
        /\ reply' = reply /\ outcome' = outcome /\ at' = at /\ seen' = seen /\ ledger' = ledger
    BY <1>1, <1>o DEF Start
  <2>2. reply[t] = "none"
    BY <1>a, <1>o, <2>1 DEF Statements
  <2>3. depth = 0
    <3>1. \A u \in Tasks : ~Running(u)
      BY <2>1, TasksAssumption DEF SerialControl, OneRuns
    <3>2. InTransaction = {}
      BY <3>1 DEF InTransaction, Inside, Entering, BodyStates, Running
    <3> QED
      BY <3>2, FS_EmptySet DEF SerialControl, NoGap
  <2>4. pc'[t] = "begin" /\ role'[t] = "outer"
    BY <1>1, <1>a, <2>3 DEF Start
  <2> QED
    BY <1>c, <2>1, <2>2, <2>4
<1>2. CASE Began(t)
  <2>1. /\ Answered(t, "begin") /\ reply'[t] = "none" /\ lock = t
        /\ Submit(t, StatementFor(t, at[t]))
        /\ role' = role /\ at' = at /\ seen' = seen /\ ledger' = ledger
    BY <1>2, <1>d, <1>o DEF Began, progress, Running
  <2> QED
    BY <1>c, <1>e, <2>1
<1>3. CASE BeginFailed(t)
  BY <1>3, <1>o DEF BeginFailed, PickUp, Within
<1>4. CASE RolledBack(t)
  <2>1. /\ Answered(t, "rollback") /\ reply'[t] = "none" /\ pc'[t] = "end"
        /\ outcome'[t] = "error"
        /\ role' = role /\ at' = at /\ seen' = seen /\ ledger' = ledger
    BY <1>4, <1>d, <1>f DEF RolledBack, progress
  <2> QED
    BY <1>c, <2>1
<1>5. CASE ReadDone(t)
  <2>1. /\ Answered(t, "read") /\ reply'[t] = "none" /\ lock = t
        /\ role' = role /\ seen' = seen /\ ledger' = ledger
    BY <1>5, <1>d, <1>o DEF ReadDone, Running
  <2>2. \/ seen[t] # Absent /\ Submit(t, "write") /\ at' = at
        \/ Raise(t) /\ at' = at
        \/ seen[t] = Absent /\ Delta(t).op = "delete" /\ NextDelta(t)
    BY <1>5 DEF ReadDone
  <2> QED
    BY <1>c, <1>e, <1>i, <1>j, <2>1, <2>2
<1>6. CASE WriteDone(t)
  <2>1. /\ pc[t] = "write" /\ reply'[t] = "none" /\ lock = t
        /\ role' = role /\ seen' = seen /\ ledger' = ledger
    BY <1>6, <1>d, <1>o DEF WriteDone, Running
  <2>2. \/ reply[t] = "ok" /\ NextDelta(t)
        \/ reply[t] = "error" /\ Raise(t) /\ at' = at
    BY <1>6, <1>d DEF WriteDone
  <2> QED
    BY <1>c, <1>i, <1>j, <2>1, <2>2 DEF Within
<1>7. CASE Appended(t)
  <2>1. /\ Answered(t, "append") /\ reply'[t] = "none" /\ lock = t
        /\ role' = role /\ at' = at /\ seen' = seen /\ ledger' = ledger
    BY <1>7, <1>d, <1>o DEF Appended, progress, Running
  <2>2. Submit(t, "commit")
    BY <1>7, <1>o, <2>1 DEF Appended
  <2> QED
    BY <1>c, <1>e, <2>1, <2>2
<1>8. CASE CommitDone(t)
  <2>1. /\ Answered(t, "commit") /\ reply'[t] = "none" /\ lock = t /\ Leave(t)
        /\ role' = role /\ at' = at /\ seen' = seen /\ ledger' = ledger
    BY <1>8, <1>d, <1>o DEF CommitDone, progress, Running
  <2> QED
    BY <1>c, <1>h, <2>1
<1>9. CASE LedgerAppend(t)
  <2>1. /\ pc[t] = "ledger" /\ reply'[t] = "none" /\ lock = t
        /\ role' = role /\ at' = at /\ seen' = seen
    BY <1>9, <1>a, <1>o DEF LedgerAppend, progress, Running, Statements
  <2>2. ledger' \subseteq ledger \union {entry \in Tasks \X Nat : entry[1] = t /\ pc[t] = "ledger"}
    BY <1>9, <1>a, <2>1 DEF LedgerAppend, Unledgered
  <2>3. (pc' = pc /\ outcome' = outcome /\ lock' = lock) \/ AfterLedger(t)
    BY <1>9 DEF LedgerAppend
  <2> QED
    BY <1>c, <1>g, <2>1, <2>2, <2>3
<1>10. CASE LedgerFails(t)
  <2>1. /\ pc[t] = "ledger" /\ reply'[t] = "none" /\ pc'[t] = "end" /\ outcome'[t] = "late"
        /\ role' = role /\ at' = at /\ seen' = seen /\ ledger' = ledger
    BY <1>10, <1>a, <1>f, <1>o DEF LedgerFails, progress, Statements
  <2> QED
    BY <1>c, <2>1
<1>11. CASE Proposed(t)
  <2>1. /\ Answered(t, "propose") /\ reply'[t] = "none" /\ lock = t
        /\ role' = role /\ at' = at /\ seen' = seen /\ ledger' = ledger
    BY <1>11, <1>d, <1>o DEF Proposed, progress, Running
  <2>2. depth = 0
    <3>1. \A u \in Tasks : u # t => ~Running(u)
      BY <2>1 DEF SerialControl, OneRuns
    <3>2. InTransaction = {}
      BY <2>1, <3>1 DEF InTransaction, Inside, Entering, BodyStates, Running
    <3> QED
      BY <3>2, FS_EmptySet DEF SerialControl, NoGap
  <2>3. Submit(t, "autocommit")
    BY <1>11, <2>2 DEF Proposed
  <2> QED
    BY <1>c, <1>e, <2>1, <2>3
<1>12. CASE AutoCommitted(t)
  <2>1. /\ Answered(t, "autocommit") /\ reply'[t] = "none" /\ pc'[t] = "end"
        /\ outcome'[t] = "ok"
        /\ role' = role /\ at' = at /\ seen' = seen /\ ledger' = ledger
    BY <1>12, <1>d, <1>f DEF AutoCommitted, progress
  <2> QED
    BY <1>c, <2>1
<1>13. CASE Refused(t)
  <2>1. /\ reply[t] = "error" /\ pc[t] \in Within /\ reply'[t] = "none" /\ lock = t
        /\ role' = role /\ at' = at /\ seen' = seen /\ ledger' = ledger
    BY <1>13, <1>d, <1>o DEF Refused, progress, Running, Within
  <2>2. Raise(t)
    BY <1>13, <2>1 DEF Refused, PickUp, Within
  <2> QED
    BY <1>c, <1>i, <2>1, <2>2 DEF Within
<1>14. CASE Cancel(t)
  BY <1>14, <1>o DEF Cancel
<1> QED
  BY <1>1, <1>2, <1>3, <1>4, <1>5, <1>6, <1>7, <1>8, <1>9, <1>10, <1>11, <1>12, <1>13, <1>14
     DEF Resume

LEMMA ControlTaskStep ==
  ASSUME TypeInv, CountInv, OwnerInv, SerialControl, OneAtATime, NEW t \in Tasks,
         Start(t) \/ Resume(t) \/ LedgerFails(t) \/ Cancel(t)
  PROVE  SerialControl'
<1>a. /\ pc \in [Tasks -> Statements \union {"idle", "ledger", "end"}]
      /\ reply \in [Tasks -> {"none", "ok", "error"}] /\ at[t] \in Nat \ {0}
      /\ queue \in Seq(Statement)
  BY DEF TypeInv, TypeOK
<1>b. StatementFor(t, at[t]) \in {"append", "read", "write"}
      /\ StatementFor(t, at[t] + 1) \in {"append", "read", "write"}
  BY <1>a, StatementForType
<1>m. MovesOn(t) /\ Alone(t)
  BY Moves
<1>k. /\ UNCHANGED <<inTxn, working, committed>>
      /\ \A u \in Tasks : u # t => pc'[u] = pc[u] /\ role'[u] = role[u] /\ reply'[u] = reply[u]
  BY OthersKeep
<1>r. /\ pc[t] # "end" /\ (pc[t] # "idle" => Running(t) /\ lock = t)
      /\ pc[t] = "idle" => lock = NoTask
      /\ pc'[t] # "idle"
  BY <1>m, <1>b DEF MovesOn, Alone, To, Answered, SerialControl, OneRuns, Running, Within
<1>1. OneRuns'
  <2>1. \A u \in Tasks : u # t => ~Running(u)
    BY <1>r, TasksAssumption DEF SerialControl, OneRuns
  <2>2. \A u \in Tasks : Running(u)' => u = t
    BY <1>k, <2>1 DEF Running
  <2> QED
    BY <1>m, <2>2 DEF OneRuns, Running, Alone
<1>2. AllOuter'
  BY <1>m, <1>k, <1>r DEF SerialControl, AllOuter, MovesOn, Alone, Answered, Within
<1>3. NoGap'
  <2>1. ~Drops(t)
    <3>1. CASE pc[t] = "begin"
      <4>1. pc'[t] \in {"append", "read", "write"}
        BY <1>b, <1>m, <3>1 DEF MovesOn, To, Answered, Within
      <4>2. t \in InTransaction'
        BY <4>1 DEF InTransaction, Inside, BodyStates
      <4> QED
        BY <4>2 DEF Drops
    <3> QED
      BY <3>1 DEF Drops, Entering
  <2>2. /\ depth \in Int /\ Cardinality(InTransaction) \in Nat
        /\ depth' \in Int /\ Cardinality(InTransaction') \in Nat
    <3>1. TypeInv'
      BY TaskType
    <3> QED
      BY <3>1, MembersFinite, FS_CardinalityType DEF TypeInv, TypeOK
  <2>3. depth' - Cardinality(InTransaction') = depth - Cardinality(InTransaction)
    BY <2>1, TaskMoves, GapStep
  <2> QED
    BY <2>2, <2>3 DEF SerialControl, NoGap
<1>4. QueueRuns'
  <2>0. NoStatementOf(t)
    <3>1. pc[t] \notin Statements \union {"end"} \/ reply[t] # "none"
      BY <1>m, <1>r DEF MovesOn, Answered, Statements
    <3> QED
      BY <3>1, NothingQueued
  <2>1. \A i \in 1..Len(queue) : queue[i].task \in Tasks /\ queue[i].task # t
    <3>1. \A i \in 1..Len(queue) : queue[i] \in Statement
      BY <1>a
    <3> QED
      BY <2>0, <3>1 DEF Statement, NoStatementOf
  <2>2. \A i \in 1..Len(queue) : pc'[queue[i].task] \notin {"idle", "end"}
    <3>1. \A i \in 1..Len(queue) : pc[queue[i].task] \notin {"idle", "end"}
      BY DEF SerialControl, QueueRuns, Running
    <3>2. \A i \in 1..Len(queue) : pc'[queue[i].task] = pc[queue[i].task]
      BY <1>k, <2>1
    <3> QED
      BY <3>1, <3>2
  <2>3. CASE queue' = queue
    BY <2>2, <2>3 DEF QueueRuns, Running
  <2>4. ASSUME NEW s \in Statements, Submits(t, s) PROVE QueueRuns'
    <3>1. [task |-> t, op |-> s] \in Statement
      BY DEF Statement
    <3>2. /\ Len(queue') = Len(queue) + 1
          /\ \A i \in 1..Len(queue') :
               queue'[i] = IF i = Len(queue') THEN [task |-> t, op |-> s] ELSE queue[i]
      BY <1>a, <2>4, <3>1 DEF Submits
    <3>3. pc'[t] \notin {"idle", "end"}
      BY <1>a, <2>4 DEF Submits, Statements
    <3> QED
      BY <1>a, <2>2, <3>2, <3>3 DEF QueueRuns, Running
  <2> QED
    BY <2>3, <2>4, NewStatement
<1>5. ErrorsWithin'
  BY <1>m, <1>k DEF SerialControl, ErrorsWithin, Alone
<1>6. CleanStore'
  <2>1. Settled(t)' => Settled(t)
    <3>1. Settled(t)' => pc'[t] \in {"end", "ledger", "begin", "propose"}
      BY <1>m, <1>r DEF Settled, Alone, Answered, Awaiting, Running
    <3>2. pc'[t] \in {"end", "ledger", "begin", "propose"} =>
            \/ pc[t] \in {"idle", "ledger"}
            \/ pc[t] \in {"rollback", "commit", "autocommit"} /\ reply[t] = "ok"
      BY <1>b, <1>m DEF MovesOn, To, Answered
    <3> QED
      BY <3>1, <3>2 DEF Settled, Answered, Running, Closers
  <2>2. \A u \in Tasks : u # t => (Settled(u)' <=> Settled(u))
    BY <1>k DEF Settled, Running, Answered, Awaiting
  <2> QED
    BY <1>k, <2>1, <2>2 DEF SerialControl, CleanStore
<1> QED
  BY <1>1, <1>2, <1>3, <1>4, <1>5, <1>6 DEF SerialControl

LEMMA ControlRestartStep ==
  ASSUME TypeInv, SerialControl, Restart
  PROVE  SerialControl'
<1>1. /\ depth' = 0 /\ inTxn' = FALSE /\ working' = committed' /\ queue' = <<>>
      /\ reply' = [t \in Tasks |-> "none"] /\ role' = role
      /\ \A t \in Tasks : pc'[t] \in {"idle", "end"} /\ (pc[t] = "idle" => pc'[t] = "idle")
  BY DEF Restart, progress, Running, TypeInv, TypeOK
<1>2. NoGap'
  BY <1>1, RestartMembers, FS_EmptySet DEF NoGap
<1> QED
  BY <1>1, <1>2 DEF SerialControl, OneRuns, AllOuter, QueueRuns, ErrorsWithin, CleanStore,
                    Running

LEMMA ControlStep ==
  TypeInv /\ CountInv /\ OwnerInv /\ OneAtATime /\ SerialControl /\ [Next]_vars
    => SerialControl'
<1> SUFFICES ASSUME TypeInv, CountInv, OwnerInv, OneAtATime, SerialControl, [Next]_vars
             PROVE  SerialControl'
  OBVIOUS
<1>1. CASE Connection
  BY <1>1, ControlServeStep
<1>2. CASE \E t \in Tasks : Start(t) \/ Resume(t) \/ LedgerFails(t) \/ Cancel(t)
  BY <1>2, ControlTaskStep
<1>3. CASE Restart
  BY <1>3, ControlRestartStep
<1>4. CASE UNCHANGED vars
  BY <1>4 DEF vars, db, progress, SerialControl, OneRuns, AllOuter, NoGap, QueueRuns,
     ErrorsWithin, CleanStore, Settled, Running, Answered, Awaiting, InTransaction, Inside,
     Entering
<1> QED
  BY <1>1, <1>2, <1>3, <1>4 DEF Next, Finished

LEMMA ControlAlways ==
  OneAtATime => (Spec => [](TypeInv /\ CountInv /\ OwnerInv /\ SerialControl))
<1> DEFINE Inv == OneAtATime /\ TypeInv /\ CountInv /\ OwnerInv /\ SerialControl
<1>1. Init /\ OneAtATime => Inv
  BY TypeInit, CountInit, OwnerInit, ControlInit
<1>2. Inv /\ [Next]_vars => Inv'
  BY TypeStep, CountStep, OwnerStep, ControlStep DEF OneAtATime
<1>3. OneAtATime /\ Spec => []Inv
  BY <1>1, <1>2, PTL DEF Spec
<1> QED
  BY <1>3, PTL

\* Tasks that take the lock and are not cancelled are told of success only when
\* their event is durable: transaction() "commits on clean exit" (sqlite.py).
THEOREM SerialExitsAreDurable == OneAtATime => (Spec => []CleanExitIsDurable)
<1>1. TypeInv /\ OwnerInv /\ SerialControl => CleanExitIsDurable
  <2> SUFFICES ASSUME OwnerInv, SerialControl, NEW t \in Tasks, outcome[t] \in {"ok", "late"}
               PROVE  <<t, "event">> \in committed.log
    BY DEF CleanExitIsDurable
  <2>1. role[t] = "outer"
    BY DEF OwnerInv, OutcomeAtEnd, SerialControl, AllOuter
  <2> QED
    BY <2>1 DEF OwnerInv, EventDurable
<1> QED
  BY <1>1, ControlAlways, PTL

\* The ledger, written after the transaction, holds no mutation whose event is
\* not durable (state/engine.py, execute()).
LEMMA LogGrows ==
  ASSUME TypeInv, OwnerInv, [Next]_vars
  PROVE  committed.log \subseteq committed'.log
<1>1. CASE Connection
  BY <1>1, ServeEffect DEF OwnerInv, LogKept, Closes, Works
<1>2. CASE \E t \in Tasks : Start(t) \/ Resume(t) \/ LedgerFails(t) \/ Cancel(t)
  BY <1>2, OthersKeep
<1>3. CASE Restart \/ UNCHANGED vars
  BY <1>3 DEF Restart, vars, db
<1> QED
  BY <1>1, <1>2, <1>3 DEF Next, Finished

LEMMA LedgerStep ==
  ASSUME TypeInv, OwnerInv, SerialControl, OneAtATime, LedgerFollowsStore, [Next]_vars
  PROVE  LedgerFollowsStore'
<1>1. committed.log \subseteq committed'.log
  BY LogGrows
<1>2. CASE ledger' = ledger
  BY <1>1, <1>2 DEF LedgerFollowsStore
<1>3. ASSUME NEW t \in Tasks, Start(t) \/ Resume(t) \/ LedgerFails(t) \/ Cancel(t)
      PROVE  LedgerFollowsStore'
  <2>1. ledger' \subseteq ledger \union {entry \in Tasks \X Nat : entry[1] = t /\ pc[t] = "ledger"}
    BY <1>3, Moves DEF Alone
  <2>2. pc[t] = "ledger" => <<t, "event">> \in committed.log
    BY DEF OwnerInv, EventDurable, SerialControl, AllOuter
  <2> QED
    BY <1>1, <2>1, <2>2 DEF LedgerFollowsStore
<1>4. CASE Connection \/ Restart \/ UNCHANGED vars
  BY <1>2, <1>4, ConnectionFrame DEF Restart, vars
<1> QED
  BY <1>3, <1>4 DEF Next, Finished

\* The audit log is never ahead of the world when actions run one at a time.
THEOREM SerialLedgerFollows == OneAtATime => (Spec => []LedgerFollowsStore)
<1>1. Init => LedgerFollowsStore
  BY DEF Init, LedgerFollowsStore
<1>2. OneAtATime /\ TypeInv /\ OwnerInv /\ SerialControl /\ LedgerFollowsStore /\ [Next]_vars
        => LedgerFollowsStore'
  BY LedgerStep
<1>3. OneAtATime <=> OneAtATime'
  BY DEF OneAtATime
<1>4. OneAtATime /\ Spec => []LedgerFollowsStore
  BY <1>1, <1>2, <1>3, ControlAlways, PTL DEF Spec
<1> QED
  BY <1>4, PTL

-----------------------------------------------------------------------------
(* The rows after each delta.  Prefixes is defined by recursion on the     *)
(* number of deltas; that it has a solution is shown by taking the least   *)
(* number for which there were none.                                       *)

Below == {mn \in Nat \X Nat : mn[1] < mn[2]}

LEMMA LeastNatural ==
  ASSUME NEW T \in SUBSET Nat, T # {}
  PROVE  \E n \in T : \A m \in T : n <= m
<1>1. IsWellFoundedOn(Below, Nat)
  BY NatLessThanWellFounded DEF OpToRel, Below
<1>2. PICK n \in T : \A m \in T : <<m, n>> \notin Below
  BY <1>1, WFMin
<1>3. \A m \in T : ~(m < n)
  BY <1>2 DEF Below
<1> QED
  BY <1>3

\* f gives the rows after each of the first n deltas of t.
RowsUpTo(f, rows, t, n) ==
  f = [i \in 0..n |-> IF i = 0 THEN rows ELSE Atomic!After(f[i - 1], t, Deltas[t][i])]

LEMMA RowsExtend ==
  ASSUME NEW rows, NEW t \in Tasks, NEW n \in Nat, NEW f, RowsUpTo(f, rows, t, n)
  PROVE  \E g : RowsUpTo(g, rows, t, n + 1)
<1> DEFINE g == [i \in 0..(n + 1) |->
                   IF i = 0 THEN rows ELSE Atomic!After(f[i - 1], t, Deltas[t][i])]
<1>1. \A i \in 0..n : i \in 0..(n + 1)
  OBVIOUS
<1>2. \A i \in 0..n : g[i] = f[i]
  BY <1>1 DEF RowsUpTo
<1>3. \A i \in 0..(n + 1) : i # 0 => i - 1 \in 0..n
  OBVIOUS
<1>4. g = [i \in 0..(n + 1) |->
             IF i = 0 THEN rows ELSE Atomic!After(g[i - 1], t, Deltas[t][i])]
  <2>1. \A i \in 0..(n + 1) :
          g[i] = IF i = 0 THEN rows ELSE Atomic!After(f[i - 1], t, Deltas[t][i])
    OBVIOUS
  <2>2. DOMAIN g = 0..(n + 1) /\ g = [i \in 0..(n + 1) |-> g[i]]
    OBVIOUS
  <2> HIDE DEF g
  <2>3. \A i \in 0..(n + 1) :
          g[i] = IF i = 0 THEN rows ELSE Atomic!After(g[i - 1], t, Deltas[t][i])
    BY <1>2, <1>3, <2>1
  <2> QED
    BY <2>2, <2>3
<1> HIDE DEF g
<1> QED
  BY <1>4 DEF RowsUpTo

LEMMA RowsExist ==
  ASSUME NEW rows, NEW t \in Tasks, NEW n \in Nat
  PROVE  \E f : RowsUpTo(f, rows, t, n)
<1> DEFINE Solved(m) == \E f : RowsUpTo(f, rows, t, m)
<1>1. Solved(0)
  <2>1. RowsUpTo([i \in 0..0 |-> rows], rows, t, 0)
    BY DEF RowsUpTo
  <2> QED
    BY <2>1
<1>2. \A m \in Nat : Solved(m) => Solved(m + 1)
  BY RowsExtend
<1> HIDE DEF Solved
<1>3. \A m \in Nat : Solved(m)
  <2> SUFFICES ASSUME {m \in Nat : ~Solved(m)} # {} PROVE FALSE
    OBVIOUS
  <2>1. PICK m \in {k \in Nat : ~Solved(k)} : \A k \in {k \in Nat : ~Solved(k)} : m <= k
    BY LeastNatural
  <2>2. m - 1 \in Nat /\ Solved(m - 1)
    BY <1>1, <2>1
  <2> QED
    BY <1>2, <2>1, <2>2
<1> QED
  BY <1>3 DEF Solved

LEMMA PrefixesAre ==
  ASSUME NEW rows, NEW t \in Tasks
  PROVE  LET P == Atomic!Prefixes(rows, t)
         IN  /\ P[0] = rows
             /\ \A i \in 1..Len(Deltas[t]) :
                  P[i] = Atomic!After(P[i - 1], t, Deltas[t][i])
<1> DEFINE P == Atomic!Prefixes(rows, t)
<1>1. Len(Deltas[t]) \in Nat
  BY DeltasAssumption
<1>2. PICK f : RowsUpTo(f, rows, t, Len(Deltas[t]))
  BY <1>1, RowsExist
<1>3. RowsUpTo(P, rows, t, Len(Deltas[t]))
  BY <1>2 DEF RowsUpTo, Atomic!Prefixes
<1> HIDE DEF P
<1> QED
  BY <1>1, <1>3 DEF RowsUpTo, P

-----------------------------------------------------------------------------
(* How far the running task has come.                                      *)

\* Where a task is among its deltas.
AtBounds ==
  \A t \in Tasks :
    /\ pc[t] \in {"idle", "begin"} => at[t] = 1
    /\ pc[t] \in {"append", "commit"} => at[t] = Len(Deltas[t]) + 1

\* The task in the body of its transaction has applied the deltas before the
\* one it is at, or that one too, to the committed rows, each accepted.
InBody(t) ==
  \/ Answered(t, "begin")
  \/ pc[t] \in {"read", "write", "append"} /\ reply[t] # "error"
  \/ Awaiting(t, "commit")
Written(t) == IF Answered(t, "write") THEN at[t] ELSE at[t] - 1
RowsAfter(t, n) ==
  LET rows == Atomic!Prefixes(committed.ents, t)
  IN  /\ n \in 0..Len(Deltas[t])
      /\ working.ents = rows[n]
      /\ \A k \in 1..n : Atomic!Accepts(rows[k - 1], Deltas[t][k])
RowsFollow == \A t \in Tasks : InBody(t) => RowsAfter(t, Written(t))

\* What it has read is the row it will write.
SeenRow ==
  \A t \in Tasks :
    Answered(t, "read") \/ (Awaiting(t, "write") /\ Delta(t).op # "create") =>
      /\ seen[t] = working.ents[Delta(t).entity]
      /\ pc[t] = "write" => seen[t] # Absent

\* Beyond the committed log the connection sees the event of the task only.
LogFollows ==
  \A t \in Tasks :
    /\ Answered(t, "begin") \/ pc[t] \in {"read", "write"} \/ Awaiting(t, "append")
         => working.log = committed.log
    /\ Answered(t, "append") \/ Awaiting(t, "commit")
         => working.log = committed.log \union {<<t, "event">>}
ProposalFollows ==
  \A t \in Tasks :
    /\ pc[t] \in {"propose", "autocommit"} => t \in Proposing
    /\ Answered(t, "propose") \/ Awaiting(t, "autocommit")
         => working = [committed EXCEPT !.log = @ \union {<<t, "proposed">>}]

\* The event of a task that has not committed is not in the log.
EventNew ==
  \A t \in Tasks :
    /\ pc[t] \in {"idle", "begin", "read", "write", "append", "rollback"}
         => <<t, "event">> \notin committed.log
    /\ pc[t] = "commit" /\ reply[t] # "ok" => <<t, "event">> \notin committed.log

SerialInv == AtBounds /\ RowsFollow /\ SeenRow /\ LogFollows /\ ProposalFollows /\ EventNew

LEMMA ProgressInit == Init => SerialInv
<1> SUFFICES ASSUME Init PROVE SerialInv
  OBVIOUS
<1>1. /\ \A t \in Tasks : pc[t] = "idle" /\ reply[t] = "none" /\ at[t] = 1
      /\ committed.log = {}
  BY DEF Init
<1> QED
  BY <1>1 DEF SerialInv, AtBounds, RowsFollow, SeenRow, LogFollows, ProposalFollows, EventNew,
              InBody, Answered, Awaiting

\* What a statement does for the task that waits for it, when it runs alone.
ServedFor(h, s, a) ==
  /\ h \in Tasks /\ Running(h) /\ Awaiting(h, s)
  /\ pc' = pc /\ reply' = [reply EXCEPT ![h] = a]
  /\ \A u \in Tasks : u # h => ~Running(u)
  /\ s \in {"read", "write"} => at[h] \in 1..Len(Deltas[h])
BeginsOrFails(s, a) ==
  /\ <<s, a>> = <<"begin", "ok">> \/ (a = "error" /\ s \in Within)
  /\ UNCHANGED <<working, committed, seen>>
Reads(h, s, a) ==
  /\ s = "read" /\ a = "ok"
  /\ seen' = [seen EXCEPT ![h] = working.ents[Delta(h).entity]]
  /\ UNCHANGED <<working, committed>>
Writes(h, s, a) ==
  /\ s = "write" /\ a = "ok"
  /\ Atomic!Accepts(working.ents, Delta(h))
  /\ working' = [working EXCEPT !.ents = Atomic!After(working.ents, h, Delta(h))]
  /\ UNCHANGED <<committed, seen>>
Inserts(h, s, a) ==
  /\ a = "ok"
  /\ \E k \in {"event", "proposed"} :
       /\ s = IF k = "event" THEN "append" ELSE "propose"
       /\ working' = [working EXCEPT !.log = @ \union {<<h, k>>}]
  /\ UNCHANGED <<committed, seen>>
Commits(s, a) ==
  /\ s \in {"commit", "autocommit"} /\ a = "ok"
  /\ committed' = working
  /\ UNCHANGED <<working, seen>>
RollsBack(s, a) ==
  /\ s = "rollback" /\ a = "ok"
  /\ working' = committed
  /\ UNCHANGED <<committed, seen>>

\* A write does what the delta says: the row is still the one that was read.
LEMMA WriteEffect ==
  ASSUME TypeInv, SeenRow, NEW h \in Tasks, Awaiting(h, "write"),
         h = Head(queue).task, ServeWrite, at[h] \in 1..Len(Deltas[h])
  PROVE  \E a \in {"ok", "error"} :
           Serve("write", a) /\ (BeginsOrFails("write", a) \/ Writes(h, "write", a))
<1>1. working \in Store /\ Delta(h) \in StateDelta
  BY DeltasAssumption DEF TypeInv, TypeOK, Delta
<1> DEFINE e == Delta(h).entity
           row == working.ents[e]
<1>2. e \in Entities /\ Delta(h).op \in {"create", "update", "delete"}
  BY <1>1 DEF StateDelta
<1>3. /\ DOMAIN working.ents = Entities
      /\ \A r : [working EXCEPT !.ents[e] = r] = [working EXCEPT !.ents = [working.ents EXCEPT ![e] = r]]
  BY <1>1, <1>2 DEF Store
<1>4. Delta(h).op # "create" => seen[h] = row /\ row # Absent
  BY DEF SeenRow, Awaiting
<1>5. UNCHANGED <<committed, seen>>
  BY DEF ServeWrite
<1>6. CASE Delta(h).op = "create" /\ row = Absent
  <2>1. Serve("write", "ok") /\ working' = [working EXCEPT !.ents[e] = {h}]
    BY <1>6 DEF ServeWrite
  <2>2. Atomic!Accepts(working.ents, Delta(h))
    BY <1>6 DEF Atomic!Accepts, Atomic!Absent, Absent
  <2>3. Atomic!After(working.ents, h, Delta(h)) = [working.ents EXCEPT ![e] = {h}]
    BY <1>6 DEF Atomic!After
  <2> QED
    BY <1>3, <1>5, <2>1, <2>2, <2>3 DEF Writes
<1>7. CASE Delta(h).op = "create" /\ row # Absent
  BY <1>5, <1>7 DEF ServeWrite, BeginsOrFails, Within
<1>8. CASE Delta(h).op = "update"
  <2>1. Serve("write", "ok") /\ working' = [working EXCEPT !.ents[e] = row \union {h}]
    BY <1>4, <1>8 DEF ServeWrite
  <2>2. Atomic!Accepts(working.ents, Delta(h))
    BY <1>4, <1>8 DEF Atomic!Accepts, Atomic!Absent, Absent
  <2>3. Atomic!After(working.ents, h, Delta(h)) = [working.ents EXCEPT ![e] = row \union {h}]
    BY <1>8 DEF Atomic!After
  <2> QED
    BY <1>3, <1>5, <2>1, <2>2, <2>3 DEF Writes
<1>9. CASE Delta(h).op = "delete"
  <2>1. Serve("write", "ok") /\ working' = [working EXCEPT !.ents[e] = Absent]
    BY <1>9 DEF ServeWrite
  <2>2. Atomic!Accepts(working.ents, Delta(h))
    BY <1>9 DEF Atomic!Accepts
  <2>3. Atomic!After(working.ents, h, Delta(h)) = [working.ents EXCEPT ![e] = Absent]
    BY <1>9 DEF Atomic!After, Atomic!Absent, Absent
  <2> QED
    BY <1>3, <1>5, <2>1, <2>2, <2>3 DEF Writes
<1> QED
  BY <1>2, <1>6, <1>7, <1>8, <1>9

Effect(h, s, a) ==
  \/ BeginsOrFails(s, a) \/ Reads(h, s, a) \/ Writes(h, s, a) \/ Inserts(h, s, a)
  \/ Commits(s, a) \/ RollsBack(s, a)

LEMMA Effects ==
  ASSUME TypeInv, SerialControl, OneAtATime, SeenRow, Connection
  PROVE  \E h, s, a : ServedFor(h, s, a) /\ Effect(h, s, a)
<1> DEFINE Goal == \E h, s, a : ServedFor(h, s, a) /\ Effect(h, s, a)
<1> DEFINE h == Head(queue).task
<1>1. ASSUME NEW s \in Statements, NEW a \in {"ok", "error"}, Serve(s, a)
      PROVE  ServedFor(h, s, a)
  BY <1>1, Served DEF ServedFor
<1> USE DEF Statements
<1>2. CASE ServeBegin
  <2>1. CASE Serve("begin", "ok") /\ UNCHANGED <<working, committed, seen>>
    BY <1>1, <2>1 DEF Effect, BeginsOrFails
  <2>2. CASE inTxn /\ Serve("begin", "error")
    <3>1. ServedFor(h, "begin", "error")
      BY <1>1, <2>2
    <3>2. \A u \in Tasks : Settled(u)
      BY <3>1 DEF ServedFor, Settled
    <3> QED
      BY <2>2, <3>2 DEF SerialControl, CleanStore
  <2> QED
    BY <1>2, <2>1, <2>2 DEF ServeBegin
<1>3. CASE ServeRead
  BY <1>1, <1>3 DEF ServeRead, db, Effect, Reads
<1>4. CASE ServeWrite
  <2>1. PICK a \in {"ok", "error"} : Serve("write", a)
    BY <1>4 DEF ServeWrite
  <2>2. ServedFor(h, "write", a)
    BY <1>1, <2>1
  <2>3. PICK b \in {"ok", "error"} :
          Serve("write", b) /\ (BeginsOrFails("write", b) \/ Writes(h, "write", b))
    BY <1>4, <2>2, WriteEffect DEF ServedFor
  <2> QED
    BY <1>1, <2>3 DEF Effect
<1>5. CASE ServeAppend
  <2>1. Serve("append", "ok") /\ Inserts(h, "append", "ok")
    BY <1>5 DEF ServeAppend, ServeInsert, Inserts
  <2> QED
    BY <1>1, <2>1 DEF Effect
<1>6. CASE ServePropose
  <2>1. Serve("propose", "ok") /\ Inserts(h, "propose", "ok")
    BY <1>6 DEF ServePropose, ServeInsert, Inserts
  <2> QED
    BY <1>1, <2>1 DEF Effect
<1>7. CASE ServeCommit
  BY <1>1, <1>7 DEF ServeCommit, Effect, Commits
<1>8. CASE ServeRollback
  BY <1>1, <1>8 DEF ServeRollback, Effect, RollsBack
<1>9. CASE ServeRefused
  <2>1. PICK s \in Within : Serve(s, "error") /\ UNCHANGED <<working, committed, seen>>
    BY <1>9 DEF ServeRefused, OneAtATime
  <2>2. ServedFor(h, s, "error")
    BY <1>1, <2>1 DEF Within
  <2> QED
    BY <2>1, <2>2 DEF Effect, BeginsOrFails
<1> QED
  BY <1>2, <1>3, <1>4, <1>5, <1>6, <1>7, <1>8, <1>9 DEF Connection

LEMMA RowsKept ==
  ASSUME NEW t, NEW n, RowsAfter(t, n), working'.ents = working.ents,
         committed'.ents = committed.ents
  PROVE  RowsAfter(t, n)'
BY DEF RowsAfter

LEMMA ProgressServeStep ==
  ASSUME TypeInv, SerialControl, SerialInv, OneAtATime, Connection
  PROVE  SerialInv'
<1> USE DEF Answered, Awaiting
<1>1. PICK h, s, a : ServedFor(h, s, a) /\ Effect(h, s, a)
  BY Effects DEF SerialInv
<1>2. /\ h \in Tasks /\ pc[h] = s /\ reply[h] = "none"
      /\ pc' = pc /\ at' = at /\ reply'[h] = a
      /\ \A u \in Tasks : u # h => pc[u] \in {"idle", "end"}
      /\ s \in {"read", "write"} => at[h] \in 1..Len(Deltas[h])
      /\ at[h] \in Nat \ {0} /\ working \in Store /\ committed \in Store
      /\ seen \in [Tasks -> Rows]
  BY <1>1, ConnectionFrame DEF ServedFor, TypeInv, TypeOK, Running
<1>3. s \in {"begin", "propose"} => working = committed
  <2>1. s \in {"begin", "propose"} => \A u \in Tasks : Settled(u)
    BY <1>2 DEF Settled, Running
  <2> QED
    BY <2>1 DEF SerialControl, CleanStore
<1>4. AtBounds'
  BY <1>2 DEF SerialInv, AtBounds
<1>5. RowsFollow'
  <2> SUFFICES ASSUME InBody(h)' PROVE RowsAfter(h, Written(h))'
    BY <1>2 DEF RowsFollow, InBody
  <2>1. CASE s = "begin" /\ a = "ok" /\ UNCHANGED <<working, committed>>
    <3>1. at[h] = 1 /\ Written(h)' = 0
      BY <1>2, <2>1 DEF SerialInv, AtBounds, Written
    <3>2. Atomic!Prefixes(committed.ents, h)[0] = committed.ents
      BY <1>2, PrefixesAre
    <3>3. RowsAfter(h, 0)
      BY <1>2, <1>3, <2>1, <3>2, DeltasAssumption DEF RowsAfter
    <3>4. RowsAfter(h, 0)'
      BY <2>1, <3>3, RowsKept
    <3> QED
      BY <3>1, <3>4 DEF RowsAfter
  <2>2. CASE s \in {"read", "append"} /\ working'.ents = working.ents /\ committed' = committed
    <3>1. PICK n : n = Written(h)
      OBVIOUS
    <3>2. InBody(h) /\ Written(h)' = n
      BY <1>2, <2>2, <3>1 DEF InBody, Written
    <3>3. RowsAfter(h, n)
      BY <1>2, <3>1, <3>2 DEF SerialInv, RowsFollow
    <3>4. RowsAfter(h, n)'
      BY <2>2, <3>3, RowsKept
    <3> QED
      BY <3>2, <3>4 DEF RowsAfter
  <2>3. CASE Writes(h, s, a)
    <3>0. s = "write" /\ a = "ok" /\ committed' = committed
      BY <2>3 DEF Writes
    <3>1. InBody(h) /\ Written(h) = at[h] - 1 /\ Written(h)' = at[h]
      BY <1>2, <3>0 DEF InBody, Written
    <3>2. RowsAfter(h, at[h] - 1)
      BY <1>2, <3>1 DEF SerialInv, RowsFollow
    <3> DEFINE P == Atomic!Prefixes(committed.ents, h)
    <3>3. at[h] \in 1..Len(Deltas[h]) /\ Len(Deltas[h]) \in Nat
      BY <1>2, <3>0, DeltasAssumption
    <3>4. P[at[h]] = Atomic!After(P[at[h] - 1], h, Delta(h))
      BY <1>2, <3>3, PrefixesAre DEF Delta
    <3>5. working.ents = P[at[h] - 1]
      BY <3>2 DEF RowsAfter
    <3>6. working'.ents = P[at[h]]
      <4>1. working'.ents = Atomic!After(working.ents, h, Delta(h))
        BY <1>2, <2>3 DEF Writes, Store
      <4> QED
        BY <3>4, <3>5, <4>1
    <3>7. Atomic!Accepts(P[at[h] - 1], Deltas[h][at[h]])
      BY <2>3, <3>5 DEF Writes, Delta
    <3>8. \A k \in 1..(at[h] - 1) : Atomic!Accepts(P[k - 1], Deltas[h][k])
      BY <3>2 DEF RowsAfter
    <3> HIDE DEF P
    <3>9. \A k \in 1..at[h] : Atomic!Accepts(P[k - 1], Deltas[h][k])
      <4> TAKE k \in 1..at[h]
      <4>1. k = at[h] \/ k \in 1..(at[h] - 1)
        BY <3>3
      <4> QED
        BY <3>7, <3>8, <4>1
    <3> QED
      BY <3>0, <3>1, <3>3, <3>6, <3>9 DEF RowsAfter, P
  <2> QED
    BY <1>1, <1>2, <2>1, <2>2, <2>3
       DEF Effect, BeginsOrFails, Reads, Inserts, Commits, RollsBack, InBody, Store
<1>6. SeenRow'
  <2> SUFFICES ASSUME s = "read", a = "ok"
               PROVE  seen'[h] = working'.ents[Delta(h)'.entity]
    BY <1>1, <1>2 DEF SeenRow, Effect, BeginsOrFails, Reads, Writes, Inserts, Commits, RollsBack
  <2>1. Reads(h, s, a)
    BY <1>1 DEF Effect, BeginsOrFails, Writes, Inserts, Commits, RollsBack
  <2> QED
    BY <1>2, <2>1 DEF Reads, Delta
<1>7. /\ s \in {"read", "write", "append"} => working.log = committed.log
      /\ s = "commit" => working.log = committed.log \union {<<h, "event">>}
      /\ s = "autocommit" => working.log = committed.log \union {<<h, "proposed">>}
  BY <1>2 DEF SerialInv, LogFollows, ProposalFollows, Store
<1>8. LogFollows'
  <2> SUFFICES ASSUME TRUE
               PROVE  /\ s \in {"begin", "read", "write"} => working'.log = committed'.log
                      /\ s = "append" /\ a = "ok"
                           => working'.log = committed'.log \union {<<h, "event">>}
    BY <1>1, <1>2 DEF LogFollows, Effect, BeginsOrFails, Reads, Writes, Inserts, Commits, RollsBack
  <2>1. CASE s \in {"begin", "read", "write"}
    <3>1. committed' = committed /\ working'.log = working.log
      BY <1>1, <1>2, <2>1
         DEF Effect, BeginsOrFails, Reads, Writes, Inserts, Commits, RollsBack, Store
    <3> QED
      BY <1>3, <1>7, <2>1, <3>1
  <2>2. CASE s = "append" /\ a = "ok"
    <3>1. Inserts(h, s, a)
      BY <1>1, <2>2 DEF Effect, BeginsOrFails, Reads, Writes, Commits, RollsBack
    <3> QED
      BY <1>2, <1>7, <2>2, <3>1 DEF Inserts, Store
  <2> QED
    BY <2>1, <2>2
<1>9. ProposalFollows'
  <2>1. s = "propose" => working' = [committed' EXCEPT !.log = @ \union {<<h, "proposed">>}]
    BY <1>1, <1>3 DEF Effect, BeginsOrFails, Reads, Writes, Inserts, Commits, RollsBack, Within
  <2>2. a # "none"
    BY <1>1 DEF Effect, BeginsOrFails, Reads, Writes, Inserts, Commits, RollsBack
  <2> QED
    BY <1>2, <2>1, <2>2 DEF SerialInv, ProposalFollows
<1>10. EventNew'
  <2>1. \/ committed' = committed
        \/ /\ s \in {"commit", "autocommit"} /\ a = "ok"
           /\ committed'.log = working.log
    BY <1>1 DEF Effect, BeginsOrFails, Reads, Writes, Inserts, Commits, RollsBack
  <2>2. CASE committed' = committed
    BY <1>2, <2>2 DEF SerialInv, EventNew
  <2>3. CASE s \in {"commit", "autocommit"} /\ a = "ok" /\ committed'.log = working.log
    BY <1>2, <1>7, <2>3 DEF SerialInv, EventNew
  <2> QED
    BY <2>1, <2>2, <2>3
<1> QED
  BY <1>4, <1>5, <1>6, <1>8, <1>9, <1>10 DEF SerialInv

\* The statement a task submits where it is among its deltas.
LEMMA StatementAt ==
  ASSUME NEW t \in Tasks, NEW i \in 1..(Len(Deltas[t]) + 1)
  PROVE  /\ StatementFor(t, i) \in {"append", "read", "write"}
         /\ StatementFor(t, i) = "append" => i = Len(Deltas[t]) + 1
         /\ StatementFor(t, i) = "write" => Deltas[t][i].op = "create"
BY DeltasAssumption DEF StatementFor

\* Deleting a row that is not there leaves the rows as they are.
LEMMA NothingToDelete ==
  ASSUME NEW rows, NEW t, NEW e, e \in DOMAIN rows, rows[e] = Absent,
         rows = [x \in DOMAIN rows |-> rows[x]],
         NEW d, d.entity = e, d.op = "delete"
  PROVE  Atomic!After(rows, t, d) = rows /\ Atomic!Accepts(rows, d)
<1>1. [rows EXCEPT ![e] = Absent] = rows
  OBVIOUS
<1> QED
  BY <1>1 DEF Atomic!After, Atomic!Accepts, Atomic!Absent, Absent

\* A further delta that was accepted.
LEMMA RowsNext ==
  ASSUME NEW t \in Tasks, NEW i \in 1..Len(Deltas[t]), RowsAfter(t, i - 1),
         Atomic!Accepts(working.ents, Deltas[t][i]),
         Atomic!After(working.ents, t, Deltas[t][i]) = working.ents
  PROVE  RowsAfter(t, i)
<1> DEFINE P == Atomic!Prefixes(committed.ents, t)
<1>1. Len(Deltas[t]) \in Nat
  BY DeltasAssumption
<1>2. working.ents = P[i - 1] /\ \A k \in 1..(i - 1) : Atomic!Accepts(P[k - 1], Deltas[t][k])
  BY DEF RowsAfter
<1>3. P[i] = working.ents
  BY <1>1, <1>2, PrefixesAre
<1>4. Atomic!Accepts(P[i - 1], Deltas[t][i])
  BY <1>2
<1> HIDE DEF P
<1>5. \A k \in 1..i : Atomic!Accepts(P[k - 1], Deltas[t][k])
  <2> TAKE k \in 1..i
  <2>1. k = i \/ k \in 1..(i - 1)
    BY <1>1
  <2> QED
    BY <1>2, <1>4, <2>1
<1> QED
  BY <1>1, <1>3, <1>5 DEF RowsAfter, P

LEMMA ProgressTaskStep ==
  ASSUME TypeInv, OwnerInv, SerialControl, SerialInv, OneAtATime, NEW t \in Tasks,
         Start(t) \/ Resume(t) \/ LedgerFails(t) \/ Cancel(t)
  PROVE  SerialInv'
<1> USE DEF Answered, Awaiting
<1>m. MovesOn(t) /\ Alone(t)
  BY Moves
<1>a. /\ pc \in [Tasks -> Statements \union {"idle", "ledger", "end"}]
      /\ reply \in [Tasks -> {"none", "ok", "error"}] /\ at[t] \in Nat \ {0}
      /\ working \in Store /\ committed \in Store /\ Len(Deltas[t]) \in Nat
  BY DeltasAssumption DEF TypeInv, TypeOK
<1>k. /\ working' = working /\ committed' = committed /\ seen' = seen /\ reply'[t] = "none"
      /\ \A u \in Tasks : u # t => /\ pc'[u] = pc[u] /\ reply'[u] = reply[u] /\ at'[u] = at[u]
                                   /\ pc[u] \in {"idle", "end"}
  <2>1. \A u \in Tasks : u # t => ~Running(u)
    BY <1>m, TasksAssumption DEF MovesOn, Alone, SerialControl, OneRuns, Running, Within
  <2> QED
    BY <1>m, <2>1, OthersKeep DEF Alone, Running
<1>d. pc[t] \in {"read", "write"} => at[t] \in 1..Len(Deltas[t])
  BY DEF TypeInv, QueueInv, AtDelta
<1>b. /\ pc[t] \in {"idle", "begin"} => at[t] = 1
      /\ pc[t] \in {"append", "commit"} => at[t] = Len(Deltas[t]) + 1
  BY DEF SerialInv, AtBounds
<1>s. /\ pc[t] \in {"begin", "write", "read"} => at[t] \in 1..(Len(Deltas[t]) + 1)
      /\ pc[t] \in {"read", "write"} => at[t] + 1 \in 1..(Len(Deltas[t]) + 1)
  BY <1>a, <1>b, <1>d
<1> DEFINE Next1(i) == /\ pc'[t] = StatementFor(t, i) /\ at'[t] = i
                       /\ pc'[t] \in {"append", "read", "write"}
                       /\ pc'[t] = "append" => i = Len(Deltas[t]) + 1
                       /\ pc'[t] = "write" => Deltas[t][i].op = "create"
\* Where the task may be after the step, and where it came from.
<1> DEFINE From ==
      \/ pc[t] = "idle" /\ pc'[t] = "begin" /\ at'[t] = at[t]
      \/ Answered(t, "begin") /\ Next1(at[t])
      \/ /\ Answered(t, "read")
         /\ \/ seen[t] # Absent /\ pc'[t] = "write" /\ at'[t] = at[t]
            \/ seen[t] = Absent /\ Delta(t).op = "delete" /\ Next1(at[t] + 1)
      \/ Answered(t, "write") /\ Next1(at[t] + 1)
      \/ Answered(t, "read") /\ pc'[t] = "rollback" /\ at'[t] = at[t]
      \/ pc[t] \in Within /\ reply[t] = "error" /\ pc'[t] = "rollback" /\ at'[t] = at[t]
      \/ Answered(t, "append") /\ pc'[t] = "commit" /\ at'[t] = at[t]
      \/ Answered(t, "propose") /\ pc'[t] = "autocommit"
      \/ pc'[t] = "propose" /\ t \in Proposing
      \/ pc'[t] \in {"ledger", "end"}
<1>1. From
  <2>1. ASSUME pc[t] = "begin", pc'[t] = StatementFor(t, at[t]), at'[t] = at[t]
        PROVE  Next1(at[t])
    BY <1>s, <2>1, StatementAt
  <2>2. ASSUME pc[t] \in {"read", "write"}, pc'[t] = StatementFor(t, at[t] + 1),
               at'[t] = at[t] + 1
        PROVE  Next1(at[t] + 1)
    BY <1>s, <2>2, StatementAt
  <2> HIDE DEF Next1
  <2> QED
    BY <1>m, <2>1, <2>2 DEF MovesOn, To
<1> HIDE DEF From
<1>2. AtBounds'
  <2>1. /\ pc'[t] \in {"idle", "begin"} => at'[t] = 1
        /\ pc'[t] \in {"append", "commit"} => at'[t] = Len(Deltas[t]) + 1
    BY <1>1, <1>b DEF From
  <2> QED
    BY <1>k, <2>1 DEF SerialInv, AtBounds
<1>3. RowsFollow'
  <2> SUFFICES ASSUME InBody(t)' PROVE RowsAfter(t, Written(t))'
    BY <1>k DEF RowsFollow, InBody
  <2>0. Written(t)' = at'[t] - 1
    BY <1>k DEF Written
  <2>1. ASSUME NEW n, RowsAfter(t, n), at'[t] - 1 = n PROVE RowsAfter(t, Written(t))'
    <3>1. RowsAfter(t, n)'
      BY <1>k, <2>1, RowsKept
    <3> QED
      BY <2>0, <2>1, <3>1 DEF RowsAfter
  <2>2. InBody(t) => RowsAfter(t, Written(t))
    BY DEF SerialInv, RowsFollow
  <2>3. CASE InBody(t) /\ Written(t) = at'[t] - 1
    BY <2>1, <2>2, <2>3
  <2>4. CASE /\ Answered(t, "read") /\ seen[t] = Absent /\ Delta(t).op = "delete"
             /\ at'[t] = at[t] + 1
    <3>1. RowsAfter(t, at[t] - 1)
      BY <2>2, <2>4 DEF InBody, Written
    <3>2. Delta(t) \in StateDelta /\ Delta(t) = Deltas[t][at[t]]
      BY <1>d, <2>4, DeltasAssumption DEF Delta
    <3>3. /\ DOMAIN working.ents = Entities /\ Delta(t).entity \in Entities
          /\ working.ents = [x \in Entities |-> working.ents[x]]
      BY <1>a, <3>2 DEF Store, StateDelta
    <3>4. working.ents[Delta(t).entity] = Absent
      BY <2>4 DEF SerialInv, SeenRow
    <3>5. /\ Atomic!After(working.ents, t, Deltas[t][at[t]]) = working.ents
          /\ Atomic!Accepts(working.ents, Deltas[t][at[t]])
      BY <2>4, <3>2, <3>3, <3>4, NothingToDelete
    <3>6. RowsAfter(t, at[t])
      BY <1>d, <2>4, <3>1, <3>5, RowsNext
    <3> QED
      BY <1>a, <2>1, <2>4, <3>6
  <2>5. \/ InBody(t) /\ Written(t) = at'[t] - 1
        \/ /\ Answered(t, "read") /\ seen[t] = Absent /\ Delta(t).op = "delete"
           /\ at'[t] = at[t] + 1
    <3>1. pc'[t] \in {"begin", "read", "write", "append", "commit"} /\ ~Answered(t, "begin")'
      BY <1>k DEF InBody
    <3>2. pc'[t] # "begin"
      BY <1>k DEF InBody
    <3> QED
      BY <1>1, <1>a, <3>1, <3>2 DEF From, InBody, Written
  <2> QED
    BY <2>3, <2>4, <2>5
<1>4. SeenRow'
  <2> SUFFICES ASSUME pc'[t] = "write", Delta(t)'.op # "create"
               PROVE  seen[t] = working.ents[Delta(t)'.entity] /\ seen[t] # Absent
    BY <1>k DEF SeenRow
  <2>1. Answered(t, "read") /\ seen[t] # Absent /\ at'[t] = at[t]
    BY <1>1 DEF From, Delta
  <2> QED
    BY <2>1 DEF SerialInv, SeenRow, Delta
<1>5. LogFollows'
  <2>1. /\ pc'[t] \in {"read", "write", "append"} => working.log = committed.log
        /\ pc'[t] = "commit" => working.log = committed.log \union {<<t, "event">>}
    BY <1>1 DEF From, SerialInv, LogFollows
  <2> QED
    BY <1>k, <2>1 DEF LogFollows
<1>6. ProposalFollows'
  <2>1. /\ pc'[t] \in {"propose", "autocommit"} => t \in Proposing
        /\ pc'[t] = "autocommit"
             => working = [committed EXCEPT !.log = @ \union {<<t, "proposed">>}]
    BY <1>1 DEF From, SerialInv, ProposalFollows
  <2> QED
    BY <1>k, <2>1 DEF SerialInv, ProposalFollows
<1>7. EventNew'
  <2>1. pc'[t] \in {"idle", "begin", "read", "write", "append", "rollback", "commit"}
          => <<t, "event">> \notin committed.log
    BY <1>1 DEF From, SerialInv, EventNew, Within
  <2> QED
    BY <1>k, <2>1 DEF SerialInv, EventNew
<1> QED
  BY <1>2, <1>3, <1>4, <1>5, <1>6, <1>7 DEF SerialInv

LEMMA ProgressRestartStep ==
  ASSUME TypeInv, SerialInv, Restart
  PROVE  SerialInv'
<1>1. /\ committed' = committed /\ working' = committed /\ at' = at
      /\ \A t \in Tasks : /\ pc'[t] \in {"idle", "end"} /\ (pc'[t] = "idle" => pc[t] = "idle")
                          /\ reply'[t] = "none"
  BY DEF Restart, progress, Running, TypeInv, TypeOK
<1> QED
  BY <1>1 DEF SerialInv, AtBounds, RowsFollow, SeenRow, LogFollows, ProposalFollows, EventNew,
              InBody, Answered, Awaiting

LEMMA ProgressFrame == SerialInv /\ UNCHANGED vars => SerialInv'
<1> SUFFICES ASSUME SerialInv, UNCHANGED vars PROVE SerialInv'
  OBVIOUS
<1>1. UNCHANGED <<working, committed, reply, pc, at, seen>>
  BY DEF vars, db, progress
<1>2. RowsFollow'
  <2> SUFFICES ASSUME NEW t \in Tasks, InBody(t)' PROVE RowsAfter(t, Written(t))'
    BY DEF RowsFollow
  <2>1. InBody(t) /\ Written(t)' = Written(t)
    BY <1>1 DEF InBody, Written, Answered, Awaiting
  <2>2. RowsAfter(t, Written(t))
    BY <2>1 DEF SerialInv, RowsFollow
  <2> QED
    BY <1>1, <2>1, <2>2 DEF RowsAfter
<1> QED
  BY <1>1, <1>2 DEF SerialInv, AtBounds, SeenRow, LogFollows, ProposalFollows, EventNew,
                    Delta, Answered, Awaiting

LEMMA ProgressStep ==
  ASSUME TypeInv, OwnerInv, SerialControl, SerialInv, OneAtATime, [Next]_vars
  PROVE  SerialInv'
<1>1. CASE Connection
  BY <1>1, ProgressServeStep
<1>2. CASE \E t \in Tasks : Start(t) \/ Resume(t) \/ LedgerFails(t) \/ Cancel(t)
  BY <1>2, ProgressTaskStep
<1>3. CASE Restart
  BY <1>3, ProgressRestartStep
<1>4. CASE UNCHANGED vars
  BY <1>4, ProgressFrame
<1> QED
  BY <1>1, <1>2, <1>3, <1>4 DEF Next, Finished

-----------------------------------------------------------------------------
(* The commit step implements the atomic commit.                           *)

Failed == {t \in Tasks : outcome[t] \in {"error", "lost"} /\ <<t, "event">> \notin committed.log}
AtomicVars == <<committed, Failed>>

LEMMA AtomicInit == Init => Atomic!Init
<1> SUFFICES ASSUME Init PROVE Atomic!Init
  OBVIOUS
<1>1. \A t \in Tasks : outcome[t] = "none"
  BY DEF Init
<1>2. Failed = {}
  BY <1>1 DEF Failed
<1>3. committed = [ents |-> [e \in Entities |-> IF e \in Existing THEN {} ELSE {NoTask}],
                   log |-> {}]
  BY DEF Init, Absent
<1> QED
  BY <1>2, <1>3 DEF Atomic!Init, Atomic!Absent, Failed

\* A COMMIT is the commit of the action that runs, an autocommit that of its
\* proposed event; every other statement is invisible.
LEMMA ServeImplements ==
  ASSUME TypeInv, OwnerInv, SerialControl, SerialInv, OneAtATime, Connection
  PROVE  Atomic!Next \/ UNCHANGED AtomicVars
<1> USE DEF Answered, Awaiting
<1>1. PICK h, s, a : ServedFor(h, s, a) /\ Effect(h, s, a)
  BY Effects DEF SerialInv
<1>2. /\ h \in Tasks /\ pc[h] = s /\ reply[h] = "none" /\ outcome' = outcome
      /\ working \in Store /\ committed \in Store
  BY <1>1, ConnectionFrame DEF ServedFor, TypeInv, TypeOK
<1>3. CASE committed' = committed
  BY <1>2, <1>3 DEF AtomicVars, Failed
<1>4. CASE s = "commit" /\ committed' = working
  <2>1. /\ <<h, "event">> \notin committed.log
        /\ working.log = committed.log \union {<<h, "event">>}
    BY <1>2, <1>4 DEF SerialInv, EventNew, LogFollows
  <2>2. outcome[h] = "none"
    BY <1>2, <1>4 DEF OwnerInv, OutcomeAtEnd
  <2>3. RowsAfter(h, Len(Deltas[h]))
    <3>1. InBody(h) /\ at[h] = Len(Deltas[h]) + 1 /\ Written(h) = at[h] - 1
      BY <1>2, <1>4 DEF SerialInv, AtBounds, InBody, Written
    <3>2. Written(h) = Len(Deltas[h])
      BY <3>1, DeltasAssumption
    <3> QED
      BY <1>2, <3>1, <3>2 DEF SerialInv, RowsFollow
  <2>4. /\ Atomic!Accepted(committed.ents, h)
        /\ working.ents = Atomic!Outcome(committed.ents, h)
    BY <2>3 DEF RowsAfter, Atomic!Accepted, Atomic!Outcome
  <2>5. committed' = [ents |-> Atomic!Outcome(committed.ents, h),
                      log |-> committed.log \union {<<h, "event">>}]
    BY <1>2, <1>4, <2>1, <2>4 DEF Store
  <2>6. Failed' = Failed
    <3>1. \A u \in Tasks : u # h =>
            (<<u, "event">> \in committed'.log <=> <<u, "event">> \in committed.log)
      BY <1>4, <2>1
    <3> QED
      BY <1>2, <2>2, <3>1 DEF Failed
  <2>7. h \notin Failed
    BY <2>2 DEF Failed
  <2>8. Atomic!Commit(h)
    BY <2>1, <2>4, <2>5, <2>6, <2>7 DEF Atomic!Commit, Atomic!Done, Failed
  <2> QED
    BY <1>2, <2>8 DEF Atomic!Next
<1>5. CASE s = "autocommit" /\ committed' = working
  <2>1. /\ working = [committed EXCEPT !.log = @ \union {<<h, "proposed">>}]
        /\ h \in Proposing
    BY <1>2, <1>5 DEF SerialInv, ProposalFollows
  <2>2. <<h, "event">> \in committed.log
    BY <1>2, <1>5 DEF OwnerInv, EventDurable, SerialControl, AllOuter
  <2>3. \A u \in Tasks : <<u, "event">> \in committed'.log <=> <<u, "event">> \in committed.log
    BY <1>2, <1>5, <2>1 DEF Store
  <2>4. Failed' = Failed
    BY <1>2, <2>3 DEF Failed
  <2>5. Atomic!Propose(h)
    BY <1>5, <2>1, <2>2, <2>4 DEF Atomic!Propose, Atomic!Done, Failed
  <2> QED
    BY <1>2, <2>5 DEF Atomic!Next
<1> QED
  BY <1>1, <1>3, <1>4, <1>5
     DEF Effect, BeginsOrFails, Reads, Writes, Inserts, Commits, RollsBack, Within

\* An action that is told of an error has failed and left nothing.
LEMMA TaskImplements ==
  ASSUME TypeInv, OwnerInv, SerialControl, SerialInv, OneAtATime, NEW t \in Tasks,
         Start(t) \/ Resume(t) \/ LedgerFails(t) \/ Cancel(t)
  PROVE  Atomic!Next \/ UNCHANGED AtomicVars
<1>1. committed' = committed /\ \A u \in Tasks : u # t => outcome'[u] = outcome[u]
  BY OthersKeep
<1>2. /\ outcome[t] = "none"
      /\ outcome'[t] \in {"none", "ok", "late"} \/ (outcome'[t] = "error" /\ pc[t] = "rollback")
  BY Moves DEF MovesOn, Alone, To, Answered
<1>3. CASE outcome'[t] \in {"none", "ok", "late"}
  <2>1. Failed' = Failed
    BY <1>1, <1>2, <1>3 DEF Failed
  <2> QED
    BY <1>1, <2>1 DEF AtomicVars
<1>4. CASE outcome'[t] = "error" /\ pc[t] = "rollback"
  <2>1. <<t, "event">> \notin committed.log
    BY <1>4 DEF SerialInv, EventNew
  <2>2. Failed' = Failed \union {t} /\ t \notin Failed
    BY <1>1, <1>2, <1>4, <2>1 DEF Failed
  <2>3. Atomic!Fail(t)
    BY <1>1, <2>1, <2>2 DEF Atomic!Fail, Atomic!Done, Failed
  <2> QED
    BY <2>3 DEF Atomic!Next
<1> QED
  BY <1>2, <1>3, <1>4

\* The action a restart interrupts has failed, unless it had committed.
LEMMA RestartImplements ==
  ASSUME TypeInv, OwnerInv, SerialControl, Restart
  PROVE  Atomic!Next \/ UNCHANGED AtomicVars
<1>1. /\ committed' = committed
      /\ \A u \in Tasks : outcome'[u] = IF Running(u) THEN "lost" ELSE outcome[u]
  BY DEF Restart
<1>2. \A u \in Tasks : Running(u) => outcome[u] = "none"
  BY DEF OwnerInv, OutcomeAtEnd, Running
<1>3. CASE \E t \in Tasks : Running(t) /\ <<t, "event">> \notin committed.log
  <2>1. PICK t \in Tasks : Running(t) /\ <<t, "event">> \notin committed.log
    BY <1>3
  <2>2. \A u \in Tasks : u # t => ~Running(u)
    BY <2>1 DEF SerialControl, OneRuns
  <2>3. Failed' = Failed \union {t} /\ t \notin Failed
    BY <1>1, <1>2, <2>1, <2>2 DEF Failed
  <2>4. Atomic!Fail(t)
    BY <1>1, <2>1, <2>3 DEF Atomic!Fail, Atomic!Done, Failed
  <2> QED
    BY <2>4 DEF Atomic!Next
<1>4. CASE \A t \in Tasks : Running(t) => <<t, "event">> \in committed.log
  <2>1. Failed' = Failed
    BY <1>1, <1>2, <1>4 DEF Failed
  <2> QED
    BY <1>1, <2>1 DEF AtomicVars
<1> QED
  BY <1>3, <1>4

SerialAll == OneAtATime /\ TypeInv /\ CountInv /\ OwnerInv /\ SerialControl /\ SerialInv

LEMMA SerialAlways == OneAtATime => (Spec => []SerialAll)
<1>1. OneAtATime /\ Init => SerialAll
  BY TypeInit, CountInit, OwnerInit, ControlInit, ProgressInit DEF SerialAll
<1>2. SerialAll /\ [Next]_vars => SerialAll'
  BY TypeStep, CountStep, OwnerStep, ControlStep, ProgressStep DEF SerialAll, OneAtATime
<1>3. OneAtATime /\ Spec => []SerialAll
  BY <1>1, <1>2, PTL DEF Spec
<1> QED
  BY <1>3, PTL

LEMMA AtomicStep == SerialAll /\ [Next]_vars => [Atomic!Next]_AtomicVars
<1> SUFFICES ASSUME SerialAll, [Next]_vars PROVE Atomic!Next \/ UNCHANGED AtomicVars
  OBVIOUS
<1> USE DEF SerialAll
<1>1. CASE Connection
  BY <1>1, ServeImplements
<1>2. CASE \E t \in Tasks : Start(t) \/ Resume(t) \/ LedgerFails(t) \/ Cancel(t)
  BY <1>2, TaskImplements
<1>3. CASE Restart
  BY <1>3, RestartImplements
<1>4. CASE UNCHANGED vars
  BY <1>4 DEF vars, db, AtomicVars, Failed
<1> QED
  BY <1>1, <1>2, <1>3, <1>4 DEF Next, Finished

\* Actions that take the pipeline lock and are not cancelled commit atomically:
\* the deltas and the event of each take effect in one step on the durable
\* database, in the order of the deltas and each on the row it was checked
\* against, or not at all (state/engine.py, execute(); sqlite.py, transaction()).
THEOREM SerialImplementsAtomic == OneAtATime => (Spec => ImplementsAtomicCommit)
<1>1. OneAtATime /\ Spec => Atomic!Init /\ [][Atomic!Next]_AtomicVars
  BY AtomicInit, AtomicStep, SerialAlways, PTL DEF Spec
<1> QED
  BY <1>1, PTL DEF ImplementsAtomicCommit, Atomic!Spec, AtomicVars, Failed

-----------------------------------------------------------------------------
(* No update is lost.                                                      *)

\* An update adds the field of its task to its row; other deltas leave the row.
LEMMA AfterUpdate ==
  ASSUME NEW rows, NEW t, NEW e \in DOMAIN rows, NEW d, d.entity = e => d.op = "update"
  PROVE  /\ rows[e] \subseteq Atomic!After(rows, t, d)[e]
         /\ d.entity = e => t \in Atomic!After(rows, t, d)[e]
<1>1. CASE d.entity = e
  <2>1. Atomic!After(rows, t, d) = [rows EXCEPT ![e] = rows[e] \union {t}]
    BY <1>1 DEF Atomic!After
  <2> QED
    BY <2>1
<1>2. CASE d.entity # e
  <2>1. Atomic!After(rows, t, d)[e] = rows[e]
    BY <1>2 DEF Atomic!After
  <2> QED
    BY <1>2, <2>1
<1> QED
  BY <1>1, <1>2

\* Deltas that only update a row leave in it what it held.
LEMMA RowsGrow ==
  ASSUME NEW rows, DOMAIN rows = Entities, NEW t \in Tasks, NEW e \in Entities, UpdatedOnly(e)
  PROVE  LET P == Atomic!Prefixes(rows, t)
         IN  \A n \in 0..Len(Deltas[t]) :
               /\ DOMAIN P[n] = Entities
               /\ \A i \in 0..n : P[i][e] \subseteq P[n][e]
<1> DEFINE P == Atomic!Prefixes(rows, t)
           Good(n) == DOMAIN P[n] = Entities /\ \A i \in 0..n : P[i][e] \subseteq P[n][e]
           Bad == {n \in Nat : n <= Len(Deltas[t]) /\ ~Good(n)}
<1>1. Len(Deltas[t]) \in Nat
  BY DeltasAssumption
<1>2. P[0] = rows
  BY PrefixesAre
<1>3. \A n \in 1..Len(Deltas[t]) : P[n] = Atomic!After(P[n - 1], t, Deltas[t][n])
  BY PrefixesAre
<1> HIDE DEF P
<1>4. Good(0)
  BY <1>2
<1>5. ASSUME NEW n \in 1..Len(Deltas[t]), Good(n - 1) PROVE Good(n)
  <2>1. DOMAIN P[n] = Entities
    BY <1>3, <1>5 DEF Atomic!After
  <2>2. Deltas[t][n].entity = e => Deltas[t][n].op = "update"
    BY <1>1, <1>5, DeltasAssumption DEF UpdatedOnly
  <2>3. P[n - 1][e] \subseteq P[n][e]
    BY <1>3, <1>5, <2>2, AfterUpdate
  <2>4. \A i \in 0..n : i \in 0..(n - 1) \/ i = n
    BY <1>1, <1>5
  <2> QED
    BY <1>5, <2>1, <2>3, <2>4
<1> HIDE DEF Good
<1>6. Bad = {}
  <2> SUFFICES ASSUME Bad # {} PROVE FALSE
    OBVIOUS
  <2>1. PICK n \in Bad : \A m \in Bad : n <= m
    BY LeastNatural
  <2>2. n \in 1..Len(Deltas[t]) /\ n - 1 \in Nat /\ n - 1 \notin Bad
    BY <1>1, <1>4, <2>1
  <2>3. Good(n - 1)
    BY <1>1, <2>2
  <2> QED
    BY <1>5, <2>2, <2>3
<1>7. \A n \in 0..Len(Deltas[t]) : Good(n)
  BY <1>1, <1>6
<1> QED
  BY <1>7 DEF Good, P

\* After a task that updates the row, its field is in it.
LEMMA UpdateKept ==
  ASSUME NEW rows, DOMAIN rows = Entities, NEW t \in Tasks, NEW e \in Entities, UpdatedOnly(e)
  PROVE  /\ rows[e] \subseteq Atomic!Outcome(rows, t)[e]
         /\ Updates(t, e) => t \in Atomic!Outcome(rows, t)[e]
<1> DEFINE P == Atomic!Prefixes(rows, t)
<1>1. Len(Deltas[t]) \in Nat /\ DOMAIN Deltas[t] = 1..Len(Deltas[t])
  BY DeltasAssumption
<1>2. P[0] = rows /\ \A n \in 1..Len(Deltas[t]) : P[n] = Atomic!After(P[n - 1], t, Deltas[t][n])
  BY PrefixesAre
<1>3. \A n \in 0..Len(Deltas[t]) :
        DOMAIN P[n] = Entities /\ \A i \in 0..n : P[i][e] \subseteq P[n][e]
  BY RowsGrow
<1> HIDE DEF P
<1>4. rows[e] \subseteq P[Len(Deltas[t])][e]
  BY <1>1, <1>2, <1>3
<1>5. ASSUME Updates(t, e) PROVE t \in P[Len(Deltas[t])][e]
  <2>1. PICK n \in 1..Len(Deltas[t]) : Deltas[t][n].entity = e
    BY <1>1, <1>5 DEF Updates
  <2>2. Deltas[t][n].op = "update"
    BY <1>1, <2>1 DEF UpdatedOnly
  <2>3. n - 1 \in 0..Len(Deltas[t]) /\ n \in 0..Len(Deltas[t])
    BY <1>1
  <2>4. t \in P[n][e]
    <3>1. P[n] = Atomic!After(P[n - 1], t, Deltas[t][n]) /\ e \in DOMAIN P[n - 1]
      BY <1>2, <1>3, <2>3
    <3> QED
      BY <2>1, <2>2, <3>1, AfterUpdate
  <2>5. P[n][e] \subseteq P[Len(Deltas[t])][e]
    BY <1>1, <1>3, <2>3
  <2> QED
    BY <2>4, <2>5
<1> QED
  BY <1>4, <1>5 DEF Atomic!Outcome, P

LEMMA NoLossStep ==
  ASSUME TypeInv, NoLostUpdate, Atomic!Next \/ UNCHANGED AtomicVars
  PROVE  NoLostUpdate'
<1>0. committed \in Store
  BY DEF TypeInv, TypeOK
<1>1. CASE committed' = committed
  BY <1>1 DEF NoLostUpdate
<1>2. ASSUME NEW h \in Tasks, Atomic!Commit(h) PROVE NoLostUpdate'
  <2>1. /\ committed'.ents = Atomic!Outcome(committed.ents, h)
        /\ committed'.log = committed.log \union {<<h, "event">>}
    BY <1>2 DEF Atomic!Commit
  <2> SUFFICES ASSUME NEW e \in Entities, NEW u \in Tasks, UpdatedOnly(e), Updates(u, e),
                      <<u, "event">> \in committed'.log
               PROVE  u \in committed'.ents[e]
    BY DEF NoLostUpdate
  <2>2. DOMAIN committed.ents = Entities
    BY <1>0 DEF Store
  <2>3. CASE u = h
    BY <2>1, <2>2, <2>3, UpdateKept
  <2>4. CASE u # h
    <3>1. u \in committed.ents[e]
      BY <2>1, <2>4 DEF NoLostUpdate
    <3> QED
      BY <2>1, <2>2, <3>1, UpdateKept
  <2> QED
    BY <2>3, <2>4
<1>3. ASSUME NEW h \in Tasks, Atomic!Propose(h) PROVE NoLostUpdate'
  <2>1. /\ committed'.ents = committed.ents
        /\ committed'.log = committed.log \union {<<h, "proposed">>}
    BY <1>0, <1>3 DEF Atomic!Propose, Store
  <2> QED
    BY <2>1 DEF NoLostUpdate
<1> QED
  BY <1>1, <1>2, <1>3 DEF Atomic!Next, Atomic!Fail, AtomicVars

\* Of several durable updates of one entity none is lost, once every update is
\* made under the pipeline lock: the transaction alone does not do it (store.py,
\* update(); the run commit_lost_update).
THEOREM SerialLosesNoUpdate == OneAtATime => (Spec => []NoLostUpdate)
<1>1. Init => NoLostUpdate
  BY DEF Init, NoLostUpdate
<1>2. SerialAll /\ NoLostUpdate /\ [Next]_vars => NoLostUpdate'
  BY AtomicStep, NoLossStep DEF SerialAll
<1>3. OneAtATime /\ Spec => []NoLostUpdate
  BY <1>1, <1>2, SerialAlways, PTL DEF Spec
<1> QED
  BY <1>3, PTL
=============================================================================
