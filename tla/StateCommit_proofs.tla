------------------------ MODULE StateCommit_proofs -------------------------
(***************************************************************************)
(* What holds of any number of tasks, deltas, cancellations and restarts:  *)
(* the type, the counter and the owner of the transaction, and that a      *)
(* started task is never forgotten and has a bounded number of steps.      *)
(***************************************************************************)
EXTENDS StateCommit, FiniteSetTheorems, TLAPS

-----------------------------------------------------------------------------
(* Type correctness.                                                       *)

\* A statement in the queue is the one its task awaits, or its task has been
\* cancelled; a task has one at most, and none once its reply is there.
QueueMatches ==
  \A i \in 1..Len(queue) :
    /\ pc[queue[i].task] \in {queue[i].op, "end"}
    /\ reply[queue[i].task] = "none"
    /\ queue[i].op \in {"read", "write"} =>
         at[queue[i].task] \in 1..Len(Deltas[queue[i].task])
OneStatementEach ==
  \A i, j \in 1..Len(queue) : queue[i].task = queue[j].task => i = j

\* A task that reads or writes is at one of its deltas.
AtDelta ==
  \A t \in Tasks : pc[t] \in {"read", "write"} => at[t] \in 1..Len(Deltas[t])

\* Replies are for statements.
RepliesAwaited ==
  \A t \in Tasks : reply[t] # "none" => pc[t] \in Statements

QueueInv == QueueMatches /\ OneStatementEach /\ AtDelta /\ RepliesAwaited
TypeInv == TypeOK /\ QueueInv

NoStatementOf(t) == \A i \in 1..Len(queue) : queue[i].task # t

\* The statement a task submits for a delta is one of the queue's statements,
\* and reads or writes only where there is a delta.
LEMMA StatementForType ==
  ASSUME NEW t \in Tasks, NEW i \in Nat \ {0}
  PROVE  /\ StatementFor(t, i) \in {"append", "read", "write"}
         /\ StatementFor(t, i) # "append" => i \in 1..Len(Deltas[t])
  BY DeltasAssumption DEF StatementFor

\* A task that is not awaiting a statement, or has its reply, has none queued.
LEMMA NothingQueued ==
  ASSUME TypeInv, NEW t \in Tasks,
         pc[t] \notin Statements \union {"end"} \/ reply[t] # "none"
  PROVE  NoStatementOf(t)
<1> SUFFICES ASSUME NEW i \in 1..Len(queue), queue[i].task = t
             PROVE  FALSE
  BY DEF NoStatementOf
<1>1. queue[i] \in Statement
  BY DEF TypeInv, TypeOK
<1>2. queue[i].op \in Statements
  BY <1>1 DEF Statement
<1> QED
  BY <1>2 DEF TypeInv, QueueInv, QueueMatches

\* Submitting a statement keeps the invariant.
LEMMA SubmitKeeps ==
  ASSUME TypeInv, NEW t \in Tasks, NEW s \in Statements, NoStatementOf(t),
         queue' = Append(queue, [task |-> t, op |-> s]),
         pc' = [pc EXCEPT ![t] = s],
         reply' = [reply EXCEPT ![t] = "none"],
         at' \in [Tasks -> Nat \ {0}],
         \A u \in Tasks : u # t => at'[u] = at[u],
         s \in {"read", "write"} => at'[t] \in 1..Len(Deltas[t])
  PROVE  /\ QueueInv'
         /\ queue' \in Seq(Statement)
         /\ pc' \in [Tasks -> Statements \union {"idle", "ledger", "end"}]
         /\ reply' \in [Tasks -> {"none", "ok", "error"}]
<1> USE DEF TypeInv, TypeOK
<1>1. queue' \in Seq(Statement) /\ Len(queue') = Len(queue) + 1
  <2>1. [task |-> t, op |-> s] \in Statement
    BY DEF Statement
  <2> QED
    BY <2>1
<1>2. \A i \in 1..Len(queue') :
         queue'[i] = IF i = Len(queue') THEN [task |-> t, op |-> s] ELSE queue[i]
  BY <1>1
<1>3. QueueMatches'
  <2> SUFFICES ASSUME NEW i \in 1..Len(queue')
               PROVE  /\ pc'[queue'[i].task] \in {queue'[i].op, "end"}
                      /\ reply'[queue'[i].task] = "none"
                      /\ queue'[i].op \in {"read", "write"} =>
                           at'[queue'[i].task] \in 1..Len(Deltas[queue'[i].task])
    BY DEF QueueMatches
  <2>1. CASE i = Len(queue')
    BY <1>2, <2>1
  <2>2. CASE i # Len(queue')
    <3>1. i \in 1..Len(queue) /\ queue'[i] = queue[i]
      BY <1>1, <1>2, <2>2
    <3>2. queue[i] \in Statement
      BY <3>1
    <3>3. queue[i].task # t /\ queue[i].task \in Tasks
      BY <3>1, <3>2 DEF NoStatementOf, Statement
    <3> QED
      BY <3>1, <3>3 DEF QueueInv, QueueMatches
  <2> QED
    BY <2>1, <2>2
<1>4. OneStatementEach'
  BY <1>1, <1>2 DEF QueueInv, OneStatementEach, NoStatementOf
<1>5. AtDelta' /\ RepliesAwaited'
  BY DEF QueueInv, AtDelta, RepliesAwaited
<1> QED
  BY <1>1, <1>3, <1>4, <1>5 DEF QueueInv, Statements

\* Ending a task keeps the invariant: a statement it left queued is ignored.
LEMMA EndKeeps ==
  ASSUME TypeInv, NEW t \in Tasks, NEW x \in {"ledger", "end"},
         x = "ledger" => NoStatementOf(t),
         pc' = [pc EXCEPT ![t] = x],
         reply' = [reply EXCEPT ![t] = "none"],
         UNCHANGED <<queue, at>>
  PROVE  /\ QueueInv'
         /\ pc' \in [Tasks -> Statements \union {"idle", "ledger", "end"}]
         /\ reply' \in [Tasks -> {"none", "ok", "error"}]
<1> USE DEF TypeInv, TypeOK
<1>1. QueueMatches'
  BY DEF QueueInv, QueueMatches, NoStatementOf
<1>2. OneStatementEach'
  BY DEF QueueInv, OneStatementEach
<1>3. AtDelta' /\ RepliesAwaited'
  BY DEF QueueInv, AtDelta, RepliesAwaited
<1> QED
  BY <1>1, <1>2, <1>3 DEF QueueInv

\* Running a statement keeps the invariant.
LEMMA ServeKeeps ==
  ASSUME TypeInv, NEW s \in Statements, NEW a \in {"ok", "error"}, Serve(s, a)
  PROVE  /\ QueueInv'
         /\ queue' \in Seq(Statement)
         /\ reply' \in [Tasks -> {"none", "ok", "error"}]
         /\ Head(queue).task \in Tasks
         /\ s \in {"read", "write"} =>
              at[Head(queue).task] \in 1..Len(Deltas[Head(queue).task])
<1> USE DEF TypeInv, TypeOK, Serve, Due
<1> DEFINE h == Head(queue).task
<1>1. /\ queue \in Seq(Statement) /\ Len(queue) > 0
      /\ Head(queue) = queue[1]
      /\ h \in Tasks
  <2>1. queue \in Seq(Statement) /\ queue # <<>>
    OBVIOUS
  <2>2. Len(queue) > 0 /\ Head(queue) = queue[1] /\ queue[1] \in Statement
    BY <2>1
  <2> QED
    BY <2>1, <2>2 DEF Statement
<1>2. /\ queue' \in Seq(Statement)
      /\ Len(queue') = Len(queue) - 1
      /\ \A i \in 1..Len(queue') : queue'[i] = queue[i + 1]
  BY <1>1
<1>3. \A i \in 1..Len(queue') : queue'[i].task # h
  BY <1>1, <1>2 DEF QueueInv, OneStatementEach
<1>4. QueueMatches'
  BY <1>1, <1>2, <1>3 DEF QueueInv, QueueMatches
<1>5. OneStatementEach'
  BY <1>1, <1>2 DEF QueueInv, OneStatementEach
<1>6. AtDelta' /\ RepliesAwaited'
  BY <1>1 DEF QueueInv, AtDelta, RepliesAwaited
<1>7. s \in {"read", "write"} => at[h] \in 1..Len(Deltas[h])
  BY <1>1 DEF QueueInv, QueueMatches
<1> QED
  BY <1>1, <1>2, <1>4, <1>5, <1>6, <1>7 DEF QueueInv

\* What tasks change when they submit a statement or end.
ControlOK ==
  /\ QueueInv
  /\ queue \in Seq(Statement)
  /\ reply \in [Tasks -> {"none", "ok", "error"}]
  /\ pc \in [Tasks -> Statements \union {"idle", "ledger", "end"}]
  /\ outcome \in [Tasks -> Outcomes]
  /\ lock \in Tasks \union {NoTask}

\* A task that has its reply, or awaits none, may submit a statement.
LEMMA SubmitStep ==
  ASSUME TypeInv, NEW t \in Tasks, NEW s \in Statements,
         pc[t] \notin Statements \union {"end"} \/ reply[t] # "none",
         Submit(t, s),
         reply' = [reply EXCEPT ![t] = "none"],
         at' \in [Tasks -> Nat \ {0}],
         \A u \in Tasks : u # t => at'[u] = at[u],
         s \in {"read", "write"} => at'[t] \in 1..Len(Deltas[t])
  PROVE  ControlOK'
<1>1. NoStatementOf(t)
  BY NothingQueued
<1>2. /\ QueueInv'
      /\ queue' \in Seq(Statement)
      /\ pc' \in [Tasks -> Statements \union {"idle", "ledger", "end"}]
      /\ reply' \in [Tasks -> {"none", "ok", "error"}]
  BY <1>1, SubmitKeeps DEF Submit
<1> QED
  BY <1>2 DEF ControlOK, Submit, TypeInv, TypeOK

\* A task may end at any moment.
LEMMA FinishStep ==
  ASSUME TypeInv, NEW t \in Tasks, NEW r \in Outcomes, Finish(t, r),
         reply' = [reply EXCEPT ![t] = "none"],
         UNCHANGED at
  PROVE  ControlOK'
<1>1. /\ QueueInv'
      /\ pc' \in [Tasks -> Statements \union {"idle", "ledger", "end"}]
      /\ reply' \in [Tasks -> {"none", "ok", "error"}]
  BY EndKeeps DEF Finish
<1> QED
  BY <1>1 DEF ControlOK, Finish, TypeInv, TypeOK

\* A task that has no reply to pick up leaves the replies as they are.
LEMMA NoReply ==
  ASSUME TypeInv, NEW t \in Tasks, pc[t] \notin Statements
  PROVE  reply = [reply EXCEPT ![t] = "none"]
  BY DEF TypeInv, TypeOK, QueueInv, RepliesAwaited

\* After the ledger, or in its place, a task submits its proposed event or ends.
LEMMA AfterLedgerStep ==
  ASSUME TypeInv, NEW t \in Tasks,
         pc[t] \notin Statements \union {"end"} \/ reply[t] # "none",
         AfterLedger(t),
         reply' = [reply EXCEPT ![t] = "none"],
         UNCHANGED at
  PROVE  ControlOK'
<1>1. CASE Submit(t, "propose")
  BY <1>1, SubmitStep DEF Statements, TypeInv, TypeOK
<1>2. CASE Finish(t, "ok")
  BY <1>2, FinishStep DEF Outcomes
<1> QED
  BY <1>1, <1>2 DEF AfterLedger

LEMMA LeaveStep ==
  ASSUME TypeInv, NEW t \in Tasks, reply[t] # "none", Leave(t),
         reply' = [reply EXCEPT ![t] = "none"],
         UNCHANGED at
  PROVE  ControlOK' /\ depth' \in Int
<1>1. depth' \in Int
  BY DEF Leave, TypeInv, TypeOK
<1>2. CASE pc' = [pc EXCEPT ![t] = "ledger"] /\ UNCHANGED <<queue, outcome, lock>>
  <2>1. NoStatementOf(t)
    BY NothingQueued
  <2>2. /\ QueueInv'
        /\ pc' \in [Tasks -> Statements \union {"idle", "ledger", "end"}]
        /\ reply' \in [Tasks -> {"none", "ok", "error"}]
    BY <1>2, <2>1, EndKeeps
  <2> QED
    BY <1>1, <1>2, <2>2 DEF ControlOK, TypeInv, TypeOK
<1>3. CASE AfterLedger(t)
  BY <1>1, <1>3, AfterLedgerStep
<1> QED
  BY <1>2, <1>3 DEF Leave

LEMMA RaiseStep ==
  ASSUME TypeInv, NEW t \in Tasks, reply[t] # "none", Raise(t),
         reply' = [reply EXCEPT ![t] = "none"],
         UNCHANGED at
  PROVE  ControlOK' /\ depth' \in Int
<1>1. CASE Submit(t, "rollback") /\ UNCHANGED depth
  BY <1>1, SubmitStep DEF Statements, TypeInv, TypeOK
<1>2. CASE depth' = depth - 1 /\ Finish(t, "error")
  <2>1. ControlOK'
    BY <1>2, FinishStep DEF Outcomes
  <2> QED
    BY <1>2, <2>1 DEF TypeInv, TypeOK
<1> QED
  BY <1>1, <1>2 DEF Raise

LEMMA NextDeltaStep ==
  ASSUME TypeInv, NEW t \in Tasks, reply[t] # "none", NextDelta(t),
         reply' = [reply EXCEPT ![t] = "none"]
  PROVE  ControlOK' /\ depth' \in Int /\ at' \in [Tasks -> Nat \ {0}]
<1>1. at[t] + 1 \in Nat \ {0} /\ at' \in [Tasks -> Nat \ {0}]
      /\ at'[t] = at[t] + 1 /\ \A u \in Tasks : u # t => at'[u] = at[u]
  BY DEF NextDelta, TypeInv, TypeOK
<1>2. /\ StatementFor(t, at[t] + 1) \in {"append", "read", "write"}
      /\ StatementFor(t, at[t] + 1) # "append" => at[t] + 1 \in 1..Len(Deltas[t])
  BY <1>1, StatementForType
<1>3. StatementFor(t, at[t] + 1) \in Statements
  BY <1>2 DEF Statements
<1>4. Submit(t, StatementFor(t, at[t] + 1))
  BY DEF NextDelta
<1>5. ControlOK'
  BY <1>1, <1>2, <1>3, <1>4, SubmitStep
<1> QED
  BY <1>1, <1>5 DEF NextDelta, TypeInv, TypeOK

\* The rest of the type invariant: what only some steps change.
LEMMA TypeFromControl ==
  ASSUME ControlOK',
         depth' \in Int, inTxn' \in BOOLEAN, working' \in Store, committed' \in Store,
         role' \in [Tasks -> {"none", "outer", "nested"}],
         at' \in [Tasks -> Nat \ {0}],
         seen' \in [Tasks -> Rows],
         applied' \in [Tasks -> SUBSET Nat],
         ledger' \subseteq Tasks \X Nat,
         restarts' \in Nat
  PROVE  TypeInv'
  BY DEF ControlOK, TypeInv, TypeOK

LEMMA TypeInit == Init => TypeInv
<1> SUFFICES ASSUME Init PROVE TypeInv
  OBVIOUS
<1>1. committed \in Store
  BY DEF Init, Store, Rows, Absent
<1>2. ControlOK
  BY DEF Init, ControlOK, QueueInv, QueueMatches, OneStatementEach, AtDelta,
         RepliesAwaited, Outcomes, Statements
<1> QED
  <2>0. working \in Store
    <3>1. working = committed
      BY DEF Init
    <3> QED
      BY <1>1, <3>1
  <2>4. inTxn \in BOOLEAN
    BY DEF Init
  <2>1. /\ depth \in Int /\ restarts \in Nat
        /\ role = [t \in Tasks |-> "none"] /\ at = [t \in Tasks |-> 1]
    BY DEF Init
  <2>3. /\ role \in [Tasks -> {"none", "outer", "nested"}]
        /\ at \in [Tasks -> Nat \ {0}]
    BY <2>1
  <2>2. /\ seen \in [Tasks -> Rows]
        /\ applied \in [Tasks -> SUBSET Nat]
        /\ ledger \subseteq Tasks \X Nat
    BY DEF Init, Rows, Absent
  <2> QED
    BY <1>1, <1>2, <2>0, <2>1, <2>2, <2>3, <2>4 DEF ControlOK, TypeInv, TypeOK

\* The connection's thread keeps the type invariant.
LEMMA ServeStep ==
  ASSUME TypeInv, NEW s \in Statements, NEW a \in {"ok", "error"}, Serve(s, a),
         inTxn' \in BOOLEAN, working' \in Store, committed' \in Store,
         seen' \in [Tasks -> Rows]
  PROVE  TypeInv'
<1>1. ControlOK'
  BY ServeKeeps DEF ControlOK, Serve, TypeInv, TypeOK
<1> QED
  BY <1>1 DEF ControlOK, Serve, TypeInv, TypeOK

LEMMA WithRow ==
  ASSUME NEW s \in Store, NEW e \in Entities, NEW r \in Rows
  PROVE  [s EXCEPT !.ents[e] = r] \in Store
  BY DEF Store

LEMMA ConnectionType == TypeInv /\ Connection => TypeInv'
<1> SUFFICES ASSUME TypeInv, Connection PROVE TypeInv'
  OBVIOUS
<1> DEFINE h == Head(queue).task
<1>a. /\ inTxn \in BOOLEAN /\ working \in Store /\ committed \in Store
      /\ seen \in [Tasks -> Rows] /\ at \in [Tasks -> Nat \ {0}]
  BY DEF TypeInv, TypeOK
<1>b. \A s \in {"read", "write"}, a \in {"ok", "error"} :
        Serve(s, a) => h \in Tasks /\ Delta(h) \in StateDelta
  <2> SUFFICES ASSUME NEW s \in {"read", "write"}, NEW a \in {"ok", "error"}, Serve(s, a)
               PROVE  h \in Tasks /\ Delta(h) \in StateDelta
    OBVIOUS
  <2>1. h \in Tasks /\ at[h] \in 1..Len(Deltas[h])
    BY ServeKeeps DEF Statements
  <2>2. Deltas[h] \in Seq(StateDelta)
    BY <2>1, DeltasAssumption
  <2> QED
    BY <2>1, <2>2 DEF Delta
<1>1. CASE ServeBegin
  <2>1. CASE Serve("begin", "ok") /\ inTxn' = TRUE /\ UNCHANGED <<working, committed, seen>>
    BY <1>a, <2>1, ServeStep DEF Statements
  <2>2. CASE Serve("begin", "error") /\ UNCHANGED <<db, seen>>
    BY <1>a, <2>2, ServeStep DEF Statements, db
  <2> QED
    BY <1>1, <2>1, <2>2 DEF ServeBegin
<1>2. CASE ServeRead
  <2>1. h \in Tasks /\ Delta(h).entity \in Entities
    BY <1>2, <1>b DEF ServeRead, StateDelta
  <2>2. working.ents[Delta(h).entity] \in Rows
    BY <1>a, <2>1 DEF Store
  <2>3. seen' \in [Tasks -> Rows]
    BY <1>2, <1>a, <2>1, <2>2 DEF ServeRead
  <2> QED
    BY <1>2, <1>a, <2>3, ServeStep DEF ServeRead, Statements, db
<1>3. CASE ServeWrite
  <2>1. PICK a \in {"ok", "error"} : Serve("write", a)
    BY <1>3 DEF ServeWrite
  <2>2. h \in Tasks /\ Delta(h).entity \in Entities
    BY <2>1, <1>b DEF StateDelta
  <2>3. {h} \in Rows /\ seen[h] \union {h} \in Rows /\ Absent \in Rows
        /\ working.ents[Delta(h).entity] \in Rows
    BY <1>a, <2>2 DEF Rows, Absent, Store
  <2>4. PICK r \in Rows : working' = [working EXCEPT !.ents[Delta(h).entity] = r]
                          \/ working' = working
    BY <1>3, <2>3 DEF ServeWrite
  <2>5. working' \in Store
    BY <1>a, <2>2, <2>4, WithRow
  <2> QED
    BY <1>3, <1>a, <2>1, <2>5, ServeStep DEF ServeWrite, Statements
<1>4. ASSUME NEW s \in {"append", "propose"}, NEW k \in {"event", "proposed"},
             ServeInsert(s, k)
      PROVE  TypeInv'
  <2>1. Serve(s, "ok") /\ s \in Statements
    BY <1>4 DEF ServeInsert, Statements
  <2>2. h \in Tasks
    BY <2>1, ServeKeeps
  <2>3. working' \in Store
    BY <1>4, <1>a, <2>2 DEF ServeInsert, Store, Events
  <2> QED
    BY <1>4, <1>a, <2>1, <2>3, ServeStep DEF ServeInsert
<1>5. CASE ServeCommit
  BY <1>5, <1>a, ServeStep DEF ServeCommit, Statements
<1>6. CASE ServeRollback
  BY <1>6, <1>a, ServeStep DEF ServeRollback, Statements
<1>7. CASE ServeRefused
  <2>1. PICK s \in MayRefuse :
          Serve(s, "error") /\ inTxn' \in BOOLEAN /\ UNCHANGED <<working, committed, seen>>
    BY <1>7, <1>a DEF ServeRefused
  <2>2. s \in Statements
    BY SetsAssumption DEF Statements
  <2> QED
    BY <1>a, <2>1, <2>2, ServeStep
<1> QED
  BY <1>1, <1>2, <1>3, <1>4, <1>5, <1>6, <1>7 DEF Connection, ServeAppend, ServePropose

\* A task that resumes, starts or is cancelled keeps the type invariant.
LEMMA TaskType ==
  ASSUME TypeInv, NEW t \in Tasks,
         Start(t) \/ Resume(t) \/ LedgerFails(t) \/ Cancel(t)
  PROVE  TypeInv'
<1>a. /\ depth \in Int /\ restarts \in Nat /\ inTxn \in BOOLEAN
      /\ working \in Store /\ committed \in Store
      /\ role \in [Tasks -> {"none", "outer", "nested"}]
      /\ at \in [Tasks -> Nat \ {0}] /\ seen \in [Tasks -> Rows]
      /\ applied \in [Tasks -> SUBSET Nat] /\ ledger \subseteq Tasks \X Nat
      /\ reply \in [Tasks -> {"none", "ok", "error"}]
  BY DEF TypeInv, TypeOK
<1>b. /\ StatementFor(t, at[t]) \in Statements
      /\ StatementFor(t, at[t]) \in {"read", "write"} => at[t] \in 1..Len(Deltas[t])
  BY <1>a, StatementForType DEF Statements
<1>1. CASE Start(t)
  <2>1. pc[t] = "idle"
    BY <1>1 DEF Start
  <2>2. reply = [reply EXCEPT ![t] = "none"] /\ NoStatementOf(t)
    BY <2>1, NoReply, NothingQueued DEF Statements
  <2>3. PICK s \in {"begin", StatementFor(t, at[t])} :
          /\ queue' = Append(queue, [task |-> t, op |-> s])
          /\ pc' = [pc EXCEPT ![t] = s]
    BY <1>1 DEF Start
  <2>4. /\ s \in Statements
        /\ s \in {"read", "write"} => at'[t] \in 1..Len(Deltas[t])
        /\ reply' = [reply EXCEPT ![t] = "none"]
        /\ at' = at
    BY <1>1, <1>b, <2>2 DEF Start, Statements
  <2>5. /\ QueueInv'
        /\ queue' \in Seq(Statement)
        /\ pc' \in [Tasks -> Statements \union {"idle", "ledger", "end"}]
        /\ reply' \in [Tasks -> {"none", "ok", "error"}]
    BY <1>a, <2>2, <2>3, <2>4, SubmitKeeps
  <2>6. ControlOK'
    BY <1>1, <2>5 DEF Start, ControlOK, TypeInv, TypeOK
  <2>7. depth' \in Int /\ role' \in [Tasks -> {"none", "outer", "nested"}]
    <3>1. depth' = depth + 1 /\ \E r \in {"outer", "nested"} : role' = [role EXCEPT ![t] = r]
      BY <1>1 DEF Start
    <3> QED
      BY <1>a, <3>1
  <2> QED
    BY <1>1, <1>a, <2>6, <2>7, TypeFromControl DEF Start, db
<1>2. CASE Resume(t)
  <2>1. CASE Began(t)
    <3>1. reply[t] # "none" /\ reply' = [reply EXCEPT ![t] = "none"] /\ at' = at
      BY <2>1 DEF Began, PickUp, progress
    <3>2. ControlOK'
      BY <1>a, <1>b, <2>1, <3>1, SubmitStep DEF Began
    <3> QED
      BY <1>a, <2>1, <3>2, TypeFromControl DEF Began, db, progress
  <2>2. CASE BeginFailed(t)
    <3>1. reply' = [reply EXCEPT ![t] = "none"] /\ at' = at
      BY <2>2 DEF BeginFailed, PickUp, progress
    <3>2. ControlOK'
      BY <2>2, <3>1, FinishStep DEF BeginFailed, Outcomes
    <3> QED
      BY <1>a, <2>2, <3>2, TypeFromControl DEF BeginFailed, db, progress
  <2>3. CASE ReadDone(t)
    <3>1. /\ reply[t] # "none" /\ reply' = [reply EXCEPT ![t] = "none"]
          /\ pc[t] = "read"
      BY <2>3 DEF ReadDone, PickUp
    <3>2. at[t] \in 1..Len(Deltas[t])
      BY <3>1 DEF TypeInv, QueueInv, AtDelta
    <3>3. CASE Submit(t, "write") /\ UNCHANGED <<depth, at>>
      <4>1. ControlOK'
        BY <1>a, <3>1, <3>2, <3>3, SubmitStep DEF Statements
      <4> QED
        BY <1>a, <2>3, <3>3, <4>1, TypeFromControl DEF ReadDone, db
    <3>4. CASE Raise(t) /\ UNCHANGED at
      <4>1. ControlOK' /\ depth' \in Int
        BY <3>1, <3>4, RaiseStep
      <4> QED
        BY <1>a, <2>3, <3>4, <4>1, TypeFromControl DEF ReadDone, db
    <3>5. CASE NextDelta(t)
      <4>1. ControlOK' /\ depth' \in Int /\ at' \in [Tasks -> Nat \ {0}]
        BY <3>1, <3>5, NextDeltaStep
      <4> QED
        BY <1>a, <2>3, <4>1, TypeFromControl DEF ReadDone, db
    <3> QED
      BY <2>3, <3>3, <3>4, <3>5 DEF ReadDone
  <2>4. CASE WriteDone(t)
    <3>1. reply[t] # "none" /\ reply' = [reply EXCEPT ![t] = "none"]
      BY <2>4 DEF WriteDone, PickUp
    <3>2. CASE NextDelta(t) /\ applied' = [applied EXCEPT ![t] = @ \union {at[t]}]
      <4>1. ControlOK' /\ depth' \in Int /\ at' \in [Tasks -> Nat \ {0}]
        BY <3>1, <3>2, NextDeltaStep
      <4>2. applied' \in [Tasks -> SUBSET Nat]
        BY <1>a, <3>2
      <4> QED
        BY <1>a, <2>4, <4>1, <4>2, TypeFromControl DEF WriteDone, db
    <3>3. CASE Raise(t) /\ UNCHANGED <<applied, at>>
      <4>1. ControlOK' /\ depth' \in Int
        BY <3>1, <3>3, RaiseStep
      <4> QED
        BY <1>a, <2>4, <3>3, <4>1, TypeFromControl DEF WriteDone, db
    <3> QED
      BY <2>4, <3>2, <3>3 DEF WriteDone
  <2>5. CASE RolledBack(t)
    <3>1. reply' = [reply EXCEPT ![t] = "none"] /\ at' = at /\ depth' \in Int
      BY <1>a, <2>5 DEF RolledBack, PickUp, progress
    <3>2. ControlOK'
      BY <2>5, <3>1, FinishStep DEF RolledBack, Outcomes
    <3> QED
      BY <1>a, <2>5, <3>1, <3>2, TypeFromControl DEF RolledBack, db, progress
  <2>6. CASE Appended(t)
    <3>1. reply[t] # "none" /\ reply' = [reply EXCEPT ![t] = "none"] /\ at' = at
      BY <2>6 DEF Appended, PickUp, progress
    <3>2. CASE Submit(t, "commit") /\ UNCHANGED depth
      <4>1. ControlOK'
        BY <1>a, <3>1, <3>2, SubmitStep DEF Statements
      <4> QED
        BY <1>a, <2>6, <3>2, <4>1, TypeFromControl DEF Appended, db, progress
    <3>3. CASE Leave(t)
      <4>1. ControlOK' /\ depth' \in Int
        BY <3>1, <3>3, LeaveStep
      <4> QED
        BY <1>a, <2>6, <4>1, TypeFromControl DEF Appended, db, progress
    <3> QED
      BY <2>6, <3>2, <3>3 DEF Appended
  <2>7. CASE CommitDone(t)
    <3>1. reply[t] # "none" /\ reply' = [reply EXCEPT ![t] = "none"] /\ at' = at
      BY <2>7 DEF CommitDone, PickUp, progress
    <3>2. ControlOK' /\ depth' \in Int
      BY <2>7, <3>1, LeaveStep DEF CommitDone
    <3> QED
      BY <1>a, <2>7, <3>2, TypeFromControl DEF CommitDone, db, progress
  <2>8. CASE LedgerAppend(t)
    <3>1. pc[t] = "ledger" /\ at' = at /\ reply' = reply
      BY <2>8 DEF LedgerAppend, progress
    <3>2. reply' = [reply EXCEPT ![t] = "none"]
      BY <3>1, NoReply DEF Statements
    <3>3. PICK i \in Unledgered(t) :
            /\ ledger' = ledger \union {<<t, i>>}
            /\ UNCHANGED <<pc, queue, outcome, lock>> \/ AfterLedger(t)
      BY <2>8 DEF LedgerAppend
    <3>4. ledger' \subseteq Tasks \X Nat
      BY <1>a, <3>3 DEF Unledgered
    <3>5. ControlOK'
      <4>1. CASE UNCHANGED <<pc, queue, outcome, lock>>
        BY <3>1, <4>1 DEF ControlOK, TypeInv, TypeOK, QueueInv, QueueMatches,
                          OneStatementEach, AtDelta, RepliesAwaited
      <4>2. CASE AfterLedger(t)
        <5>1. pc[t] \notin Statements \union {"end"}
          BY <3>1 DEF Statements
        <5> QED
          BY <3>1, <3>2, <4>2, <5>1, AfterLedgerStep
      <4> QED
        BY <3>3, <4>1, <4>2
    <3> QED
      BY <1>a, <2>8, <3>4, <3>5, TypeFromControl DEF LedgerAppend, db, progress
  <2>9. CASE Proposed(t)
    <3>1. reply[t] # "none" /\ reply' = [reply EXCEPT ![t] = "none"] /\ at' = at
      BY <2>9 DEF Proposed, PickUp, progress
    <3>2. CASE Submit(t, "autocommit")
      <4>1. ControlOK'
        BY <1>a, <3>1, <3>2, SubmitStep DEF Statements
      <4> QED
        BY <1>a, <2>9, <4>1, TypeFromControl DEF Proposed, db, progress
    <3>3. CASE Finish(t, "ok")
      <4>1. ControlOK'
        BY <3>1, <3>3, FinishStep DEF Outcomes
      <4> QED
        BY <1>a, <2>9, <4>1, TypeFromControl DEF Proposed, db, progress
    <3> QED
      BY <2>9, <3>2, <3>3 DEF Proposed
  <2>10. CASE AutoCommitted(t)
    <3>1. reply' = [reply EXCEPT ![t] = "none"] /\ at' = at
      BY <2>10 DEF AutoCommitted, PickUp, progress
    <3>2. ControlOK'
      BY <2>10, <3>1, FinishStep DEF AutoCommitted, Outcomes
    <3> QED
      BY <1>a, <2>10, <3>2, TypeFromControl DEF AutoCommitted, db, progress
  <2>11. CASE Refused(t)
    <3>1. reply[t] # "none" /\ reply' = [reply EXCEPT ![t] = "none"] /\ at' = at
      BY <2>11 DEF Refused, PickUp, progress
    <3>2. ControlOK' /\ depth' \in Int
      <4>1. CASE Raise(t)
        BY <3>1, <4>1, RaiseStep
      <4>2. CASE Finish(t, "late") /\ UNCHANGED depth
        BY <1>a, <3>1, <4>2, FinishStep DEF Outcomes
      <4> QED
        BY <2>11, <4>1, <4>2 DEF Refused
    <3> QED
      BY <1>a, <2>11, <3>2, TypeFromControl DEF Refused, db, progress
  <2> QED
    BY <1>2, <2>1, <2>2, <2>3, <2>4, <2>5, <2>6, <2>7, <2>8, <2>9, <2>10, <2>11 DEF Resume
<1>3. CASE LedgerFails(t)
  <2>1. reply' = [reply EXCEPT ![t] = "none"] /\ at' = at
    BY <1>3, NoReply DEF LedgerFails, progress, Statements
  <2>2. ControlOK'
    BY <1>3, <2>1, FinishStep DEF LedgerFails, Outcomes
  <2> QED
    BY <1>a, <1>3, <2>2, TypeFromControl DEF LedgerFails, db, progress
<1>4. CASE Cancel(t)
  <2>1. reply' = [reply EXCEPT ![t] = "none"] /\ at' = at /\ depth' \in Int
    BY <1>a, <1>4 DEF Cancel, progress
  <2>2. ControlOK'
    BY <1>4, <2>1, FinishStep DEF Cancel, Outcomes
  <2> QED
    BY <1>a, <1>4, <2>1, <2>2, TypeFromControl DEF Cancel, db, progress
<1> QED
  BY <1>1, <1>2, <1>3, <1>4

LEMMA RestartType == TypeInv /\ Restart => TypeInv'
<1> SUFFICES ASSUME TypeInv, Restart PROVE TypeInv'
  OBVIOUS
<1>1. ControlOK'
  <2>1. queue' = <<>> /\ Len(queue') = 0 /\ queue' \in Seq(Statement)
    BY DEF Restart
  <2>2. \A t \in Tasks : pc'[t] \in {"idle", "end"} /\ reply'[t] = "none"
    BY DEF Restart, Running, TypeInv, TypeOK
  <2>3. QueueInv'
    BY <2>1, <2>2 DEF QueueInv, QueueMatches, OneStatementEach, AtDelta, RepliesAwaited
  <2> QED
    BY <2>1, <2>3 DEF Restart, ControlOK, TypeInv, TypeOK, Outcomes, Running
<1>0. inTxn' \in BOOLEAN
  BY DEF Restart
<1>2. depth' = 0 /\ working' = committed
      /\ restarts' = restarts + 1 /\ UNCHANGED <<committed, progress, ledger>>
  BY DEF Restart
<1>3. /\ depth' \in Int
      /\ working' \in Store /\ committed' \in Store
      /\ role' \in [Tasks -> {"none", "outer", "nested"}]
      /\ at' \in [Tasks -> Nat \ {0}] /\ seen' \in [Tasks -> Rows]
      /\ applied' \in [Tasks -> SUBSET Nat] /\ ledger' \subseteq Tasks \X Nat
      /\ restarts' \in Nat
  BY <1>2 DEF progress, TypeInv, TypeOK
<1> QED
  BY <1>0, <1>1, <1>3, TypeFromControl

LEMMA TypeStep == TypeInv /\ [Next]_vars => TypeInv'
<1> SUFFICES ASSUME TypeInv, [Next]_vars PROVE TypeInv'
  OBVIOUS
<1>1. CASE Connection
  BY <1>1, ConnectionType
<1>2. CASE \E t \in Tasks : Start(t) \/ Resume(t) \/ LedgerFails(t) \/ Cancel(t)
  BY <1>2, TaskType
<1>3. CASE Restart
  BY <1>3, RestartType
<1>4. CASE UNCHANGED vars
  BY <1>4 DEF TypeInv, TypeOK, QueueInv, QueueMatches, OneStatementEach, AtDelta,
              RepliesAwaited, vars, db, progress
<1> QED
  BY <1>1, <1>2, <1>3, <1>4 DEF Next, Finished

LEMMA TypeAlways == Spec => []TypeInv
  BY TypeInit, TypeStep, PTL DEF Spec

\* Every state of the commit step, with any number of tasks and deltas, any
\* cancellation and any restart, is well typed; and each task has at most one
\* statement queued on the connection, the one it awaits unless it was
\* cancelled (state/engine.py, execute(); sqlite.py, transaction()).
THEOREM TypeCorrect == Spec => []TypeOK
<1>1. TypeInv => TypeOK
  BY DEF TypeInv
<1> QED
  BY TypeAlways, <1>1, PTL

-----------------------------------------------------------------------------
(* The counter covers the tasks; one owner; the wedged transaction.        *)

\* What one step of a task does to the transaction's counter and members.
Enters(t) ==
  /\ t \notin InTransaction
  /\ InTransaction' = InTransaction \union {t}
  /\ depth' = depth + 1
  /\ role' = [role EXCEPT ![t] = IF depth = 0 THEN "outer" ELSE "nested"]
Stays ==
  /\ InTransaction' = InTransaction
  /\ UNCHANGED <<depth, role>>
Leaves(t) ==
  /\ t \in InTransaction
  /\ InTransaction' = InTransaction \ {t}
  /\ depth' = depth - 1
  /\ UNCHANGED role
Drops(t) ==
  /\ Entering(t)
  /\ InTransaction' = InTransaction \ {t}
  /\ UNCHANGED <<depth, role>>

\* A task that changes its state from x to y changes the members accordingly.
LEMMA MembersAfter ==
  ASSUME TypeInv, NEW t \in Tasks, NEW y, pc' = [pc EXCEPT ![t] = y]
  PROVE  InTransaction' = IF y \in BodyStates \union {"begin"}
                          THEN InTransaction \union {t} ELSE InTransaction \ {t}
  BY DEF InTransaction, Inside, Entering, TypeInv, TypeOK

LEMMA TaskMoves ==
  ASSUME TypeInv, NEW t \in Tasks,
         Start(t) \/ Resume(t) \/ LedgerFails(t) \/ Cancel(t)
  PROVE  Enters(t) \/ Stays \/ Leaves(t) \/ Drops(t)
<1> USE DEF BodyStates
<1>a. t \in InTransaction <=> pc[t] \in BodyStates \union {"begin"}
  BY DEF InTransaction, Inside, Entering
<1>b. \A i \in Nat \ {0} : StatementFor(t, i) \in BodyStates
  BY StatementForType
<1>c. at[t] \in Nat \ {0} /\ depth \in Int
      /\ pc \in [Tasks -> Statements \union {"idle", "ledger", "end"}]
  BY DEF TypeInv, TypeOK
<1>d. ASSUME NEW s, Submit(t, s)
      PROVE  InTransaction' = IF s \in BodyStates \union {"begin"}
                              THEN InTransaction \union {t} ELSE InTransaction \ {t}
  BY <1>d, MembersAfter DEF Submit
<1>e. ASSUME NEW r, Finish(t, r)
      PROVE  InTransaction' = InTransaction \ {t}
  BY <1>e, MembersAfter DEF Finish
<1>f. ASSUME AfterLedger(t) PROVE InTransaction' = InTransaction \ {t}
  BY <1>f, <1>d, <1>e DEF AfterLedger
<1>g. ASSUME Leave(t) PROVE InTransaction' = InTransaction \ {t}
  BY <1>g, <1>f, MembersAfter DEF Leave
<1>h. ASSUME NextDelta(t) PROVE InTransaction' = InTransaction \union {t} /\ depth' = depth
  BY <1>b, <1>c, <1>d, <1>h DEF NextDelta
<1>i. ASSUME Raise(t), t \in InTransaction
      PROVE  \/ InTransaction' = InTransaction /\ depth' = depth
             \/ InTransaction' = InTransaction \ {t} /\ depth' = depth - 1
  BY <1>d, <1>e, <1>i DEF Raise
<1>1. CASE Start(t)
  <2>1. t \notin InTransaction
    BY <1>1, <1>a DEF Start
  <2>2. PICK s \in BodyStates \union {"begin"} : pc' = [pc EXCEPT ![t] = s]
    BY <1>1, <1>b, <1>c DEF Start
  <2>3. InTransaction' = InTransaction \union {t}
    BY <2>2, MembersAfter
  <2>4. depth' = depth + 1
        /\ role' = [role EXCEPT ![t] = IF depth = 0 THEN "outer" ELSE "nested"]
    BY <1>1, <1>c DEF Start
  <2> QED
    BY <2>1, <2>3, <2>4 DEF Enters
<1>2. CASE Resume(t)
  <2>1. CASE Began(t)
    <3>1. t \in InTransaction /\ InTransaction' = InTransaction \union {t}
      BY <1>a, <1>b, <1>c, <1>d, <2>1 DEF Began, PickUp
    <3> QED
      BY <2>1, <3>1 DEF Began, Stays, progress
  <2>2. CASE BeginFailed(t)
    <3>1. Entering(t) /\ InTransaction' = InTransaction \ {t}
      BY <1>e, <2>2 DEF BeginFailed, PickUp, Entering
    <3> QED
      BY <2>2, <3>1 DEF BeginFailed, Drops, progress
  <2>3. CASE ReadDone(t)
    <3>1. t \in InTransaction /\ role' = role
      BY <1>a, <2>3 DEF ReadDone, PickUp
    <3>2. CASE Submit(t, "write") /\ UNCHANGED <<depth, at>>
      BY <1>d, <3>1, <3>2 DEF Stays
    <3>3. CASE Raise(t)
      BY <1>i, <3>1, <3>3 DEF Stays, Leaves
    <3>4. CASE NextDelta(t)
      BY <1>h, <3>1, <3>4 DEF Stays
    <3> QED
      BY <2>3, <3>2, <3>3, <3>4 DEF ReadDone
  <2>4. CASE WriteDone(t)
    <3>1. t \in InTransaction /\ role' = role
      BY <1>a, <2>4 DEF WriteDone, PickUp
    <3>2. CASE Raise(t)
      BY <1>i, <3>1, <3>2 DEF Stays, Leaves
    <3>3. CASE NextDelta(t)
      BY <1>h, <3>1, <3>3 DEF Stays
    <3> QED
      BY <2>4, <3>2, <3>3 DEF WriteDone
  <2>5. CASE RolledBack(t)
    <3>1. t \in InTransaction /\ InTransaction' = InTransaction \ {t}
      BY <1>a, <1>e, <2>5 DEF RolledBack, PickUp
    <3> QED
      BY <2>5, <3>1 DEF RolledBack, Leaves, progress
  <2>6. CASE Appended(t)
    <3>1. t \in InTransaction /\ role' = role
      BY <1>a, <2>6 DEF Appended, PickUp, progress
    <3>2. CASE Submit(t, "commit") /\ UNCHANGED depth
      BY <1>d, <3>1, <3>2 DEF Stays
    <3>3. CASE Leave(t)
      BY <1>g, <3>1, <3>3 DEF Leaves, Leave
    <3> QED
      BY <2>6, <3>2, <3>3 DEF Appended
  <2>7. CASE CommitDone(t)
    <3>1. t \in InTransaction /\ role' = role
      BY <1>a, <2>7 DEF CommitDone, PickUp, progress
    <3> QED
      BY <1>g, <2>7, <3>1 DEF Leaves, Leave, CommitDone
  <2>8. CASE LedgerAppend(t)
    <3>1. t \notin InTransaction /\ UNCHANGED <<depth, role>>
      BY <1>a, <2>8 DEF LedgerAppend, progress
    <3>2. CASE UNCHANGED pc
      BY <3>1, <3>2 DEF Stays, InTransaction, Inside, Entering
    <3>3. CASE AfterLedger(t)
      BY <1>f, <3>1, <3>3 DEF Stays
    <3> QED
      BY <2>8, <3>2, <3>3 DEF LedgerAppend
  <2>9. CASE Proposed(t)
    <3>1. t \notin InTransaction /\ UNCHANGED <<depth, role>>
      BY <1>a, <2>9 DEF Proposed, PickUp, progress
    <3>2. Submit(t, "autocommit") \/ Finish(t, "ok")
      BY <2>9 DEF Proposed
    <3> QED
      BY <1>d, <1>e, <3>1, <3>2 DEF Stays
  <2>10. CASE AutoCommitted(t)
    <3>1. t \notin InTransaction /\ UNCHANGED <<depth, role>>
      BY <1>a, <2>10 DEF AutoCommitted, PickUp, progress
    <3> QED
      BY <1>e, <2>10, <3>1 DEF AutoCommitted, Stays
  <2>11. CASE Refused(t)
    <3>1. role' = role
      BY <2>11 DEF Refused, progress
    <3>2. CASE Raise(t) /\ pc[t] \in BodyStates
      BY <1>a, <1>i, <3>1, <3>2 DEF Stays, Leaves
    <3>3. CASE pc[t] \in {"propose", "autocommit"} /\ Finish(t, "late") /\ UNCHANGED depth
      BY <1>a, <1>e, <3>1, <3>3 DEF Stays
    <3> QED
      BY <2>11, <3>2, <3>3 DEF Refused, PickUp, BodyStates
  <2> QED
    BY <1>2, <2>1, <2>2, <2>3, <2>4, <2>5, <2>6, <2>7, <2>8, <2>9, <2>10, <2>11 DEF Resume
<1>3. CASE LedgerFails(t)
  <2>1. t \notin InTransaction /\ UNCHANGED <<depth, role>>
    BY <1>a, <1>3 DEF LedgerFails, progress
  <2> QED
    BY <1>e, <1>3, <2>1 DEF LedgerFails, Stays
<1>4. CASE Cancel(t)
  <2>1. InTransaction' = InTransaction \ {t} /\ UNCHANGED role
    BY <1>e, <1>4 DEF Cancel, progress
  <2>2. CASE Inside(t)
    BY <1>4, <1>a, <2>1, <2>2 DEF Cancel, Leaves, Inside
  <2>3. CASE ~Inside(t) /\ Entering(t)
    BY <1>4, <2>1, <2>3 DEF Cancel, Drops
  <2>4. CASE ~Inside(t) /\ ~Entering(t)
    BY <1>4, <1>a, <2>1, <2>4 DEF Cancel, Stays, Inside, Entering
  <2> QED
    BY <2>2, <2>3, <2>4
<1> QED
  BY <1>1, <1>2, <1>3, <1>4

LEMMA MembersFinite ==
  ASSUME TRUE
  PROVE  IsFiniteSet(InTransaction) /\ Cardinality(InTransaction) \in Nat
         /\ IsFiniteSet(InTransaction')
<1>1. InTransaction \subseteq Tasks /\ InTransaction' \subseteq Tasks
  BY DEF InTransaction
<1> QED
  BY <1>1, TasksAssumption, FS_Subset, FS_CardinalityType

\* How far the counter is above the number of members: only the task whose
\* BEGIN fails, or is cancelled, changes it.
LEMMA GapStep ==
  ASSUME TypeInv, NEW t \in Tasks
  PROVE  /\ Enters(t) \/ Stays \/ Leaves(t) =>
              depth' - Cardinality(InTransaction') = depth - Cardinality(InTransaction)
         /\ Drops(t) =>
              depth' - Cardinality(InTransaction') = depth - Cardinality(InTransaction) + 1
<1>0. depth \in Int
  BY DEF TypeInv, TypeOK
<1>a. IsFiniteSet(InTransaction) /\ Cardinality(InTransaction) \in Nat
  BY MembersFinite
<1>1. ASSUME Enters(t)
      PROVE  depth' - Cardinality(InTransaction') = depth - Cardinality(InTransaction)
  <2>1. Cardinality(InTransaction') = Cardinality(InTransaction) + 1
    BY <1>a, <1>1, FS_AddElement DEF Enters
  <2> QED
    BY <1>0, <1>a, <1>1, <2>1 DEF Enters
<1>2. ASSUME Stays
      PROVE  depth' - Cardinality(InTransaction') = depth - Cardinality(InTransaction)
  BY <1>2 DEF Stays
<1>3. ASSUME Leaves(t)
      PROVE  depth' - Cardinality(InTransaction') = depth - Cardinality(InTransaction)
  <2>1. Cardinality(InTransaction') = Cardinality(InTransaction) - 1
    BY <1>a, <1>3, FS_RemoveElement DEF Leaves
  <2> QED
    BY <1>0, <1>a, <1>3, <2>1 DEF Leaves
<1>4. ASSUME Drops(t)
      PROVE  depth' - Cardinality(InTransaction') = depth - Cardinality(InTransaction) + 1
  <2>1. t \in InTransaction
    BY <1>4 DEF Drops, InTransaction
  <2>2. Cardinality(InTransaction') = Cardinality(InTransaction) - 1
    BY <1>a, <1>4, <2>1, FS_RemoveElement DEF Drops
  <2> QED
    BY <1>0, <1>a, <1>4, <2>2 DEF Drops
<1> QED
  BY <1>1, <1>2, <1>3, <1>4

\* A task that resumes or is cancelled does not come to await BEGIN.
LEMMA NewState ==
  ASSUME TypeInv, NEW t \in Tasks, Resume(t) \/ LedgerFails(t) \/ Cancel(t)
  PROVE  \E x \in (Statements \ {"begin"}) \union {"ledger", "end"} :
           pc' = [pc EXCEPT ![t] = x]
<1> DEFINE New == (Statements \ {"begin"}) \union {"ledger", "end"}
           Goes == \E x \in New : pc' = [pc EXCEPT ![t] = x]
<1>a. at[t] \in Nat \ {0} /\ pc \in [Tasks -> Statements \union {"idle", "ledger", "end"}]
  BY DEF TypeInv, TypeOK
<1>b. \A i \in Nat \ {0} : StatementFor(t, i) \in New
  BY StatementForType DEF Statements
<1>1. ASSUME NEW s \in New, Submit(t, s) PROVE Goes
  BY <1>1 DEF Submit
<1>2. ASSUME NEW r, Finish(t, r) PROVE Goes
  BY <1>2 DEF Finish
<1>3. ASSUME AfterLedger(t) PROVE Goes
  BY <1>1, <1>2, <1>3 DEF AfterLedger, Statements
<1>4. ASSUME Leave(t) PROVE Goes
  BY <1>3, <1>4 DEF Leave
<1>5. ASSUME NextDelta(t) PROVE Goes
  BY <1>1, <1>5, <1>a, <1>b DEF NextDelta
<1>6. ASSUME Raise(t) PROVE Goes
  BY <1>1, <1>2, <1>6 DEF Raise, Statements
<1>7. CASE LedgerAppend(t)
  <2>1. pc[t] = "ledger" /\ (pc' = pc \/ AfterLedger(t))
    BY <1>7 DEF LedgerAppend
  <2> QED
    BY <1>3, <1>a, <2>1
<1>8. CASE Began(t)
  BY <1>1, <1>8, <1>a, <1>b DEF Began
<1>9. CASE ReadDone(t) \/ WriteDone(t) \/ Appended(t)
  BY <1>1, <1>4, <1>5, <1>6, <1>9 DEF ReadDone, WriteDone, Appended, Statements
<1>10. CASE BeginFailed(t) \/ RolledBack(t) \/ AutoCommitted(t) \/ LedgerFails(t) \/ Cancel(t)
  BY <1>2, <1>10 DEF BeginFailed, RolledBack, AutoCommitted, LedgerFails, Cancel
<1>11. CASE CommitDone(t) \/ Proposed(t)
  BY <1>1, <1>2, <1>4, <1>11 DEF CommitDone, Proposed, Statements
<1>12. CASE Refused(t)
  BY <1>2, <1>6, <1>12 DEF Refused
<1> QED
  BY <1>7, <1>8, <1>9, <1>10, <1>11, <1>12 DEF Resume

\* Only an outermost task awaits BEGIN; with the counter above the number of
\* members nobody is outermost.
BeginnersOwn == \A t \in Tasks : Entering(t) => role[t] = "outer"
WedgedNoOwner == Wedged => \A t \in Tasks : ~Owner(t)
CountInv == DepthCoversTasks /\ OneOwner /\ BeginnersOwn /\ WedgedNoOwner

LEMMA CountInit == Init => CountInv
<1> SUFFICES ASSUME Init PROVE CountInv
  OBVIOUS
<1>1. InTransaction = {}
  BY DEF Init, InTransaction, Inside, Entering, BodyStates
<1>2. Cardinality(InTransaction) = 0 /\ depth = 0
  BY <1>1, FS_EmptySet DEF Init
<1> QED
  BY <1>1, <1>2 DEF Init, CountInv, DepthCoversTasks, OneOwner, BeginnersOwn,
                    WedgedNoOwner, Wedged, Owner, Entering

\* Nobody is in transaction() when the counter is zero.
LEMMA ZeroMeansNobody ==
  ASSUME DepthCoversTasks, depth = 0
  PROVE  InTransaction = {}
  BY MembersFinite, FS_EmptySet DEF DepthCoversTasks

LEMMA CountTaskStep ==
  ASSUME TypeInv, CountInv, NEW t \in Tasks,
         Start(t) \/ Resume(t) \/ LedgerFails(t) \/ Cancel(t)
  PROVE  CountInv'
<1> DEFINE gap == depth - Cardinality(InTransaction)
<1>a. Enters(t) \/ Stays \/ Leaves(t) \/ Drops(t)
  BY TaskMoves
<1>b. /\ depth \in Int /\ Cardinality(InTransaction) \in Nat
      /\ depth' \in Int /\ Cardinality(InTransaction') \in Nat
      /\ role \in [Tasks -> {"none", "outer", "nested"}]
      /\ pc \in [Tasks -> Statements \union {"idle", "ledger", "end"}]
  <2>1. TypeInv'
    BY TaskType
  <2> QED
    BY <2>1, MembersFinite, FS_CardinalityType DEF TypeInv, TypeOK
<1>c. DepthCoversTasks'
  BY <1>a, <1>b, GapStep DEF CountInv, DepthCoversTasks
<1>d. BeginnersOwn'
  <2>1. CASE Start(t)
    <3>1. \A u \in Tasks : pc'[u] = "begin" => pc[u] = "begin" \/ (u = t /\ depth = 0)
      <4>1. at[t] \in Nat \ {0}
        BY DEF TypeInv, TypeOK
      <4>2. StatementFor(t, at[t]) # "begin"
        BY <4>1, StatementForType
      <4> QED
        BY <1>b, <2>1, <4>2 DEF Start
    <3>2. /\ pc[t] # "begin"
          /\ \A u \in Tasks : u # t => role'[u] = role[u]
          /\ depth = 0 => role'[t] = "outer"
      BY <1>b, <2>1 DEF Start
    <3>3. \A u \in Tasks : pc[u] = "begin" => role[u] = "outer"
      BY DEF CountInv, BeginnersOwn, Entering
    <3>4. SUFFICES ASSUME NEW u \in Tasks, pc'[u] = "begin" PROVE role'[u] = "outer"
      BY DEF BeginnersOwn, Entering
    <3>5. CASE u = t
      BY <3>1, <3>2, <3>4, <3>5
    <3>6. CASE u # t
      BY <3>1, <3>2, <3>3, <3>4, <3>6
    <3> QED
      BY <3>5, <3>6
  <2>2. CASE Resume(t) \/ LedgerFails(t) \/ Cancel(t)
    <3>1. \A u \in Tasks : pc'[u] = "begin" => pc[u] = "begin"
      BY <1>b, <2>2, NewState
    <3>2. role' = role
      BY <2>2 DEF Resume, LedgerFails, Cancel, Began, BeginFailed, ReadDone, WriteDone,
         RolledBack, Appended, CommitDone, LedgerAppend, Proposed, AutoCommitted, Refused, progress
    <3> QED
      BY <3>1, <3>2 DEF CountInv, BeginnersOwn, Entering
  <2> QED
    BY <2>1, <2>2
<1>e. OneOwner' /\ WedgedNoOwner'
  <2>1. CASE Enters(t)
    <3>1. gap' = gap
      BY <2>1, GapStep
    <3>2. CASE depth = 0
      <4>1. InTransaction = {} /\ gap = 0
        BY <1>b, <3>2, ZeroMeansNobody, FS_EmptySet DEF CountInv
      <4>2. InTransaction' = {t}
        BY <2>1, <4>1 DEF Enters
      <4>3. gap' = 0
        BY <3>1, <4>1
      <4>4. ~Wedged'
        BY <1>b, <4>3 DEF Wedged
      <4> QED
        BY <4>2, <4>4 DEF OneOwner, WedgedNoOwner, Owner
    <3>3. CASE depth # 0
      <4>1. \A u \in Tasks : Owner(u)' => Owner(u)
        BY <1>b, <2>1, <3>3 DEF Enters, Owner
      <4>2. Wedged' => Wedged
        BY <1>b, <3>1 DEF Wedged
      <4> QED
        BY <4>1, <4>2 DEF CountInv, OneOwner, WedgedNoOwner
    <3> QED
      BY <3>2, <3>3
  <2>2. CASE Stays \/ Leaves(t)
    <3>1. \A u \in Tasks : Owner(u)' => Owner(u)
      BY <2>2 DEF Stays, Leaves, Owner
    <3>2. gap' = gap
      BY <2>2, GapStep
    <3>3. Wedged' => Wedged
      BY <1>b, <3>2 DEF Wedged
    <3> QED
      BY <3>1, <3>3 DEF CountInv, OneOwner, WedgedNoOwner
  <2>3. CASE Drops(t)
    <3>1. Owner(t)
      BY <2>3 DEF Drops, CountInv, BeginnersOwn, Owner, InTransaction
    <3>2. \A u \in Tasks : ~Owner(u)'
      BY <2>3, <3>1 DEF Drops, CountInv, OneOwner, Owner
    <3> QED
      BY <3>2 DEF OneOwner, WedgedNoOwner
  <2> QED
    BY <1>a, <2>1, <2>2, <2>3
<1> QED
  BY <1>c, <1>d, <1>e DEF CountInv

\* The connection's thread changes neither the counter nor the members.
LEMMA CountFrame ==
  ASSUME CountInv, UNCHANGED <<depth, pc, role>>
  PROVE  CountInv'
  BY DEF CountInv, DepthCoversTasks, OneOwner, BeginnersOwn, WedgedNoOwner, Wedged,
         Owner, InTransaction, Inside, Entering

LEMMA ConnectionFrame ==
  ASSUME Connection
  PROVE  UNCHANGED <<depth, pc, role, at, applied, ledger, outcome, lock, restarts>>
  BY DEF Connection, ServeBegin, ServeRead, ServeWrite, ServeAppend, ServePropose,
         ServeInsert, ServeCommit, ServeRefused, ServeRollback, Serve

LEMMA RestartMembers ==
  ASSUME TypeInv, Restart
  PROVE  InTransaction' = {} /\ depth' = 0
  BY DEF Restart, InTransaction, Inside, Entering, Running, BodyStates, TypeInv, TypeOK

LEMMA CountStep == TypeInv /\ CountInv /\ [Next]_vars => CountInv'
<1> SUFFICES ASSUME TypeInv, CountInv, [Next]_vars PROVE CountInv'
  OBVIOUS
<1>1. CASE Connection
  BY <1>1, ConnectionFrame, CountFrame
<1>2. CASE \E t \in Tasks : Start(t) \/ Resume(t) \/ LedgerFails(t) \/ Cancel(t)
  BY <1>2, CountTaskStep
<1>3. CASE Restart
  <2>1. InTransaction' = {} /\ depth' = 0 /\ Cardinality(InTransaction') = 0
    BY <1>3, RestartMembers, FS_EmptySet
  <2> QED
    BY <2>1 DEF CountInv, DepthCoversTasks, OneOwner, BeginnersOwn, WedgedNoOwner,
                Wedged, Owner, Entering, InTransaction
<1>4. CASE UNCHANGED vars
  BY <1>4, CountFrame DEF vars, progress
<1> QED
  BY <1>1, <1>2, <1>3, <1>4 DEF Next, Finished

LEMMA CountAlways == Spec => [](TypeInv /\ CountInv)
  BY TypeInit, TypeStep, CountInit, CountStep, PTL DEF Spec

\* Whatever order any number of tasks enter, fail, are cancelled and leave
\* transaction() in, the shared counter never falls below the number of tasks
\* inside (sqlite.py, transaction()).
THEOREM CounterCovers == Spec => []DepthCoversTasks
<1>1. CountInv => DepthCoversTasks
  BY DEF CountInv
<1> QED
  BY CountAlways, <1>1, PTL

\* At most one task at a time issues BEGIN, COMMIT and ROLLBACK
\* (sqlite.py, transaction()).
THEOREM SingleOwner == Spec => []OneOwner
<1>1. CountInv => OneOwner
  BY DEF CountInv
<1> QED
  BY CountAlways, <1>1, PTL

-----------------------------------------------------------------------------
(* The owner's transaction is not closed by anybody else, and its commit   *)
(* makes its event durable.                                                *)

Closers == {"commit", "rollback", "autocommit"}
Awaiting(t, s) == pc[t] = s /\ reply[t] = "none"
Answered(t, s) == pc[t] = s /\ reply[t] = "ok"

\* The outermost task between the reply to its BEGIN and its COMMIT.
HoldsTxn(t) ==
  /\ role[t] = "outer"
  /\ Answered(t, "begin") \/ pc[t] \in {"read", "write", "append"}
Committing(t) == role[t] = "outer" /\ pc[t] = "commit"

\* Statements that close a transaction and were submitted by tasks that have
\* left run before the owner's BEGIN ...
BeginBehind ==
  \A t \in Tasks : Owner(t) /\ Awaiting(t, "begin") =>
    \E j \in 1..Len(queue) :
      /\ queue[j].task = t /\ queue[j].op = "begin"
      /\ \A i \in 1..Len(queue) : queue[i].op \in Closers => i < j
\* ... and from then on there are none but its own.
NoStrangers ==
  \A t \in Tasks : HoldsTxn(t) \/ Committing(t) =>
    \A i \in 1..Len(queue) : queue[i].op \in Closers => queue[i].task = t
TxnOpen == \A t \in Tasks : HoldsTxn(t) => inTxn = TRUE

EventWritten ==
  \A t \in Tasks :
    role[t] = "outer" /\ (Answered(t, "append") \/ Awaiting(t, "commit"))
      => <<t, "event">> \in working.log
EventDurable ==
  \A t \in Tasks :
    /\ role[t] = "outer"
    /\ \/ Answered(t, "commit")
       \/ pc[t] \in {"ledger", "propose", "autocommit"}
       \/ outcome[t] \in {"ok", "late"}
    => <<t, "event">> \in committed.log
LogKept == committed.log \subseteq working.log
OutcomeAtEnd == \A t \in Tasks : outcome[t] # "none" => pc[t] = "end"

OwnerInv ==
  /\ BeginBehind /\ NoStrangers /\ TxnOpen
  /\ EventWritten /\ EventDurable /\ LogKept /\ OutcomeAtEnd

LEMMA OwnerInit == Init => OwnerInv
<1> SUFFICES ASSUME Init PROVE OwnerInv
  OBVIOUS
<1>1. /\ \A t \in Tasks : pc[t] = "idle" /\ outcome[t] = "none"
      /\ working = committed
  BY DEF Init
<1> QED
  BY <1>1 DEF OwnerInv, BeginBehind, NoStrangers, TxnOpen, EventWritten, EventDurable,
     LogKept, OutcomeAtEnd, HoldsTxn, Committing, Awaiting, Answered

\* What the connection's thread does, by the kind of statement.
Closes(s) ==
  \/ /\ s \in {"commit", "autocommit"}
     /\ committed' = working /\ working' = working
  \/ /\ s = "rollback"
     /\ committed' = committed /\ working' = committed
Works(s, a) ==
  /\ s \notin Closers \/ a = "error"
  /\ committed' = committed
  /\ working.log \subseteq working'.log
  /\ inTxn = TRUE => inTxn' = TRUE
  /\ s = "begin" /\ a = "ok" => inTxn' = TRUE
  /\ s = "append" /\ a = "ok" => <<Head(queue).task, "event">> \in working'.log

LEMMA ServeEffect ==
  ASSUME TypeInv, Connection
  PROVE  \E s \in Statements, a \in {"ok", "error"} :
           Serve(s, a) /\ ((a = "ok" /\ Closes(s)) \/ Works(s, a))
<1> DEFINE Goal == \E s \in Statements, a \in {"ok", "error"} :
                     Serve(s, a) /\ ((a = "ok" /\ Closes(s)) \/ Works(s, a))
<1> USE DEF Statements, Closers
<1>a. working \in Store /\ committed \in Store
  BY DEF TypeInv, TypeOK
<1>1. CASE ServeBegin
  <2>1. \E a \in {"ok", "error"} :
          /\ Serve("begin", a)
          /\ UNCHANGED <<working, committed>>
          /\ inTxn' = TRUE \/ (a = "error" /\ inTxn' = inTxn)
    BY <1>1 DEF ServeBegin, db
  <2> QED
    BY <2>1 DEF Works
<1>2. CASE ServeRead
  BY <1>2 DEF ServeRead, Works, db
<1>3. CASE ServeWrite
  <2>1. \E a \in {"ok", "error"} : Serve("write", a)
    BY <1>3 DEF ServeWrite
  <2>2. inTxn' = TRUE /\ committed' = committed
    BY <1>3 DEF ServeWrite
  <2>3. working'.log = working.log
    BY <1>3, <1>a DEF ServeWrite, Store
  <2> QED
    BY <2>1, <2>2, <2>3 DEF Works
<1>4. ASSUME NEW s \in {"append", "propose"}, NEW k \in {"event", "proposed"},
             ServeInsert(s, k), s = "append" => k = "event"
      PROVE  Goal
  <2>1. Serve(s, "ok") /\ inTxn' = TRUE /\ committed' = committed
    BY <1>4 DEF ServeInsert
  <2>2. working'.log = working.log \union {<<Head(queue).task, k>>}
    BY <1>4, <1>a DEF ServeInsert, Store
  <2> QED
    BY <1>4, <2>1, <2>2 DEF Works
<1>5. CASE ServeCommit
  BY <1>5 DEF ServeCommit, Closes
<1>6. CASE ServeRollback
  BY <1>6 DEF ServeRollback, Closes
<1>7. CASE ServeRefused
  <2>1. PICK s \in MayRefuse :
          /\ Serve(s, "error")
          /\ inTxn = TRUE => inTxn' = TRUE
          /\ UNCHANGED <<working, committed>>
    BY <1>7 DEF ServeRefused
  <2>2. s \in Statements
    BY SetsAssumption
  <2> QED
    BY <2>1, <2>2 DEF Works
<1> QED
  BY <1>1, <1>2, <1>3, <1>4, <1>5, <1>6, <1>7 DEF Connection, ServeAppend, ServePropose

LEMMA OwnerServeStep ==
  ASSUME TypeInv, CountInv, OwnerInv, Connection
  PROVE  OwnerInv'
<1> DEFINE h == Head(queue).task
<1>1. PICK s \in Statements, a \in {"ok", "error"} :
        Serve(s, a) /\ ((a = "ok" /\ Closes(s)) \/ Works(s, a))
  BY ServeEffect
<1>2. UNCHANGED <<depth, pc, role, outcome>>
  BY ConnectionFrame
<1>3. /\ Len(queue) > 0 /\ queue[1].task = h /\ queue[1].op = s /\ h \in Tasks
      /\ Len(queue') = Len(queue) - 1 /\ Len(queue) \in Nat
      /\ \A i \in 1..Len(queue') : queue'[i] = queue[i + 1]
  <2>1. queue \in Seq(Statement) /\ queue # <<>> /\ queue' = Tail(queue)
    BY <1>1 DEF TypeInv, TypeOK, Serve, Due
  <2>2. Head(queue).op = s
    BY <1>1 DEF Serve, Due
  <2>3. h \in Tasks
    BY <1>1, ServeKeeps
  <2> QED
    BY <2>1, <2>2, <2>3
<1>4. /\ pc[h] \in {s, "end"} /\ reply[h] = "none"
      /\ \A i \in 2..Len(queue) : queue[i].task # h
  BY <1>3 DEF TypeInv, QueueInv, QueueMatches, OneStatementEach
<1>5. /\ \A u \in Tasks : u # h => reply'[u] = reply[u]
      /\ pc[h] = s => reply'[h] = a
      /\ pc[h] # s => reply'[h] = "none"
  BY <1>1, <1>3, <1>4 DEF Serve, TypeInv, TypeOK
<1>6. LogKept'
  BY <1>1 DEF Closes, Works, OwnerInv, LogKept
<1>7. ASSUME NEW u \in Tasks, HoldsTxn(u)', ~HoldsTxn(u)
      PROVE  u = h /\ s = "begin" /\ a = "ok" /\ Owner(u) /\ Awaiting(u, "begin")
  BY <1>2, <1>4, <1>5, <1>7 DEF HoldsTxn, Answered, Awaiting, Owner, InTransaction, Entering
<1>8. ASSUME NEW u \in Tasks, HoldsTxn(u) \/ Committing(u), s \in Closers
      PROVE  u = h /\ Committing(u) /\ s = "commit"
  <2>1. u = h
    BY <1>3, <1>8 DEF OwnerInv, NoStrangers
  <2> QED
    BY <1>4, <1>8, <2>1 DEF HoldsTxn, Answered, Committing, Closers
<1>9. BeginBehind'
  <2> SUFFICES ASSUME NEW u \in Tasks, Owner(u)', Awaiting(u, "begin")'
               PROVE  \E j \in 1..Len(queue') :
                        /\ queue'[j].task = u /\ queue'[j].op = "begin"
                        /\ \A i \in 1..Len(queue') : queue'[i].op \in Closers => i < j
    BY DEF BeginBehind
  <2>1. Owner(u) /\ Awaiting(u, "begin") /\ u # h
    BY <1>2, <1>4, <1>5 DEF Owner, InTransaction, Inside, Entering, Awaiting
  <2>2. PICK j \in 1..Len(queue) :
          /\ queue[j].task = u /\ queue[j].op = "begin"
          /\ \A i \in 1..Len(queue) : queue[i].op \in Closers => i < j
    BY <2>1 DEF OwnerInv, BeginBehind
  <2>3. j - 1 \in 1..Len(queue') /\ queue'[j - 1] = queue[j]
    BY <1>3, <2>1, <2>2
  <2>4. \A i \in 1..Len(queue') : queue'[i].op \in Closers => i < j - 1
    BY <1>3, <2>2
  <2> QED
    BY <2>2, <2>3, <2>4
<1>10. NoStrangers'
  <2> SUFFICES ASSUME NEW u \in Tasks, HoldsTxn(u)' \/ Committing(u)',
                      NEW i \in 1..Len(queue'), queue'[i].op \in Closers
               PROVE  queue'[i].task = u
    BY DEF NoStrangers
  <2>1. i + 1 \in 1..Len(queue) /\ queue'[i] = queue[i + 1]
    BY <1>3
  <2>2. CASE HoldsTxn(u) \/ Committing(u)
    BY <2>1, <2>2 DEF OwnerInv, NoStrangers
  <2>3. CASE ~HoldsTxn(u) /\ ~Committing(u)
    <3>1. u = h /\ Owner(u) /\ Awaiting(u, "begin")
      BY <1>2, <1>7, <2>3 DEF Committing
    <3>2. PICK j \in 1..Len(queue) :
            /\ queue[j].task = u
            /\ \A k \in 1..Len(queue) : queue[k].op \in Closers => k < j
      BY <3>1 DEF OwnerInv, BeginBehind
    <3>3. j = 1
      BY <1>3, <1>4, <3>1, <3>2
    <3> QED
      BY <2>1, <3>2, <3>3
  <2> QED
    BY <2>2, <2>3
<1>11. TxnOpen'
  <2> SUFFICES ASSUME NEW u \in Tasks, HoldsTxn(u)' PROVE inTxn' = TRUE
    BY DEF TxnOpen
  <2>1. CASE HoldsTxn(u)
    <3>1. s \notin Closers
      BY <1>8, <2>1 DEF HoldsTxn, Committing, Answered
    <3>2. inTxn = TRUE /\ Works(s, a)
      BY <1>1, <2>1, <3>1 DEF OwnerInv, TxnOpen, Closes, Closers
    <3> QED
      BY <3>2 DEF Works
  <2>2. CASE ~HoldsTxn(u)
    <3>1. s = "begin" /\ a = "ok"
      BY <1>7, <2>2
    <3> QED
      BY <1>1, <3>1 DEF Closes, Works
  <2> QED
    BY <2>1, <2>2
<1>12. EventWritten'
  <2> SUFFICES ASSUME NEW u \in Tasks, role[u] = "outer",
                      Answered(u, "append")' \/ Awaiting(u, "commit")'
               PROVE  <<u, "event">> \in working'.log
    BY <1>2 DEF EventWritten
  <2>1. CASE Answered(u, "append") \/ Awaiting(u, "commit")
    <3>1. <<u, "event">> \in working.log
      BY <2>1 DEF OwnerInv, EventWritten
    <3>2. s # "rollback"
      BY <1>8, <2>1 DEF HoldsTxn, Committing, Answered, Awaiting, Closers
    <3> QED
      BY <1>1, <3>1, <3>2 DEF Closes, Works
  <2>2. CASE ~(Answered(u, "append") \/ Awaiting(u, "commit"))
    <3>1. u = h /\ s = "append" /\ a = "ok"
      BY <1>2, <1>4, <1>5, <2>2 DEF Answered, Awaiting
    <3> QED
      BY <1>1, <3>1 DEF Closes, Works
  <2> QED
    BY <2>1, <2>2
<1>13. EventDurable'
  <2>1. committed.log \subseteq committed'.log
    BY <1>1 DEF OwnerInv, LogKept, Closes, Works
  <2> SUFFICES ASSUME NEW u \in Tasks, role[u] = "outer",
                      Answered(u, "commit")', ~Answered(u, "commit")
               PROVE  <<u, "event">> \in committed'.log
    BY <1>2, <2>1 DEF EventDurable, OwnerInv
  <2>2. u = h /\ s = "commit" /\ a = "ok" /\ Awaiting(u, "commit")
    BY <1>2, <1>4, <1>5 DEF Answered, Awaiting
  <2>3. <<u, "event">> \in working.log
    BY <2>2 DEF OwnerInv, EventWritten
  <2> QED
    BY <1>1, <2>2, <2>3 DEF Closes, Works, Closers
<1>14. OutcomeAtEnd'
  BY <1>2 DEF OwnerInv, OutcomeAtEnd
<1> QED
  BY <1>6, <1>9, <1>10, <1>11, <1>12, <1>13, <1>14 DEF OwnerInv

\* A task's step submits one statement at most; only the owner submits COMMIT
\* or ROLLBACK, and execute() commits on its own only at depth zero.
Submits(t, s) ==
  /\ queue' = Append(queue, [task |-> t, op |-> s])
  /\ pc' = [pc EXCEPT ![t] = s]
  /\ s \in {"commit", "rollback"} => Owner(t)
  /\ s = "autocommit" => depth = 0

LEMMA NewStatement ==
  ASSUME TypeInv, NEW t \in Tasks,
         Start(t) \/ Resume(t) \/ LedgerFails(t) \/ Cancel(t)
  PROVE  queue' = queue \/ \E s \in Statements : Submits(t, s)
<1> DEFINE Goal == queue' = queue \/ \E s \in Statements : Submits(t, s)
<1> USE DEF Statements
<1>a. at[t] \in Nat \ {0}
  BY DEF TypeInv, TypeOK
<1>b. \A i \in Nat \ {0} : StatementFor(t, i) \in {"append", "read", "write"}
  BY StatementForType
<1>0. role[t] = "outer" /\ pc[t] \in BodyStates => Owner(t)
  BY DEF Owner, InTransaction, Inside
<1>1. ASSUME NEW s \in {"append", "read", "write", "propose"}, Submit(t, s) PROVE Goal
  BY <1>1 DEF Submit, Submits
<1>2. ASSUME NEW r, Finish(t, r) PROVE Goal
  BY <1>2 DEF Finish
<1>3. ASSUME AfterLedger(t) PROVE Goal
  BY <1>1, <1>2, <1>3 DEF AfterLedger
<1>4. ASSUME Leave(t) PROVE Goal
  BY <1>3, <1>4 DEF Leave
<1>5. ASSUME NextDelta(t) PROVE Goal
  BY <1>1, <1>5, <1>a, <1>b DEF NextDelta
<1>6. ASSUME Raise(t), pc[t] \in BodyStates PROVE Goal
  <2>1. CASE role[t] = "outer" /\ Submit(t, "rollback")
    BY <1>0, <1>6, <2>1 DEF Submit, Submits
  <2> QED
    BY <1>2, <1>6, <2>1 DEF Raise
<1>7. CASE LedgerAppend(t)
  BY <1>3, <1>7 DEF LedgerAppend
<1>8. CASE Began(t)
  BY <1>1, <1>8, <1>a, <1>b DEF Began
<1>9. CASE ReadDone(t) \/ WriteDone(t)
  BY <1>1, <1>5, <1>6, <1>9 DEF ReadDone, WriteDone, PickUp, BodyStates
<1>10. CASE BeginFailed(t) \/ RolledBack(t) \/ AutoCommitted(t) \/ LedgerFails(t) \/ Cancel(t)
  BY <1>2, <1>10 DEF BeginFailed, RolledBack, AutoCommitted, LedgerFails, Cancel
<1>11. CASE CommitDone(t)
  BY <1>4, <1>11 DEF CommitDone
<1>12. CASE Appended(t)
  <2>1. CASE role[t] = "outer" /\ Submit(t, "commit")
    <3>1. Owner(t)
      BY <1>0, <1>12, <2>1 DEF Appended, PickUp, BodyStates
    <3> QED
      BY <2>1, <3>1 DEF Submit, Submits
  <2> QED
    BY <1>4, <1>12, <2>1 DEF Appended
<1>13. CASE Proposed(t)
  <2>1. CASE depth = 0 /\ Submit(t, "autocommit")
    BY <2>1 DEF Submit, Submits
  <2> QED
    BY <1>2, <1>13, <2>1 DEF Proposed
<1>14. CASE Start(t)
  <2>1. \E s \in {"begin", StatementFor(t, at[t])} :
          /\ queue' = Append(queue, [task |-> t, op |-> s])
          /\ pc' = [pc EXCEPT ![t] = s]
    BY <1>14 DEF Start
  <2> QED
    BY <1>a, <1>b, <2>1 DEF Submits
<1>15. CASE Refused(t)
  BY <1>2, <1>6, <1>15 DEF Refused, PickUp, BodyStates
<1> QED
  BY <1>7, <1>8, <1>9, <1>10, <1>11, <1>12, <1>13, <1>14, <1>15 DEF Resume

\* How the acting task comes to the states OwnerInv speaks of.
ComesFrom(t) ==
  /\ HoldsTxn(t)' \/ Committing(t)' => HoldsTxn(t)
  /\ role'[t] = "outer" /\ Awaiting(t, "commit")' =>
       role[t] = "outer" /\ Answered(t, "append")
  /\ role'[t] = "outer" /\ (pc'[t] \in {"ledger", "propose", "autocommit"}
                            \/ outcome'[t] \in {"ok", "late"}) =>
       /\ role[t] = "outer"
       /\ Answered(t, "commit") \/ pc[t] \in {"ledger", "propose", "autocommit"}
  /\ outcome'[t] # "none" => pc'[t] = "end"
  /\ reply'[t] = "none"

LEMMA Origins ==
  ASSUME TypeInv, OutcomeAtEnd, NEW t \in Tasks,
         Start(t) \/ Resume(t) \/ LedgerFails(t) \/ Cancel(t)
  PROVE  ComesFrom(t)
<1> USE DEF ComesFrom, HoldsTxn, Committing, Awaiting, Answered
<1>a. /\ pc \in [Tasks -> Statements \union {"idle", "ledger", "end"}]
      /\ outcome \in [Tasks -> Outcomes] /\ reply \in [Tasks -> {"none", "ok", "error"}]
      /\ role \in [Tasks -> {"none", "outer", "nested"}]
      /\ at[t] \in Nat \ {0}
  BY DEF TypeInv, TypeOK
<1>b. \A i \in Nat \ {0} : StatementFor(t, i) \in {"append", "read", "write"}
  BY StatementForType
<1>c. pc[t] # "end" => outcome[t] = "none"
  BY DEF OutcomeAtEnd
<1>d. \A s, a : PickUp(t, s, a) => pc[t] = s /\ reply[t] = a /\ reply'[t] = "none"
  BY <1>a DEF PickUp
<1>e. \A s : Submit(t, s) => pc'[t] = s /\ outcome' = outcome
  BY <1>a DEF Submit
<1>f. \A r : Finish(t, r) => pc'[t] = "end" /\ outcome'[t] = r
  BY <1>a DEF Finish
<1>g. AfterLedger(t) =>
        (pc'[t] = "propose" /\ outcome' = outcome) \/ (pc'[t] = "end" /\ outcome'[t] = "ok")
  BY <1>e, <1>f DEF AfterLedger
<1>h. Leave(t) =>
        \/ pc'[t] \in {"propose", "ledger"} /\ outcome' = outcome
        \/ pc'[t] = "end" /\ outcome'[t] = "ok"
  BY <1>a, <1>g DEF Leave
<1>i. Raise(t) =>
        \/ pc'[t] = "rollback" /\ outcome' = outcome
        \/ pc'[t] = "end" /\ outcome'[t] = "error"
  BY <1>e, <1>f DEF Raise
<1>j. NextDelta(t) => pc'[t] \in {"append", "read", "write"} /\ outcome' = outcome
  BY <1>a, <1>b, <1>e DEF NextDelta
<1>1. CASE Start(t)
  <2>1. pc[t] = "idle" /\ reply' = reply /\ outcome' = outcome
    BY <1>1 DEF Start
  <2>2. reply[t] = "none"
    BY <1>a, <2>1 DEF TypeInv, QueueInv, RepliesAwaited, Statements
  <2>3. \/ pc'[t] = "begin"
        \/ pc'[t] \in {"append", "read", "write"} /\ role'[t] = "nested"
    BY <1>1, <1>a, <1>b DEF Start
  <2> QED
    BY <1>c, <2>1, <2>2, <2>3
<1>2. CASE Began(t)
  <2>1. Answered(t, "begin") /\ role' = role /\ reply'[t] = "none"
    BY <1>2, <1>d DEF Began, progress
  <2>2. pc'[t] \in {"append", "read", "write"} /\ outcome' = outcome
    BY <1>2, <1>a, <1>b, <1>e DEF Began
  <2> QED
    BY <1>c, <2>1, <2>2
<1>3. CASE BeginFailed(t) \/ RolledBack(t)
  BY <1>3, <1>d, <1>f DEF BeginFailed, RolledBack
<1>4. CASE ReadDone(t)
  <2>1. pc[t] = "read" /\ role' = role /\ reply'[t] = "none"
    BY <1>4, <1>d DEF ReadDone
  <2>2. \/ pc'[t] \in {"append", "read", "write", "rollback"} /\ outcome' = outcome
        \/ pc'[t] = "end" /\ outcome'[t] = "error"
    BY <1>4, <1>e, <1>i, <1>j DEF ReadDone
  <2> QED
    BY <1>c, <2>1, <2>2
<1>5. CASE WriteDone(t)
  <2>1. pc[t] = "write" /\ role' = role /\ reply'[t] = "none"
    BY <1>5, <1>d DEF WriteDone
  <2>2. \/ pc'[t] \in {"append", "read", "write", "rollback"} /\ outcome' = outcome
        \/ pc'[t] = "end" /\ outcome'[t] = "error"
    BY <1>5, <1>i, <1>j DEF WriteDone
  <2> QED
    BY <1>c, <2>1, <2>2
<1>6. CASE Appended(t)
  <2>1. Answered(t, "append") /\ role' = role /\ reply'[t] = "none"
    BY <1>6, <1>d DEF Appended, progress
  <2>2. \/ pc'[t] = "commit" /\ outcome' = outcome
        \/ role[t] = "nested" /\ pc'[t] \in {"propose", "ledger"} /\ outcome' = outcome
        \/ role[t] = "nested" /\ pc'[t] = "end" /\ outcome'[t] = "ok"
    BY <1>6, <1>e, <1>h DEF Appended
  <2> QED
    BY <1>c, <2>1, <2>2
<1>7. CASE CommitDone(t)
  <2>1. Answered(t, "commit") /\ role' = role /\ reply'[t] = "none" /\ Leave(t)
    BY <1>7, <1>d DEF CommitDone, progress
  <2> QED
    BY <1>c, <1>h, <2>1
<1>8. CASE LedgerAppend(t) \/ LedgerFails(t)
  <2>1. pc[t] = "ledger" /\ role' = role /\ reply' = reply
    BY <1>8 DEF LedgerAppend, LedgerFails, progress
  <2>2. reply[t] = "none"
    BY <1>a, <2>1 DEF TypeInv, QueueInv, RepliesAwaited, Statements
  <2>3. \/ pc'[t] \in {"ledger", "propose"} /\ outcome' = outcome
        \/ pc'[t] = "end"
    BY <1>8, <1>f, <1>g, <2>1 DEF LedgerAppend, LedgerFails
  <2> QED
    BY <1>c, <2>1, <2>2, <2>3
<1>9. CASE Proposed(t)
  <2>1. pc[t] = "propose" /\ role' = role /\ reply'[t] = "none"
    BY <1>9, <1>d DEF Proposed, progress
  <2>2. \/ pc'[t] = "autocommit" /\ outcome' = outcome
        \/ pc'[t] = "end"
    BY <1>9, <1>e, <1>f DEF Proposed
  <2> QED
    BY <1>c, <2>1, <2>2
<1>10. CASE AutoCommitted(t)
  <2>1. pc[t] = "autocommit" /\ role' = role /\ reply'[t] = "none" /\ pc'[t] = "end"
    BY <1>10, <1>d, <1>f DEF AutoCommitted, progress
  <2> QED
    BY <2>1
<1>11. CASE Cancel(t)
  <2>1. pc'[t] = "end" /\ outcome'[t] = "cancelled" /\ reply'[t] = "none"
    BY <1>11, <1>a, <1>f DEF Cancel
  <2> QED
    BY <2>1
<1>12. CASE Refused(t)
  <2>1. role' = role /\ reply'[t] = "none" /\ reply[t] = "error"
    BY <1>12, <1>d DEF Refused, progress
  <2>2. CASE Raise(t) /\ pc[t] \in {"read", "append", "commit"}
    BY <1>c, <1>i, <2>1, <2>2
  <2>3. CASE Finish(t, "late") /\ pc[t] \in {"propose", "autocommit"}
    BY <1>f, <2>1, <2>3
  <2> QED
    BY <1>12, <1>d, <2>2, <2>3 DEF Refused
<1> QED
  BY <1>1, <1>2, <1>3, <1>4, <1>5, <1>6, <1>7, <1>8, <1>9, <1>10, <1>11, <1>12 DEF Resume

\* A task's step leaves the other tasks' state alone.
LEMMA OthersKeep ==
  ASSUME TypeInv, NEW t \in Tasks,
         Start(t) \/ Resume(t) \/ LedgerFails(t) \/ Cancel(t)
  PROVE  /\ UNCHANGED <<inTxn, working, committed>>
         /\ restarts' = restarts
         /\ \A u \in Tasks : u # t =>
              pc'[u] = pc[u] /\ role'[u] = role[u] /\ reply'[u] = reply[u]
              /\ outcome'[u] = outcome[u]
<1>a. /\ pc \in [Tasks -> Statements \union {"idle", "ledger", "end"}]
      /\ outcome \in [Tasks -> Outcomes] /\ reply \in [Tasks -> {"none", "ok", "error"}]
      /\ role \in [Tasks -> {"none", "outer", "nested"}]
  BY DEF TypeInv, TypeOK
<1>1. UNCHANGED <<inTxn, working, committed>> /\ restarts' = restarts
  BY DEF Start, Resume, LedgerFails, Cancel, Began, BeginFailed, ReadDone, WriteDone,
     RolledBack, Appended, CommitDone, LedgerAppend, Proposed, AutoCommitted, Refused, db
<1> SUFFICES ASSUME NEW u \in Tasks, u # t
             PROVE  pc'[u] = pc[u] /\ role'[u] = role[u] /\ reply'[u] = reply[u]
                    /\ outcome'[u] = outcome[u]
  BY <1>1
<1>2. role'[u] = role[u]
  BY <1>a DEF Start, Resume, LedgerFails, Cancel, Began, BeginFailed, ReadDone,
     WriteDone, RolledBack, Appended, CommitDone, LedgerAppend, Proposed, AutoCommitted,
     Refused, progress
<1>3. reply'[u] = reply[u]
  BY <1>a DEF Start, Resume, LedgerFails, Cancel, Began, BeginFailed, ReadDone,
     WriteDone, RolledBack, Appended, CommitDone, LedgerAppend, Proposed, AutoCommitted,
     Refused, PickUp
<1>4. pc'[u] = pc[u]
  <2>1. CASE Start(t)
    BY <1>a, <2>1 DEF Start
  <2>2. CASE Resume(t) \/ LedgerFails(t) \/ Cancel(t)
    BY <1>a, <2>2, NewState
  <2> QED
    BY <2>1, <2>2
<1>5. outcome'[u] = outcome[u]
  <2>a. \A s : Submit(t, s) => outcome'[u] = outcome[u]
    BY DEF Submit
  <2>b. \A r : Finish(t, r) => outcome'[u] = outcome[u]
    BY <1>a DEF Finish
  <2>c. AfterLedger(t) \/ Leave(t) \/ Raise(t) \/ NextDelta(t) => outcome'[u] = outcome[u]
    BY <2>a, <2>b DEF AfterLedger, Leave, Raise, NextDelta
  <2> QED
    BY <2>a, <2>b, <2>c DEF Start, Resume, LedgerFails, Cancel, Began, BeginFailed,
       ReadDone, WriteDone, RolledBack, Appended, CommitDone, LedgerAppend, Proposed,
       AutoCommitted, Refused
<1> QED
  BY <1>2, <1>3, <1>4, <1>5

LEMMA OwnerTaskStep ==
  ASSUME TypeInv, CountInv, OwnerInv, NEW t \in Tasks,
         Start(t) \/ Resume(t) \/ LedgerFails(t) \/ Cancel(t)
  PROVE  OwnerInv'
<1>1. ComesFrom(t)
  BY Origins DEF OwnerInv
<1>2. /\ UNCHANGED <<inTxn, working, committed>>
      /\ \A u \in Tasks : u # t =>
           pc'[u] = pc[u] /\ role'[u] = role[u] /\ reply'[u] = reply[u]
           /\ outcome'[u] = outcome[u]
  BY OthersKeep
<1>3. \A u \in Tasks : u # t => (HoldsTxn(u)' => HoldsTxn(u)) /\ (Committing(u)' => Committing(u))
  BY <1>2 DEF HoldsTxn, Committing, Answered
<1>4. \A u \in Tasks : u # t /\ Owner(u)' => Owner(u)
  BY <1>2 DEF Owner, InTransaction, Inside, Entering
<1>5. queue \in Seq(Statement) /\ Len(queue) \in Nat
  BY DEF TypeInv, TypeOK
<1>6. \A u \in Tasks : Owner(u) => depth # 0
  BY ZeroMeansNobody DEF CountInv, Owner
<1>7. ASSUME NEW i \in 1..Len(queue'), queue'[i].op \in Closers
      PROVE  \/ i \in 1..Len(queue) /\ queue'[i] = queue[i]
             \/ /\ queue'[i].task = t
                /\ \A u \in Tasks : Owner(u) => u = t
  <2>1. CASE queue' = queue
    BY <1>7, <2>1
  <2>2. CASE queue' # queue
    <3>1. PICK s \in Statements : Submits(t, s)
      BY <2>2, NewStatement
    <3>2. [task |-> t, op |-> s] \in Statement
      BY DEF Statement
    <3>3. \/ i \in 1..Len(queue) /\ queue'[i] = queue[i]
          \/ queue'[i] = [task |-> t, op |-> s]
      BY <1>5, <1>7, <3>1, <3>2 DEF Submits
    <3>4. s \in Closers => \A u \in Tasks : Owner(u) => u = t
      BY <1>6, <3>1 DEF Submits, Closers, CountInv, OneOwner
    <3> QED
      BY <1>7, <3>3, <3>4
  <2> QED
    BY <2>1, <2>2
<1>8. \A i \in 1..Len(queue) : i \in 1..Len(queue') /\ queue'[i] = queue[i]
  <2>1. CASE queue' = queue
    BY <2>1
  <2>2. CASE queue' # queue
    <3>1. PICK s \in Statements : Submits(t, s)
      BY <2>2, NewStatement
    <3>2. [task |-> t, op |-> s] \in Statement
      BY DEF Statement
    <3> QED
      BY <1>5, <3>1, <3>2 DEF Submits
  <2> QED
    BY <2>1, <2>2
<1>9. \A u \in Tasks : HoldsTxn(u) \/ Committing(u) => Owner(u)
  BY DEF HoldsTxn, Committing, Answered, Owner, InTransaction, Inside, Entering, BodyStates
<1>10. BeginBehind'
  <2> SUFFICES ASSUME NEW u \in Tasks, Owner(u)', Awaiting(u, "begin")'
               PROVE  \E j \in 1..Len(queue') :
                        /\ queue'[j].task = u /\ queue'[j].op = "begin"
                        /\ \A i \in 1..Len(queue') : queue'[i].op \in Closers => i < j
    BY DEF BeginBehind
  <2>1. CASE u # t
    <3>1. Owner(u) /\ Awaiting(u, "begin")
      BY <1>2, <1>4, <2>1 DEF Awaiting
    <3>2. PICK j \in 1..Len(queue) :
            /\ queue[j].task = u /\ queue[j].op = "begin"
            /\ \A i \in 1..Len(queue) : queue[i].op \in Closers => i < j
      BY <3>1 DEF OwnerInv, BeginBehind
    <3>3. \A i \in 1..Len(queue') : queue'[i].op \in Closers => i < j
      BY <1>7, <2>1, <3>1, <3>2
    <3> QED
      BY <1>8, <3>2, <3>3
  <2>2. CASE u = t /\ Start(t)
    <3>1. PICK s \in {"begin", StatementFor(t, at[t])} :
            /\ queue' = Append(queue, [task |-> t, op |-> s])
            /\ pc' = [pc EXCEPT ![t] = s]
      BY <2>2 DEF Start
    <3>2. s = "begin" /\ [task |-> t, op |-> s] \in Statement
      BY <2>2, <3>1 DEF Awaiting, TypeInv, TypeOK, Statement, Statements
    <3>3. /\ Len(queue') = Len(queue) + 1 /\ queue'[Len(queue')].task = t
          /\ queue'[Len(queue')].op = "begin"
      BY <1>5, <3>1, <3>2
    <3>4. \A i \in 1..Len(queue') : queue'[i].op \in Closers => i < Len(queue')
      BY <1>5, <3>3 DEF Closers
    <3> QED
      BY <1>5, <2>2, <3>3, <3>4
  <2>3. CASE u = t /\ ~Start(t)
    <3>1. PICK x \in (Statements \ {"begin"}) \union {"ledger", "end"} :
            pc' = [pc EXCEPT ![t] = x]
      BY <2>3, NewState
    <3>2. pc'[t] # "begin"
      BY <3>1 DEF TypeInv, TypeOK
    <3> QED
      BY <2>3, <3>2 DEF Awaiting
  <2> QED
    BY <2>1, <2>2, <2>3
<1>11. NoStrangers'
  <2> SUFFICES ASSUME NEW u \in Tasks, HoldsTxn(u)' \/ Committing(u)',
                      NEW i \in 1..Len(queue'), queue'[i].op \in Closers
               PROVE  queue'[i].task = u
    BY DEF NoStrangers
  <2>1. HoldsTxn(u) \/ Committing(u)
    BY <1>1, <1>3 DEF ComesFrom
  <2>2. Owner(u)
    BY <1>9, <2>1
  <2> QED
    BY <1>7, <2>1, <2>2 DEF OwnerInv, NoStrangers
<1>12. TxnOpen'
  BY <1>1, <1>2, <1>3 DEF ComesFrom, OwnerInv, TxnOpen
<1>13. EventWritten'
  <2> SUFFICES ASSUME NEW u \in Tasks, role'[u] = "outer",
                      Answered(u, "append")' \/ Awaiting(u, "commit")'
               PROVE  <<u, "event">> \in working.log
    BY <1>2 DEF EventWritten
  <2>1. CASE u = t
    BY <1>1, <2>1 DEF ComesFrom, Answered, OwnerInv, EventWritten
  <2>2. CASE u # t
    BY <1>2, <2>2 DEF Answered, Awaiting, OwnerInv, EventWritten
  <2> QED
    BY <2>1, <2>2
<1>14. EventDurable'
  <2> SUFFICES ASSUME NEW u \in Tasks, role'[u] = "outer",
                      \/ Answered(u, "commit")'
                      \/ pc'[u] \in {"ledger", "propose", "autocommit"}
                      \/ outcome'[u] \in {"ok", "late"}
               PROVE  <<u, "event">> \in committed.log
    BY <1>2 DEF EventDurable
  <2>1. CASE u = t
    BY <1>1, <2>1 DEF ComesFrom, Answered, OwnerInv, EventDurable
  <2>2. CASE u # t
    BY <1>2, <2>2 DEF Answered, OwnerInv, EventDurable
  <2> QED
    BY <2>1, <2>2
<1>15. LogKept' /\ OutcomeAtEnd'
  BY <1>1, <1>2 DEF ComesFrom, OwnerInv, LogKept, OutcomeAtEnd
<1> QED
  BY <1>10, <1>11, <1>12, <1>13, <1>14, <1>15 DEF OwnerInv

LEMMA OwnerRestartStep ==
  ASSUME TypeInv, OwnerInv, Restart
  PROVE  OwnerInv'
<1>1. \A t \in Tasks : /\ pc'[t] \in {"idle", "end"}
                       /\ outcome'[t] \in {"ok", "late"} => outcome[t] \in {"ok", "late"}
                       /\ outcome'[t] # "none" => pc'[t] = "end"
  BY DEF Restart, Running, TypeInv, TypeOK, OwnerInv, OutcomeAtEnd
<1>2. working' = committed /\ committed' = committed /\ role' = role
  BY DEF Restart, progress
<1> QED
  BY <1>1, <1>2 DEF OwnerInv, BeginBehind, NoStrangers, TxnOpen, EventWritten,
     EventDurable, LogKept, OutcomeAtEnd, HoldsTxn, Committing, Awaiting, Answered

LEMMA OwnerStep == TypeInv /\ CountInv /\ OwnerInv /\ [Next]_vars => OwnerInv'
<1> SUFFICES ASSUME TypeInv, CountInv, OwnerInv, [Next]_vars PROVE OwnerInv'
  OBVIOUS
<1>1. CASE Connection
  BY <1>1, OwnerServeStep
<1>2. CASE \E t \in Tasks : Start(t) \/ Resume(t) \/ LedgerFails(t) \/ Cancel(t)
  BY <1>2, OwnerTaskStep
<1>3. CASE Restart
  BY <1>3, OwnerRestartStep
<1>4. CASE UNCHANGED vars
  BY <1>4 DEF vars, db, progress, OwnerInv, BeginBehind, NoStrangers, TxnOpen,
     EventWritten, EventDurable, LogKept, OutcomeAtEnd, HoldsTxn, Committing, Awaiting,
     Answered, Owner, InTransaction, Inside, Entering
<1> QED
  BY <1>1, <1>2, <1>3, <1>4 DEF Next, Finished

LEMMA OwnerAlways == Spec => [](TypeInv /\ CountInv /\ OwnerInv)
  BY TypeInit, TypeStep, CountInit, CountStep, OwnerInit, OwnerStep, PTL DEF Spec

\* While the outermost task is in its body the transaction it began is open:
\* no other task's COMMIT, ROLLBACK or autocommit closes it halfway
\* (sqlite.py, execute() and transaction()).
THEOREM OwnerTxnStaysOpen == Spec => []OwnerTxnOpen
<1>1. OwnerInv => OwnerTxnOpen
  BY DEF OwnerInv, TxnOpen, HoldsTxn, OwnerTxnOpen
<1> QED
  BY OwnerAlways, <1>1, PTL

\* An outermost task that was told its commit succeeded finds its event in the
\* durable log ever after, through any restart (sqlite.py, transaction();
\* state/engine.py, execute()).
THEOREM OuterCommitsAreDurable == Spec => []OuterDurable
<1>1. OwnerInv => OuterDurable
  BY DEF OwnerInv, EventDurable, OuterDurable
<1> QED
  BY OwnerAlways, <1>1, PTL

-----------------------------------------------------------------------------
(* The wedged transaction.                                                 *)

WedgedStep ==
  Wedged /\ ~CommitQueued /\ restarts' = restarts
    => UNCHANGED committed /\ Wedged' /\ ~CommitQueued'

LEMMA WedgedTaskStep ==
  ASSUME TypeInv, CountInv, NEW t \in Tasks,
         Start(t) \/ Resume(t) \/ LedgerFails(t) \/ Cancel(t),
         Wedged, ~CommitQueued
  PROVE  UNCHANGED committed /\ Wedged' /\ ~CommitQueued'
<1>1. UNCHANGED committed
  BY OthersKeep
<1>2. /\ depth \in Int /\ Cardinality(InTransaction) \in Nat
      /\ depth' \in Int /\ Cardinality(InTransaction') \in Nat
  <2>1. TypeInv'
    BY TaskType
  <2> QED
    BY <2>1, MembersFinite, FS_CardinalityType DEF TypeInv, TypeOK
<1>3. Wedged'
  BY <1>2, TaskMoves, GapStep DEF Wedged
<1>4. ~CommitQueued'
  <2>1. CASE queue' = queue
    BY <2>1 DEF CommitQueued
  <2>2. CASE queue' # queue
    <3>1. PICK s \in Statements : Submits(t, s)
      BY <2>2, NewStatement
    <3>2. ~Owner(t) /\ depth # 0
      BY <1>2 DEF CountInv, WedgedNoOwner, Wedged
    <3>3. s \notin {"commit", "autocommit"}
      BY <3>1, <3>2 DEF Submits
    <3>4. queue \in Seq(Statement) /\ [task |-> t, op |-> s] \in Statement
      BY DEF TypeInv, TypeOK, Statement
    <3> QED
      BY <3>1, <3>3, <3>4 DEF Submits, CommitQueued
  <2> QED
    BY <2>1, <2>2
<1> QED
  BY <1>1, <1>3, <1>4

LEMMA WedgedServeStep ==
  ASSUME TypeInv, Connection, Wedged, ~CommitQueued
  PROVE  UNCHANGED committed /\ Wedged' /\ ~CommitQueued'
<1>1. PICK s \in Statements, a \in {"ok", "error"} :
        Serve(s, a) /\ ((a = "ok" /\ Closes(s)) \/ Works(s, a))
  BY ServeEffect
<1>2. queue \in Seq(Statement) /\ queue # <<>> /\ queue' = Tail(queue) /\ queue[1].op = s
  BY <1>1 DEF TypeInv, TypeOK, Serve, Due
<1>3. s \notin {"commit", "autocommit"}
  BY <1>2 DEF CommitQueued
<1>4. ~CommitQueued'
  BY <1>2 DEF CommitQueued
<1>5. UNCHANGED committed
  BY <1>1, <1>3 DEF Closes, Works
<1>6. Wedged'
  BY ConnectionFrame DEF Wedged, InTransaction, Inside, Entering
<1> QED
  BY <1>4, <1>5, <1>6

\* Once a BEGIN has failed or was cancelled, no task makes anything durable
\* until the process is restarted (sqlite.py, transaction()).
THEOREM WedgedForever == Spec => WedgedStoresNothing
<1>1. ASSUME TypeInv, CountInv, [Next]_vars PROVE [WedgedStep]_vars
  <2>1. CASE Connection
    BY <1>1, <2>1, WedgedServeStep DEF WedgedStep
  <2>2. CASE \E t \in Tasks : Start(t) \/ Resume(t) \/ LedgerFails(t) \/ Cancel(t)
    BY <1>1, <2>2, WedgedTaskStep DEF WedgedStep
  <2>3. CASE Restart
    BY <1>1, <2>3 DEF Restart, WedgedStep, TypeInv, TypeOK
  <2> QED
    BY <1>1, <2>1, <2>2, <2>3 DEF Next, Finished
<1> QED
  BY <1>1, CountAlways, PTL DEF Spec, WedgedStoresNothing, WedgedStep

-----------------------------------------------------------------------------
(* Nobody waits in vain, and every step counts.                            *)

\* A running task has its statement in the queue, or what it needs to go on.
Queued(t) == \E i \in 1..Len(queue) : queue[i] = [task |-> t, op |-> pc[t]]
CanGoOn(t) ==
  \/ reply[t] = "ok" /\ pc[t] \in Statements
  \/ reply[t] = "error" /\ pc[t] \in Statements \ {"rollback"}
  \/ pc[t] = "ledger" /\ Unledgered(t) # {}
NobodyIsForgotten == \A t \in Tasks : Running(t) => Queued(t) \/ CanGoOn(t)

\* What a task that goes on relies on.
RoleTaken == \A t \in Tasks : pc[t] # "idle" => role[t] # "none"
ReadsARow == \A t \in Tasks : pc[t] = "read" => Delta(t).op # "create"
AppliedFew == \A t \in Tasks : applied[t] \subseteq 1..Len(Deltas[t])
WaitInv == NobodyIsForgotten /\ RoleTaken /\ ReadsARow /\ AppliedFew

\* How many more steps a task at this place may take: each delta still to do
\* is a read, a write and an entry in the ledger, and BEGIN, the event, COMMIT,
\* the proposed event and its commit are one each.
StepsLeft(place, i, entries, n) ==
  CASE place = "begin" -> 3 * n + 5
    [] place = "read" -> 3 * n + 6 - 2 * i
    [] place = "write" -> 3 * n + 5 - 2 * i
    [] place = "append" -> n + 4
    [] place = "commit" -> n + 3
    [] place = "ledger" -> entries + 2
    [] place = "propose" -> 2
    [] place \in {"rollback", "autocommit"} -> 1
    [] OTHER -> 0
Left(t) == StepsLeft(pc[t], at[t], Cardinality(Unledgered(t)), Len(Deltas[t]))
EveryStepCounts ==
  [][\A t \in Tasks :
       Running(t) => /\ Left(t)' <= Left(t)
                     /\ Resume(t) => Left(t)' < Left(t)]_vars

\* Where a task is after it goes on.
Advances(t) ==
  \/ pc'[t] = "end"
  \/ /\ pc'[t] = "ledger" /\ Unledgered(t)' # {}
     /\ \/ pc[t] \in {"append", "commit"} /\ Unledgered(t)' = Unledgered(t)
        \/ pc[t] = "ledger" /\ \E i \in Unledgered(t) : Unledgered(t)' = Unledgered(t) \ {i}
  \/ \E s \in Statements :
       /\ pc'[t] = s
       /\ queue' = Append(queue, [task |-> t, op |-> s])
       /\ \/ pc[t] = "begin" /\ at'[t] = at[t] /\ s = StatementFor(t, at[t])
          \/ pc[t] \in {"read", "write"} /\ at'[t] = at[t] + 1 /\ s = StatementFor(t, at[t] + 1)
          \/ pc[t] = "read" /\ at'[t] = at[t] /\ s = "write"
          \/ pc[t] \in {"read", "write", "append", "commit"} /\ s = "rollback"
          \/ pc[t] = "append" /\ s = "commit"
          \/ pc[t] \in {"append", "commit", "ledger"} /\ s = "propose"
          \/ pc[t] = "propose" /\ s = "autocommit"

LEMMA WhereNext ==
  ASSUME TypeInv, NEW t \in Tasks, Resume(t)
  PROVE  Advances(t)
<1> USE DEF Advances, Statements
<1>a. /\ pc \in [Tasks -> Statements \union {"idle", "ledger", "end"}]
      /\ at \in [Tasks -> Nat \ {0}] /\ ledger \subseteq Tasks \X Nat
  BY DEF TypeInv, TypeOK
<1>b. \A i \in Nat \ {0} : StatementFor(t, i) \in {"append", "read", "write"}
  BY StatementForType
<1>d. \A s, a : PickUp(t, s, a) => pc[t] = s
  BY DEF PickUp
<1>e. \A s : Submit(t, s) => pc'[t] = s /\ queue' = Append(queue, [task |-> t, op |-> s])
  BY <1>a DEF Submit
<1>f. \A r : Finish(t, r) => pc'[t] = "end"
  BY <1>a DEF Finish
<1>g. AfterLedger(t) => Submit(t, "propose") \/ pc'[t] = "end"
  BY <1>f DEF AfterLedger
<1>h. ASSUME Leave(t), pc[t] \in {"append", "commit"}, UNCHANGED <<applied, ledger>>
      PROVE  Advances(t)
  <2>1. CASE Unledgered(t) # {} /\ pc' = [pc EXCEPT ![t] = "ledger"]
    BY <1>a, <1>h, <2>1 DEF Unledgered
  <2>2. CASE AfterLedger(t)
    BY <1>e, <1>g, <1>h, <2>2
  <2> QED
    BY <1>h, <2>1, <2>2 DEF Leave
<1>i. ASSUME Raise(t), pc[t] \in {"read", "write", "append", "commit"} PROVE Advances(t)
  BY <1>e, <1>f, <1>i DEF Raise
<1>j. ASSUME NextDelta(t), pc[t] \in {"read", "write"} PROVE Advances(t)
  <2>1. at'[t] = at[t] + 1 /\ StatementFor(t, at[t] + 1) \in Statements
    BY <1>a, <1>b, <1>j DEF NextDelta
  <2> QED
    BY <1>e, <1>j, <2>1 DEF NextDelta
<1>1. CASE Began(t)
  BY <1>1, <1>a, <1>b, <1>d, <1>e DEF Began, progress
<1>2. CASE BeginFailed(t) \/ RolledBack(t) \/ AutoCommitted(t)
  BY <1>2, <1>f DEF BeginFailed, RolledBack, AutoCommitted
<1>3. CASE ReadDone(t)
  <2>1. pc[t] = "read"
    BY <1>3, <1>d DEF ReadDone
  <2>2. CASE Submit(t, "write") /\ UNCHANGED at
    BY <1>e, <2>1, <2>2
  <2> QED
    BY <1>3, <1>i, <1>j, <2>1, <2>2 DEF ReadDone
<1>4. CASE WriteDone(t)
  BY <1>4, <1>d, <1>i, <1>j DEF WriteDone
<1>5. CASE Appended(t)
  <2>1. pc[t] = "append" /\ UNCHANGED <<applied, ledger>>
    BY <1>5, <1>d DEF Appended, progress
  <2>2. CASE Submit(t, "commit")
    BY <1>e, <2>1, <2>2
  <2> QED
    BY <1>5, <1>h, <2>1, <2>2 DEF Appended
<1>6. CASE CommitDone(t)
  BY <1>6, <1>d, <1>h DEF CommitDone, progress
<1>7. CASE LedgerAppend(t)
  <2>1. PICK i \in Unledgered(t) :
          /\ ledger' = ledger \union {<<t, i>>}
          /\ \/ Unledgered(t) # {i} /\ pc' = pc
             \/ AfterLedger(t)
    BY <1>7 DEF LedgerAppend
  <2>2. pc[t] = "ledger" /\ applied' = applied
    BY <1>7 DEF LedgerAppend, progress
  <2>3. Unledgered(t)' = Unledgered(t) \ {i}
    BY <2>1, <2>2 DEF Unledgered
  <2>4. CASE Unledgered(t) # {i} /\ pc' = pc
    BY <2>1, <2>2, <2>3, <2>4
  <2>5. CASE AfterLedger(t)
    BY <1>e, <1>g, <2>2, <2>5
  <2> QED
    BY <2>1, <2>4, <2>5
<1>8. CASE Proposed(t)
  BY <1>8, <1>d, <1>e, <1>f DEF Proposed
<1>9. CASE Refused(t)
  BY <1>9, <1>d, <1>f, <1>i DEF Refused
<1> QED
  BY <1>1, <1>2, <1>3, <1>4, <1>5, <1>6, <1>7, <1>8, <1>9 DEF Resume

\* A task's step leaves the place of the others alone.
LEMMA OthersPlace ==
  ASSUME TypeInv, NEW t \in Tasks, NEW u \in Tasks, u # t,
         Start(t) \/ Resume(t) \/ LedgerFails(t) \/ Cancel(t)
  PROVE  at'[u] = at[u] /\ applied'[u] = applied[u] /\ Unledgered(u)' = Unledgered(u)
<1>a. at \in [Tasks -> Nat \ {0}] /\ applied \in [Tasks -> SUBSET Nat]
  BY DEF TypeInv, TypeOK
<1>1. at'[u] = at[u]
  BY <1>a DEF Start, Resume, LedgerFails, Cancel, Began, BeginFailed, ReadDone, WriteDone,
     RolledBack, Appended, CommitDone, LedgerAppend, Proposed, AutoCommitted, Refused, progress, NextDelta
<1>2. applied'[u] = applied[u]
  BY <1>a DEF Start, Resume, LedgerFails, Cancel, Began, BeginFailed, ReadDone, WriteDone,
     RolledBack, Appended, CommitDone, LedgerAppend, Proposed, AutoCommitted, Refused, progress
<1>3. ledger' = ledger \/ \E i \in Unledgered(t) : ledger' = ledger \union {<<t, i>>}
  BY DEF Start, Resume, LedgerFails, Cancel, Began, BeginFailed, ReadDone, WriteDone,
     RolledBack, Appended, CommitDone, LedgerAppend, Proposed, AutoCommitted, Refused
<1>4. Unledgered(u)' = Unledgered(u)
  BY <1>2, <1>3 DEF Unledgered
<1> QED
  BY <1>1, <1>2, <1>4

\* The queue only grows at its end when a task goes on.
LEMMA QueuedStays ==
  ASSUME TypeInv, NEW t \in Tasks, NEW u \in Tasks, u # t, Queued(u),
         Start(t) \/ Resume(t) \/ LedgerFails(t) \/ Cancel(t)
  PROVE  Queued(u)'
<1>1. queue \in Seq(Statement) /\ pc'[u] = pc[u]
  BY OthersKeep DEF TypeInv, TypeOK
<1>2. CASE queue' = queue
  BY <1>1, <1>2 DEF Queued
<1>3. CASE queue' # queue
  <2>1. PICK s \in Statements : queue' = Append(queue, [task |-> t, op |-> s])
    BY <1>3, NewStatement DEF Submits
  <2>2. [task |-> t, op |-> s] \in Statement
    BY DEF Statement
  <2>3. Len(queue') = Len(queue) + 1 /\ \A i \in 1..Len(queue) : queue'[i] = queue[i]
    BY <1>1, <2>1, <2>2
  <2> QED
    BY <1>1, <2>3 DEF Queued
<1> QED
  BY <1>2, <1>3

LEMMA JustQueued ==
  ASSUME TypeInv, NEW t \in Tasks, NEW s \in Statements,
         queue' = Append(queue, [task |-> t, op |-> s]), pc'[t] = s
  PROVE  Queued(t)'
<1>1. queue \in Seq(Statement) /\ [task |-> t, op |-> s] \in Statement
  BY DEF TypeInv, TypeOK, Statement
<1>2. Len(queue') = Len(queue) + 1 /\ queue'[Len(queue) + 1] = [task |-> t, op |-> s]
  BY <1>1
<1>3. Len(queue) + 1 \in 1..Len(queue')
  BY <1>1, <1>2
<1> QED
  BY <1>2, <1>3 DEF Queued

LEMMA WaitTaskStep ==
  ASSUME TypeInv, OwnerInv, WaitInv, NEW t \in Tasks,
         Start(t) \/ Resume(t) \/ LedgerFails(t) \/ Cancel(t)
  PROVE  WaitInv'
<1>a. /\ pc \in [Tasks -> Statements \union {"idle", "ledger", "end"}]
      /\ at \in [Tasks -> Nat \ {0}] /\ applied \in [Tasks -> SUBSET Nat]
      /\ role \in [Tasks -> {"none", "outer", "nested"}]
      /\ \A u \in Tasks : pc[u] \in {"read", "write"} => at[u] \in 1..Len(Deltas[u])
  BY DEF TypeInv, TypeOK, QueueInv, AtDelta
<1>b. \A i \in Nat \ {0} : StatementFor(t, i) \in {"append", "read", "write"}
  BY StatementForType
<1>c. \A i \in Nat : StatementFor(t, i) = "read" => Deltas[t][i].op # "create"
  BY DEF StatementFor
<1>d. Start(t) => /\ pc[t] = "idle" /\ at' = at
                  /\ \E s \in {"begin", StatementFor(t, at[t])} :
                       pc'[t] = s /\ queue' = Append(queue, [task |-> t, op |-> s])
  BY <1>a DEF Start
<1>e. LedgerFails(t) \/ Cancel(t) => pc'[t] = "end"
  BY <1>a DEF LedgerFails, Cancel, Finish
<1>f. Resume(t) => Advances(t)
  BY WhereNext
<1>1. NobodyIsForgotten'
  <2> SUFFICES ASSUME NEW u \in Tasks, Running(u)' PROVE Queued(u)' \/ CanGoOn(u)'
    BY DEF NobodyIsForgotten
  <2>1. CASE u # t
    <3>1. /\ pc'[u] = pc[u] /\ reply'[u] = reply[u] /\ Unledgered(u)' = Unledgered(u)
          /\ Queued(u) => Queued(u)'
      BY <2>1, OthersKeep, OthersPlace, QueuedStays
    <3>2. Queued(u) \/ CanGoOn(u)
      BY <3>1 DEF WaitInv, NobodyIsForgotten, Running
    <3> QED
      BY <3>1, <3>2 DEF CanGoOn
  <2>2. CASE u = t
    <3>1. pc'[t] # "end"
      BY <2>2 DEF Running
    <3>2. CASE \E s \in Statements : pc'[t] = s /\ queue' = Append(queue, [task |-> t, op |-> s])
      BY <2>2, <3>2, JustQueued
    <3>3. CASE pc'[t] = "ledger" /\ Unledgered(t)' # {}
      BY <2>2, <3>3 DEF CanGoOn
    <3> QED
      BY <1>a, <1>b, <1>d, <1>e, <1>f, <3>1, <3>2, <3>3 DEF Advances, Statements
  <2> QED
    BY <2>1, <2>2
<1>2. RoleTaken'
  <2>1. \A u \in Tasks : u # t => pc'[u] = pc[u] /\ role'[u] = role[u]
    BY OthersKeep
  <2>2. role'[t] # "none"
    <3>1. CASE Start(t)
      BY <1>a, <3>1 DEF Start
    <3>2. CASE Resume(t) \/ LedgerFails(t) \/ Cancel(t)
      <4>1. pc[t] # "idle"
        BY <3>2 DEF Resume, LedgerFails, Cancel, Began, BeginFailed, ReadDone, WriteDone,
           RolledBack, Appended, CommitDone, LedgerAppend, Proposed, AutoCommitted, Refused, PickUp, Running
      <4>2. role' = role
        BY <3>2 DEF Resume, LedgerFails, Cancel, Began, BeginFailed, ReadDone, WriteDone,
           RolledBack, Appended, CommitDone, LedgerAppend, Proposed, AutoCommitted, Refused, progress
      <4> QED
        BY <4>1, <4>2 DEF WaitInv, RoleTaken
    <3> QED
      BY <3>1, <3>2
  <2> QED
    BY <2>1, <2>2 DEF WaitInv, RoleTaken
<1>3. ReadsARow'
  <2>1. \A u \in Tasks : u # t => pc'[u] = pc[u] /\ at'[u] = at[u]
    BY OthersKeep, OthersPlace
  <2>2. pc'[t] = "read" => StatementFor(t, at'[t]) = "read" /\ at'[t] \in Nat
    <3>1. at[t] \in Nat /\ at[t] + 1 \in Nat
      BY <1>a
    <3>2. CASE Start(t)
      BY <1>d, <3>1, <3>2
    <3>3. CASE Resume(t)
      BY <1>f, <3>1, <3>3 DEF Advances
    <3> QED
      BY <1>e, <3>2, <3>3
  <2> QED
    BY <1>c, <2>1, <2>2 DEF WaitInv, ReadsARow, Delta
<1>4. AppliedFew'
  <2>1. \A u \in Tasks : u # t => applied'[u] = applied[u]
    BY OthersPlace
  <2>2. applied' = applied \/ (pc[t] = "write" /\ applied'[t] = applied[t] \union {at[t]})
    BY <1>a DEF Start, Resume, LedgerFails, Cancel, Began, BeginFailed, ReadDone, WriteDone,
       RolledBack, Appended, CommitDone, LedgerAppend, Proposed, AutoCommitted, Refused, progress, PickUp
  <2> QED
    BY <1>a, <2>1, <2>2 DEF WaitInv, AppliedFew
<1> QED
  BY <1>1, <1>2, <1>3, <1>4 DEF WaitInv

\* A ROLLBACK is not refused.
LEMMA Refusals ==
  ASSUME Connection
  PROVE  \E s \in Statements, a \in {"ok", "error"} :
           Serve(s, a) /\ (a = "error" => s # "rollback")
  BY SetsAssumption DEF Connection, ServeBegin, ServeRead, ServeWrite, ServeAppend, ServePropose,
     ServeInsert, ServeCommit, ServeRefused, ServeRollback, Statements

LEMMA WaitServeStep ==
  ASSUME TypeInv, WaitInv, Connection
  PROVE  WaitInv'
<1>1. PICK s \in Statements, a \in {"ok", "error"} :
        Serve(s, a) /\ (a = "error" => s # "rollback")
  BY Refusals
<1>2. /\ queue \in Seq(Statement) /\ queue # <<>> /\ queue' = Tail(queue) /\ queue[1].op = s
      /\ Head(queue) = queue[1]
      /\ reply \in [Tasks -> {"none", "ok", "error"}]
  BY <1>1 DEF TypeInv, TypeOK, Serve, Due
<1>3. UNCHANGED <<pc, role, at, applied, ledger>>
  BY <1>1 DEF Serve
<1>4. \A u \in Tasks :
        reply'[u] = IF u = queue[1].task /\ pc[u] = s THEN a ELSE reply[u]
  BY <1>1, <1>2 DEF Serve
<1>5. NobodyIsForgotten'
  <2> SUFFICES ASSUME NEW u \in Tasks, Running(u) PROVE Queued(u)' \/ CanGoOn(u)'
    BY <1>3 DEF NobodyIsForgotten, Running
  <2>1. CASE u = queue[1].task /\ pc[u] = s
    BY <1>1, <1>3, <1>4, <2>1 DEF CanGoOn
  <2>2. CASE ~(u = queue[1].task /\ pc[u] = s)
    <3>1. CanGoOn(u) => CanGoOn(u)'
      BY <1>3, <1>4, <2>2 DEF CanGoOn, Unledgered
    <3>2. ASSUME Queued(u) PROVE Queued(u)'
      <4>1. PICK i \in 1..Len(queue) : queue[i] = [task |-> u, op |-> pc[u]]
        BY <3>2 DEF Queued
      <4>2. i # 1
        BY <1>2, <2>2, <4>1
      <4>3. i - 1 \in 1..Len(queue') /\ queue'[i - 1] = queue[i]
        BY <1>2, <4>1, <4>2
      <4> QED
        BY <1>3, <4>1, <4>3 DEF Queued
    <3> QED
      BY <3>1, <3>2 DEF WaitInv, NobodyIsForgotten
  <2> QED
    BY <2>1, <2>2
<1> QED
  BY <1>3, <1>5 DEF WaitInv, RoleTaken, ReadsARow, AppliedFew, Delta

LEMMA WaitAlways == Spec => [](TypeInv /\ WaitInv)
<1>1. Init => WaitInv
  BY DEF Init, WaitInv, NobodyIsForgotten, RoleTaken, ReadsARow, AppliedFew, Running
<1>2. ASSUME TypeInv, OwnerInv, WaitInv, [Next]_vars PROVE WaitInv'
  <2>1. CASE Connection
    BY <1>2, <2>1, WaitServeStep
  <2>2. CASE \E t \in Tasks : Start(t) \/ Resume(t) \/ LedgerFails(t) \/ Cancel(t)
    BY <1>2, <2>2, WaitTaskStep
  <2>3. CASE Restart
    <3>1. /\ pc' = [t \in Tasks |-> IF Running(t) THEN "end" ELSE pc[t]]
          /\ UNCHANGED <<role, at, applied>>
      BY <2>3 DEF Restart, progress
    <3>2. \A t \in Tasks : ~Running(t)' /\ (pc'[t] = pc[t] \/ (pc'[t] = "end" /\ pc[t] # "idle"))
      BY <3>1 DEF Running
    <3> QED
      BY <1>2, <3>1, <3>2 DEF WaitInv, NobodyIsForgotten, RoleTaken, ReadsARow, AppliedFew, Delta
  <2>4. CASE UNCHANGED vars
    BY <1>2, <2>4 DEF vars, progress, WaitInv, NobodyIsForgotten, RoleTaken, ReadsARow, AppliedFew,
       Delta, Running, Queued, CanGoOn, Unledgered
  <2> QED
    BY <1>2, <2>1, <2>2, <2>3, <2>4 DEF Next, Finished
<1> QED
  BY <1>1, <1>2, OwnerAlways, PTL DEF Spec

\* Whoever is in the commit step waits for a statement the connection will run,
\* has its reply, or an entry to write: no interleaving, failure, cancellation
\* or restart leaves a task with nothing to wait for (state/engine.py, execute();
\* sqlite.py, transaction()).
THEOREM NobodyWaitsInVain == Spec => []NobodyIsForgotten
  BY WaitAlways, PTL DEF WaitInv

LEMMA StepsLeftType ==
  ASSUME NEW p \in Statements \union {"idle", "ledger", "end"}, NEW i \in Nat \ {0},
         NEW k \in Nat, NEW n \in Nat, p \in {"read", "write"} => i <= n
  PROVE  StepsLeft(p, i, k, n) \in Nat
  BY DEF StepsLeft, Statements

LEMMA EntriesLeft ==
  ASSUME WaitInv, NEW t \in Tasks
  PROVE  /\ IsFiniteSet(Unledgered(t)) /\ Cardinality(Unledgered(t)) \in Nat
         /\ Cardinality(Unledgered(t)) <= Len(Deltas[t])
<1>1. Len(Deltas[t]) \in Nat
  BY DeltasAssumption
<1>2. Unledgered(t) \subseteq 1..Len(Deltas[t])
  BY DEF WaitInv, AppliedFew, Unledgered
<1>3. IsFiniteSet(1..Len(Deltas[t])) /\ Cardinality(1..Len(Deltas[t])) = Len(Deltas[t])
  BY <1>1, FS_Interval
<1> QED
  BY <1>2, <1>3, FS_Subset, FS_CardinalityType

LEMMA LeftType ==
  ASSUME TypeInv, WaitInv, NEW t \in Tasks
  PROVE  Left(t) \in Nat
<1>1. /\ pc[t] \in Statements \union {"idle", "ledger", "end"} /\ at[t] \in Nat \ {0}
      /\ pc[t] \in {"read", "write"} => at[t] <= Len(Deltas[t])
      /\ Len(Deltas[t]) \in Nat
  BY DeltasAssumption DEF TypeInv, TypeOK, QueueInv, AtDelta
<1> QED
  BY <1>1, EntriesLeft, StepsLeftType DEF Left

LEMMA ResumeCounts ==
  ASSUME TypeInv, WaitInv, NEW t \in Tasks, Resume(t)
  PROVE  Left(t)' <= Left(t) /\ Left(t)' < Left(t)
<1> DEFINE n == Len(Deltas[t])
           k == Cardinality(Unledgered(t))
           l == Cardinality(Unledgered(t)')
<1>a. /\ pc[t] \in Statements \union {"idle", "ledger", "end"} /\ at[t] \in Nat \ {0}
      /\ pc[t] \in {"read", "write"} => at[t] <= n
      /\ n \in Nat
  BY DeltasAssumption DEF TypeInv, TypeOK, QueueInv, AtDelta
<1>b. k \in Nat /\ k <= n /\ IsFiniteSet(Unledgered(t))
  BY EntriesLeft
<1>c. Left(t) = StepsLeft(pc[t], at[t], k, n) /\ Left(t)' = StepsLeft(pc'[t], at'[t], l, n)
  BY DEF Left
<1>d. pc[t] \in Statements \union {"ledger"}
  BY DEF Resume, Began, BeginFailed, ReadDone, WriteDone, RolledBack, Appended, CommitDone,
     LedgerAppend, Proposed, AutoCommitted, Refused, PickUp, Statements
<1>e. \A i \in Nat \ {0} :
        /\ StatementFor(t, i) \in {"append", "read", "write"}
        /\ StatementFor(t, i) # "append" => i <= n
  BY <1>a, StatementForType
<1>1. CASE pc'[t] = "end"
  <2> HIDE DEF l, k, n
  <2>1. Left(t)' = 0
    BY <1>1, <1>c DEF StepsLeft
  <2>2. Left(t) \in Nat /\ Left(t) > 0
    BY <1>a, <1>b, <1>c, <1>d DEF StepsLeft, Statements
  <2> QED
    BY <2>1, <2>2
<1>2. CASE /\ pc'[t] = "ledger"
           /\ \/ pc[t] \in {"append", "commit"} /\ Unledgered(t)' = Unledgered(t)
              \/ pc[t] = "ledger" /\ \E i \in Unledgered(t) : Unledgered(t)' = Unledgered(t) \ {i}
  <2>1. CASE pc[t] \in {"append", "commit"} /\ l = k
    BY <1>2, <1>a, <1>b, <1>c, <2>1 DEF StepsLeft
  <2>2. CASE pc[t] = "ledger" /\ \E i \in Unledgered(t) : Unledgered(t)' = Unledgered(t) \ {i}
    <3>1. l = k - 1
      BY <1>b, <2>2, FS_RemoveElement
    <3> HIDE DEF l, k
    <3> QED
      BY <1>2, <1>b, <1>c, <2>2, <3>1 DEF StepsLeft
  <2> QED
    BY <1>2, <2>1, <2>2
<1>3. ASSUME NEW s \in Statements, pc'[t] = s,
             \/ pc[t] = "begin" /\ at'[t] = at[t] /\ s = StatementFor(t, at[t])
             \/ pc[t] \in {"read", "write"} /\ at'[t] = at[t] + 1 /\ s = StatementFor(t, at[t] + 1)
             \/ pc[t] = "read" /\ at'[t] = at[t] /\ s = "write"
             \/ pc[t] \in {"read", "write", "append", "commit"} /\ s = "rollback"
             \/ pc[t] = "append" /\ s = "commit"
             \/ pc[t] \in {"append", "commit", "ledger"} /\ s = "propose"
             \/ pc[t] = "propose" /\ s = "autocommit"
      PROVE  Left(t)' <= Left(t) /\ Left(t)' < Left(t)
  <2> HIDE DEF l, k, n
  <2>1. CASE pc[t] = "begin" /\ at'[t] = at[t] /\ s = StatementFor(t, at[t])
    BY <1>3, <1>a, <1>c, <1>e, <2>1 DEF StepsLeft
  <2>2. CASE pc[t] \in {"read", "write"} /\ at'[t] = at[t] + 1 /\ s = StatementFor(t, at[t] + 1)
    BY <1>3, <1>a, <1>c, <1>e, <2>2 DEF StepsLeft
  <2>3. CASE pc[t] = "read" /\ at'[t] = at[t] /\ s = "write"
    BY <1>3, <1>a, <1>c, <2>3 DEF StepsLeft
  <2>4. CASE pc[t] \in {"read", "write", "append", "commit"} /\ s = "rollback"
    BY <1>3, <1>a, <1>c, <2>4 DEF StepsLeft
  <2>5. CASE pc[t] \in {"append", "commit", "ledger"} /\ s = "propose"
    <3>1. pc[t] = "ledger" => k > 0
      <4>1. pc[t] = "ledger" => Unledgered(t) # {}
        BY DEF Resume, Began, BeginFailed, ReadDone, WriteDone, RolledBack, Appended,
           CommitDone, LedgerAppend, Proposed, AutoCommitted, Refused, PickUp
      <4> QED
        BY <1>b, <4>1, FS_EmptySet DEF k
    <3> QED
      BY <1>3, <1>a, <1>b, <1>c, <2>5, <3>1 DEF StepsLeft
  <2>6. CASE (pc[t] = "append" /\ s = "commit") \/ (pc[t] = "propose" /\ s = "autocommit")
    BY <1>3, <1>a, <1>c, <2>6 DEF StepsLeft
  <2> QED
    BY <1>3, <2>1, <2>2, <2>3, <2>4, <2>5, <2>6
<1> QED
  BY <1>1, <1>2, <1>3, WhereNext DEF Advances

\* A started task takes at most three steps per delta and five more, whatever
\* the others do: each step it takes counts, and no step of another task or of
\* the connection takes it back (state/engine.py, execute()).
THEOREM StepsRunOut == Spec => EveryStepCounts
<1> DEFINE Counts(t) == Running(t) => /\ Left(t)' <= Left(t)
                                      /\ Resume(t) => Left(t)' < Left(t)
<1>1. ASSUME TypeInv, WaitInv, [Next]_vars, NEW t \in Tasks PROVE Counts(t)
  <2> SUFFICES ASSUME Running(t) PROVE Left(t)' <= Left(t)
    BY <1>1, ResumeCounts
  <2>0. Left(t) \in Nat
    BY <1>1, LeftType
  <2>1. CASE pc'[t] = "end"
    BY <2>0, <2>1 DEF Left, StepsLeft
  <2>2. CASE UNCHANGED <<pc[t], at[t], Unledgered(t)>>
    BY <2>0, <2>2 DEF Left
  <2>3. CASE Connection
    BY <1>1, <2>2, <2>3, Refusals DEF Serve, Unledgered
  <2>4. ASSUME NEW u \in Tasks, Start(u) \/ Resume(u) \/ LedgerFails(u) \/ Cancel(u)
        PROVE  Left(t)' <= Left(t)
    <3>1. CASE u # t
      BY <1>1, <2>2, <2>4, <3>1, OthersKeep, OthersPlace
    <3>2. CASE u = t /\ Resume(t)
      BY <1>1, <3>2, ResumeCounts
    <3>3. CASE u = t /\ ~Resume(t)
      <4>1. ~Start(t)
        BY DEF Running, Start
      <4>2. pc'[t] = "end"
        BY <1>1, <2>4, <3>3, <4>1 DEF LedgerFails, Cancel, Finish, TypeInv, TypeOK
      <4> QED
        BY <2>1, <4>2
    <3> QED
      BY <2>4, <3>1, <3>2, <3>3
  <2>5. CASE Restart
    BY <2>1, <2>5 DEF Restart
  <2>6. CASE UNCHANGED vars
    BY <2>2, <2>6 DEF vars, progress, Unledgered
  <2> QED
    BY <1>1, <2>3, <2>4, <2>5, <2>6 DEF Next, Finished
<1>2. TypeInv /\ WaitInv /\ [Next]_vars => [\A t \in Tasks : Counts(t)]_vars
  BY <1>1
<1> QED
  BY <1>2, WaitAlways, PTL DEF Spec, EveryStepCounts
=============================================================================
