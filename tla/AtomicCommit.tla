---------------------------- MODULE AtomicCommit ----------------------------
(***************************************************************************)
(* What the commit step promises: every action's deltas and its event take *)
(* effect in one indivisible step on the durable database, or not at all.  *)
(***************************************************************************)
EXTENDS Integers, Sequences

CONSTANTS Tasks, Entities, NoTask, Deltas, Existing, Proposing

VARIABLES
  store,    \* the durable database: rows and event log
  failed    \* the actions whose caller was told of an error

Absent == {NoTask}   \* no row

\* One delta: whether it is accepted, and the rows after it.
Accepts(rows, delta) ==
  \/ delta.op = "create" /\ rows[delta.entity] = Absent
  \/ delta.op = "update" /\ rows[delta.entity] # Absent
  \/ delta.op = "delete"
After(rows, t, delta) ==
  [rows EXCEPT ![delta.entity] =
     IF delta.op = "delete" THEN Absent
     ELSE IF delta.op = "create" THEN {t} ELSE @ \union {t}]

\* The rows after each number of the deltas of task t, in order.
Prefixes(rows, t) ==
  LET upTo[n \in 0..Len(Deltas[t])] ==
        IF n = 0 THEN rows ELSE After(upTo[n - 1], t, Deltas[t][n])
  IN  upTo
Accepted(rows, t) ==
  \A n \in 1..Len(Deltas[t]) : Accepts(Prefixes(rows, t)[n - 1], Deltas[t][n])
Outcome(rows, t) == Prefixes(rows, t)[Len(Deltas[t])]

Done(t) == <<t, "event">> \in store.log

Commit(t) ==
  /\ ~Done(t) /\ t \notin failed
  /\ Accepted(store.ents, t)
  /\ store' = [ents |-> Outcome(store.ents, t),
               log |-> store.log \union {<<t, "event">>}]
  /\ UNCHANGED failed

Fail(t) ==
  /\ ~Done(t) /\ t \notin failed
  /\ failed' = failed \union {t}
  /\ UNCHANGED store

\* The additional event of the proposal follows the action's own event.
Propose(t) ==
  /\ Done(t) /\ t \in Proposing
  /\ store' = [store EXCEPT !.log = @ \union {<<t, "proposed">>}]
  /\ UNCHANGED failed

Init ==
  /\ store = [ents |-> [e \in Entities |-> IF e \in Existing THEN {} ELSE Absent],
              log |-> {}]
  /\ failed = {}

Next == \E t \in Tasks : Commit(t) \/ Fail(t) \/ Propose(t)

Spec == Init /\ [][Next]_<<store, failed>>
=============================================================================
