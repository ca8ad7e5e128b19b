------------------------------- MODULE Holds -------------------------------
(***************************************************************************)
(* Actions held for approval: the HoldStore, the requests that approve or  *)
(* reject (VolnixApp.resolve_hold), the loop that expires stale holds, and *)
(* the action that is held (VolnixApp.handle_action).                      *)
(*                                                                         *)
(* SQLiteDatabase.execute awaits a statement and then its commit, and      *)
(* every other task may run before each.  All of them share a connection:  *)
(* reads see what is not committed yet, and a commit commits what          *)
(* everybody has written.  Times are abstracted to whether a hold's        *)
(* deadline has passed.                                                    *)
(***************************************************************************)
EXTENDS Naturals, FiniteSets

CONSTANTS
  HoldIds,      \* the actions that a policy puts on hold
  Requests,     \* calls of resolve_hold
  MaxFailures,  \* bound on the statements and commits that raise
  MaxCrashes    \* bound on the restarts of the process

ASSUME HoldsAssumption ==
  /\ HoldIds # {}
  /\ MaxFailures \in Nat
  /\ MaxCrashes \in Nat

VARIABLES
  status,    \* the status of each row on the connection, "none" without a row
  durable,   \* its status in the file
  overdue,   \* rows whose expires_at has passed
  holder,    \* where handle_action is for each held action
  pc,        \* where each request is
  hold,      \* the hold a request is about
  approve,   \* whether it approves
  sweep,     \* the expiry loop: "sleeping", "selected", "updated" or "dead"
  stale,     \* the holds it has selected
  ran,       \* how often the held action was executed after all
  raced,     \* the holds on which two requests, or a request and a sweep, overlapped,
             \* or under which another task's failure took back what was written
  failures,  \* statements and commits that raised
  crashes

vars == <<status, durable, overdue, holder, pc, hold, approve, sweep, stale, ran, raced, failures, crashes>>

Decided == {"approved", "rejected"}
InFlight == {r \in Requests : pc[r] \in {"update", "commit", "execute"}}
UnderWay == {hold[r] : r \in InFlight} \union stale

Commit == durable' = status

\* A statement or a commit raises.  What everybody has written and not
\* committed stays on the connection, or SQLite has rolled it back.
DbFails ==
  /\ failures < MaxFailures
  /\ failures' = failures + 1
  /\ \/ UNCHANGED <<status, raced>>
     \/ /\ status' = durable
        /\ raced' = raced \union ({h \in HoldIds : status[h] # durable[h]} \intersect UnderWay')
  /\ UNCHANGED durable

-----------------------------------------------------------------------------
(* The action that is held.                                                *)

\* The policy step holds the action and the pipeline publishes the hold.
Announce(h) ==
  /\ holder[h] = "new"
  /\ holder' = [holder EXCEPT ![h] = "announced"]
  /\ UNCHANGED <<status, durable, overdue, pc, hold, approve, sweep, stale, ran, raced, failures, crashes>>

\* Only then is it inserted,
Store(h) ==
  /\ holder[h] = "announced"
  /\ UNCHANGED <<pc, hold, stale>>
  /\ \/ /\ holder' = [holder EXCEPT ![h] = "storing"]
        /\ status' = [status EXCEPT ![h] = "pending"]
        /\ UNCHANGED <<durable, raced, failures>>
     \/ holder' = [holder EXCEPT ![h] = "failed"] /\ DbFails
  /\ UNCHANGED <<overdue, approve, sweep, ran, crashes>>

\* and committed.
StoreCommit(h) ==
  /\ holder[h] = "storing"
  /\ UNCHANGED <<pc, hold, stale>>
  /\ \/ /\ holder' = [holder EXCEPT ![h] = "stored"]
        /\ Commit
        /\ UNCHANGED <<status, raced, failures>>
     \/ holder' = [holder EXCEPT ![h] = "failed"] /\ DbFails
  /\ UNCHANGED <<overdue, approve, sweep, ran, crashes>>

-----------------------------------------------------------------------------
(* Requests.  A hold is known to approvers once it is announced.           *)

\* Mutant: any row will do.
GetsAny(r) ==
  /\ pc[r] = "idle"
  /\ \E h \in HoldIds, decision \in BOOLEAN :
       /\ holder[h] # "new"
       /\ hold' = [hold EXCEPT ![r] = h]
       /\ approve' = [approve EXCEPT ![r] = decision]
       /\ pc' = [pc EXCEPT ![r] = IF status[h] # "none" THEN "update" ELSE "over"]
       /\ raced' = raced \union ({h} \intersect UnderWay)
  /\ UNCHANGED <<status, durable, overdue, holder, sweep, stale, ran, failures, crashes>>

\* The row is read; only a pending one goes on.
Get(r) ==
  /\ pc[r] = "idle"
  /\ UNCHANGED stale
  /\ \E h \in HoldIds, decision \in BOOLEAN :
       /\ holder[h] # "new"
       /\ hold' = [hold EXCEPT ![r] = h]
       /\ approve' = [approve EXCEPT ![r] = decision]
       /\ \/ /\ pc' = [pc EXCEPT ![r] = IF status[h] = "pending" THEN "update" ELSE "over"]
             /\ raced' = raced \union ({h} \intersect UnderWay)
             /\ UNCHANGED <<status, durable, failures>>
          \/ pc' = [pc EXCEPT ![r] = "over"] /\ DbFails
  /\ UNCHANGED <<overdue, holder, sweep, ran, crashes>>

NewStatus(r) == IF approve[r] THEN "approved" ELSE "rejected"

\* Mutant: the UPDATE does not look at the status.
UpdatesAny(r) ==
  /\ pc[r] = "update"
  /\ status' = [status EXCEPT ![hold[r]] = NewStatus(r)]
  /\ pc' = [pc EXCEPT ![r] = "commit"]
  /\ UNCHANGED <<durable, overdue, holder, hold, approve, sweep, stale, ran, raced, failures, crashes>>

\* The row is updated if it is still pending.
Update(r) ==
  /\ pc[r] = "update"
  /\ UNCHANGED <<hold, stale>>
  /\ \/ /\ status' = [status EXCEPT ![hold[r]] =
                        IF @ = "pending" THEN NewStatus(r) ELSE @]
        /\ pc' = [pc EXCEPT ![r] = "commit"]
        /\ UNCHANGED <<durable, raced, failures>>
     \/ pc' = [pc EXCEPT ![r] = "over"] /\ DbFails
  /\ UNCHANGED <<overdue, holder, approve, sweep, ran, crashes>>

AfterCommit(r) == IF approve[r] THEN "execute" ELSE "over"

\* Mutant: an approval is recorded and the action forgotten.
CommitsOnly(r) ==
  /\ pc[r] = "commit"
  /\ pc' = [pc EXCEPT ![r] = "over"]
  /\ Commit
  /\ UNCHANGED <<status, overdue, holder, hold, approve, sweep, stale, ran, raced, failures, crashes>>

\* The update is committed, and the request goes on with what it read whether
\* its UPDATE changed the row or not.  If the commit raises, so does
\* resolve(), and the row may say what was decided all the same.
UpdateCommit(r) ==
  /\ pc[r] = "commit"
  /\ UNCHANGED <<hold, stale>>
  /\ \/ /\ pc' = [pc EXCEPT ![r] = AfterCommit(r)]
        /\ Commit
        /\ UNCHANGED <<status, raced, failures>>
     \/ pc' = [pc EXCEPT ![r] = "unsure"] /\ DbFails
  /\ UNCHANGED <<overdue, holder, approve, sweep, ran, crashes>>

\* The action goes through the pipeline again, past the policy step; another
\* step may still refuse it.
Execute(r) ==
  /\ pc[r] = "execute"
  /\ \/ /\ ran' = [ran EXCEPT ![hold[r]] = @ + 1]
        /\ pc' = [pc EXCEPT ![r] = "over"]
     \/ /\ pc' = [pc EXCEPT ![r] = "denied"]
        /\ UNCHANGED ran
  /\ UNCHANGED <<status, durable, overdue, holder, hold, approve, sweep, stale, raced, failures, crashes>>

-----------------------------------------------------------------------------
(* The expiry loop.                                                        *)

Overdue(h) ==
  /\ status[h] = "pending"
  /\ h \notin overdue
  /\ overdue' = overdue \union {h}
  /\ UNCHANGED <<status, durable, holder, pc, hold, approve, sweep, stale, ran, raced, failures, crashes>>

Due == {h \in overdue : status[h] = "pending"}

SweepSelect ==
  /\ sweep = "sleeping"
  /\ Due # {}
  /\ sweep' = "selected"
  /\ stale' = Due
  /\ raced' = raced \union (stale' \intersect UnderWay)
  /\ UNCHANGED <<status, durable, overdue, holder, pc, hold, approve, ran, failures, crashes>>

\* Mutant: a row that some request has asked about is left alone.
SweepsQuietly ==
  /\ sweep = "selected"
  /\ status' = [h \in HoldIds |->
                  IF h \in stale \ {hold[r] : r \in {q \in Requests : pc[q] # "idle"}}
                  THEN "expired" ELSE status[h]]
  /\ sweep' = "updated"
  /\ UNCHANGED <<durable, overdue, holder, pc, hold, approve, stale, ran, raced, failures, crashes>>

\* The rows selected are updated, whatever their status is by now,
SweepUpdate ==
  /\ sweep = "selected"
  /\ status' = [h \in HoldIds |->
                  IF h \in stale /\ status[h] # "none" THEN "expired" ELSE status[h]]
  /\ sweep' = "updated"
  /\ UNCHANGED <<durable, overdue, holder, pc, hold, approve, stale, ran, raced, failures, crashes>>

\* and committed.
SweepCommit ==
  /\ sweep = "updated"
  /\ sweep' = "sleeping"
  /\ stale' = {}
  /\ Commit
  /\ UNCHANGED <<status, overdue, holder, pc, hold, approve, ran, raced, failures, crashes>>

\* An exception ends the loop for good.
SweepFails ==
  /\ sweep # "dead"
  /\ sweep' = "dead"
  /\ stale' = {}
  /\ UNCHANGED <<overdue, holder, pc, hold, approve, ran, crashes>>
  /\ DbFails

-----------------------------------------------------------------------------
\* The process stops and starts again on the same file.
Crash ==
  /\ crashes < MaxCrashes
  /\ crashes' = crashes + 1
  /\ status' = durable
  /\ holder' = [h \in HoldIds |-> IF holder[h] \in {"announced", "storing"}
                                  THEN "failed" ELSE holder[h]]
  /\ pc' = [r \in Requests |-> IF r \in InFlight THEN "over" ELSE pc[r]]
  /\ sweep' = "sleeping"
  /\ stale' = {}
  /\ UNCHANGED <<durable, overdue, hold, approve, ran, raced, failures>>

Init ==
  /\ status = [h \in HoldIds |-> "none"]
  /\ durable = status
  /\ overdue = {}
  /\ holder = [h \in HoldIds |-> "new"]
  /\ pc = [r \in Requests |-> "idle"]
  /\ hold = [r \in Requests |-> CHOOSE h \in HoldIds : TRUE]
  /\ approve = [r \in Requests |-> FALSE]
  /\ sweep = "sleeping"
  /\ stale = {}
  /\ ran = [h \in HoldIds |-> 0]
  /\ raced = {}
  /\ failures = 0
  /\ crashes = 0

Storing(h) == Store(h) \/ StoreCommit(h)
Sweep == SweepSelect \/ SweepUpdate \/ SweepCommit
Request(r) == Update(r) \/ UpdateCommit(r) \/ Execute(r)

\* No hold is open, no request is left and no sweep runs.
AtRest ==
  /\ \A h \in HoldIds : holder[h] \in {"stored", "failed"}
  /\ \A r \in Requests : pc[r] # "idle" /\ r \notin InFlight
  /\ sweep \in {"sleeping", "dead"}
  /\ \A h \in HoldIds : status[h] = "pending" => sweep = "dead"
  /\ UNCHANGED vars

Next ==
  \/ \E h \in HoldIds : Announce(h) \/ Storing(h) \/ Overdue(h)
  \/ \E r \in Requests : Get(r) \/ Request(r)
  \/ Sweep \/ SweepFails \/ Crash
  \/ AtRest

\* Time passes, the loop wakes up every minute and a request that has begun
\* goes on; nobody has to approve or reject anything.
Fairness ==
  /\ \A h \in HoldIds : WF_vars(Storing(h)) /\ WF_vars(Overdue(h))
  /\ \A r \in Requests : WF_vars(Request(r))
  /\ WF_vars(Sweep)

Spec == Init /\ [][Next]_vars
FairSpec == Spec /\ Fairness
-----------------------------------------------------------------------------
RowStatus == {"none", "pending", "approved", "rejected", "expired"}

TypeOK ==
  /\ status \in [HoldIds -> RowStatus]
  /\ durable \in [HoldIds -> RowStatus]
  /\ overdue \subseteq HoldIds
  /\ holder \in [HoldIds -> {"new", "announced", "storing", "stored", "failed"}]
  /\ pc \in [Requests -> {"idle", "update", "commit", "execute", "denied", "unsure",
                          "over"}]
  /\ hold \in [Requests -> HoldIds]
  /\ approve \in [Requests -> BOOLEAN]
  /\ sweep \in {"sleeping", "selected", "updated", "dead"}
  /\ stale \subseteq HoldIds
  /\ ran \in [HoldIds -> Nat]
  /\ raced \subseteq HoldIds
  /\ failures \in Nat
  /\ crashes \in Nat

\* Of several requests on one hold the first to commit decides: what the file
\* says was decided is never turned into the opposite, however requests and
\* sweeps interleave, fail and restart.
DecisionStands ==
  [][\A h \in HoldIds :
       durable[h] \in Decided => durable'[h] \in {durable[h], "expired"}]_vars

\* A stored hold does not stay open for ever if nobody answers, unless an
\* exception has ended the expiry loop.
HoldsAreClosed ==
  \A h \in HoldIds : status[h] = "pending" ~> (status[h] # "pending" \/ sweep = "dead")

\* An approved action is executed, or refused by a later step of the pipeline,
\* unless the process dies or the commit of its approval raises: resolve()
\* raises with it and nobody executes what the row may still say is approved.
ApprovedIsExecuted ==
  \A h \in HoldIds :
    status[h] = "approved" ~> \/ ran[h] > 0
                              \/ \E r \in Requests : hold[r] = h /\ pc[r] \in {"denied", "unsure"}
                              \/ crashes > 0

\* A held action runs at most once, and only when the file says that it was
\* approved, whatever fails, as long as the requests and sweeps that touch the
\* hold do not overlap (resolve() commits before handle_action() runs).
SerialHoldsAreSafe ==
  \A h \in HoldIds \ raced :
    /\ ran[h] <= 1
    /\ ran[h] > 0 => status[h] = "approved" /\ durable[h] = "approved"

\* "Second resolve returns None (already resolved)" (test_hold_store.py): a
\* held action is executed at most once.
RunsOnce == \A h \in HoldIds : ran[h] <= 1
=============================================================================
