---------------------------- MODULE Holds_proofs ----------------------------
(***************************************************************************)
(* Proofs about Holds, for any number of holds and requests: the type, and *)
(* that holds which no two requests or sweeps touch at once run at most    *)
(* once and only if they were approved; that decisions stand whatever      *)
(* overlaps; that what is approved is executed or about to be, unless its   *)
(* commit raised.                                                          *)
(***************************************************************************)
EXTENDS Holds, TLAPS

StatusType == status \in [HoldIds -> RowStatus] /\ durable \in [HoldIds -> RowStatus]
HolderType == holder \in [HoldIds -> {"new", "announced", "storing", "stored", "failed"}]
RequestType ==
  /\ pc \in [Requests -> {"idle", "update", "commit", "execute", "denied", "unsure", "over"}]
  /\ hold \in [Requests -> HoldIds]
  /\ approve \in [Requests -> BOOLEAN]
SweepType == sweep \in {"sleeping", "selected", "updated", "dead"} /\ stale \subseteq HoldIds
HistoryType ==
  /\ overdue \subseteq HoldIds
  /\ ran \in [HoldIds -> Nat]
  /\ raced \subseteq HoldIds
  /\ failures \in Nat
  /\ crashes \in Nat

LEMMA TypeParts ==
  /\ TypeOK <=> StatusType /\ HolderType /\ RequestType /\ SweepType /\ HistoryType
  /\ TypeOK' <=> StatusType' /\ HolderType' /\ RequestType' /\ SweepType' /\ HistoryType'
BY DEF TypeOK, StatusType, HolderType, RequestType, SweepType, HistoryType

-----------------------------------------------------------------------------
\* The steps of Next, one by one.
LEMMA Steps ==
  ASSUME [Next]_vars
  PROVE  \/ \E h \in HoldIds : Announce(h) \/ Store(h) \/ StoreCommit(h) \/ Overdue(h)
         \/ \E r \in Requests : Get(r) \/ Update(r) \/ UpdateCommit(r) \/ Execute(r)
         \/ SweepSelect \/ SweepUpdate \/ SweepCommit \/ SweepFails \/ Crash
         \/ UNCHANGED vars
BY DEF Next, Storing, Request, Sweep, AtRest

\* What a statement or a commit that raises leaves.
LEMMA FailsType ==
  ASSUME StatusType, HistoryType, DbFails
  PROVE  /\ StatusType'
         /\ raced' \subseteq HoldIds
         /\ failures' \in Nat
BY DEF StatusType, HistoryType, DbFails

LEMMA InitType == Init => TypeOK
<1> SUFFICES ASSUME Init PROVE TypeOK
  OBVIOUS
<1>1. (CHOOSE h \in HoldIds : TRUE) \in HoldIds
  BY HoldsAssumption
<1>2. hold \in [Requests -> HoldIds]
  BY <1>1 DEF Init
<1> QED
  BY <1>2 DEF Init, TypeOK, RowStatus

LEMMA TypeStep == TypeOK /\ [Next]_vars => TypeOK'
<1> SUFFICES ASSUME TypeOK, [Next]_vars PROVE TypeOK'
  OBVIOUS
<1>t. StatusType /\ HolderType /\ RequestType /\ SweepType /\ HistoryType
  BY TypeParts
<1>1. ASSUME NEW h \in HoldIds, Announce(h) \/ Overdue(h) PROVE TypeOK'
  BY <1>1, <1>t, TypeParts
     DEF Announce, Overdue, StatusType, HolderType, RequestType, SweepType, HistoryType
<1>2. ASSUME NEW h \in HoldIds, Store(h) \/ StoreCommit(h) PROVE TypeOK'
  <2>1. HolderType' /\ RequestType' /\ SweepType'
    BY <1>2, <1>t DEF Store, StoreCommit, HolderType, RequestType, SweepType
  <2>2. StatusType' /\ raced' \subseteq HoldIds /\ failures' \in Nat
    BY <1>2, <1>t, FailsType
       DEF Store, StoreCommit, Commit, StatusType, HistoryType, RowStatus
  <2>3. HistoryType'
    BY <1>2, <1>t, <2>2 DEF Store, StoreCommit, HistoryType
  <2> QED
    BY <2>1, <2>2, <2>3, TypeParts
<1>3. ASSUME NEW r \in Requests, Get(r) PROVE TypeOK'
  <2>1. RequestType'
    BY <1>3, <1>t DEF Get, RequestType
  <2>2. StatusType' /\ raced' \subseteq HoldIds /\ failures' \in Nat
    BY <1>3, <1>t, FailsType DEF Get, StatusType, HistoryType
  <2>3. HistoryType' /\ HolderType' /\ SweepType'
    BY <1>3, <1>t, <2>2 DEF Get, HistoryType, HolderType, SweepType
  <2> QED
    BY <2>1, <2>2, <2>3, TypeParts
<1>4. ASSUME NEW r \in Requests, Update(r) PROVE TypeOK'
  <2>1. RequestType'
    BY <1>4, <1>t DEF Update, RequestType
  <2>2. StatusType' /\ raced' \subseteq HoldIds /\ failures' \in Nat
    BY <1>4, <1>t, FailsType
       DEF Update, NewStatus, StatusType, RequestType, HistoryType, RowStatus
  <2>3. HistoryType' /\ HolderType' /\ SweepType'
    BY <1>4, <1>t, <2>2 DEF Update, HistoryType, HolderType, SweepType
  <2> QED
    BY <2>1, <2>2, <2>3, TypeParts
<1>5. ASSUME NEW r \in Requests, UpdateCommit(r) PROVE TypeOK'
  <2>1. RequestType'
    BY <1>5, <1>t DEF UpdateCommit, AfterCommit, RequestType
  <2>2. StatusType' /\ raced' \subseteq HoldIds /\ failures' \in Nat
    BY <1>5, <1>t, FailsType DEF UpdateCommit, Commit, StatusType, HistoryType
  <2>3. HistoryType' /\ HolderType' /\ SweepType'
    BY <1>5, <1>t, <2>2 DEF UpdateCommit, HistoryType, HolderType, SweepType
  <2> QED
    BY <2>1, <2>2, <2>3, TypeParts
<1>6. ASSUME NEW r \in Requests, Execute(r) PROVE TypeOK'
  <2>1. RequestType'
    BY <1>6, <1>t DEF Execute, RequestType
  <2>2. HistoryType'
    BY <1>6, <1>t DEF Execute, RequestType, HistoryType
  <2>3. StatusType' /\ HolderType' /\ SweepType'
    BY <1>6, <1>t DEF Execute, StatusType, HolderType, SweepType
  <2> QED
    BY <2>1, <2>2, <2>3, TypeParts
<1>7. ASSUME SweepSelect \/ SweepUpdate \/ SweepCommit PROVE TypeOK'
  BY <1>7, <1>t, TypeParts
     DEF SweepSelect, SweepUpdate, SweepCommit, Due, Commit, StatusType, HolderType,
         RequestType, SweepType, HistoryType, RowStatus
<1>8. ASSUME SweepFails PROVE TypeOK'
  BY <1>8, <1>t, TypeParts, FailsType
     DEF SweepFails, HolderType, RequestType, SweepType, HistoryType
<1>9. ASSUME Crash PROVE TypeOK'
  BY <1>9, <1>t, TypeParts
     DEF Crash, StatusType, HolderType, RequestType, SweepType, HistoryType
<1>10. ASSUME UNCHANGED vars PROVE TypeOK'
  BY <1>10, <1>t, TypeParts
     DEF vars, StatusType, HolderType, RequestType, SweepType, HistoryType
<1> QED
  BY <1>1, <1>2, <1>3, <1>4, <1>5, <1>6, <1>7, <1>8, <1>9, <1>10, Steps

\* Every reachable state of the holds has its type.
THEOREM HoldsTypeCorrect == Spec => []TypeOK
BY InitType, TypeStep, PTL DEF Spec

-----------------------------------------------------------------------------
(* Rows.                                                                   *)

\* A row exists, on the connection and in the file, only once its action has
\* gone on to store it.
RowsAreStored ==
  \A h \in HoldIds : holder[h] \in {"new", "announced"} =>
                       status[h] = "none" /\ durable[h] = "none"

\* What is written over a decision in the file and not committed can only be
\* an expiry.
DecidedOrExpired ==
  \A h \in HoldIds : durable[h] \in Decided => status[h] \in {durable[h], "expired"}

RowsInv == RowsAreStored /\ DecidedOrExpired

LEMMA RowsFail ==
  ASSUME RowsInv, DbFails,
         \A h \in HoldIds : holder'[h] \in {"new", "announced"} => holder'[h] = holder[h]
  PROVE  RowsInv'
BY DEF RowsInv, RowsAreStored, DecidedOrExpired, DbFails, Decided

LEMMA RowsStep == TypeOK /\ RowsInv /\ [Next]_vars => RowsInv'
<1> SUFFICES ASSUME TypeOK, RowsInv, [Next]_vars PROVE RowsInv'
  OBVIOUS
<1>t. StatusType /\ HolderType /\ SweepType /\ RequestType
  BY TypeParts
<1>1. ASSUME NEW h \in HoldIds, Announce(h) \/ Overdue(h) PROVE RowsInv'
  BY <1>1, <1>t DEF RowsInv, RowsAreStored, DecidedOrExpired, Announce, Overdue, HolderType
<1>2. ASSUME NEW h \in HoldIds, Store(h) PROVE RowsInv'
  <2>1. CASE DbFails
    BY <1>2, <1>t, <2>1, RowsFail DEF Store, HolderType
  <2>2. CASE UNCHANGED durable /\ status' = [status EXCEPT ![h] = "pending"]
              /\ holder' = [holder EXCEPT ![h] = "storing"]
    BY <1>2, <1>t, <2>2 DEF Store, RowsInv, RowsAreStored, DecidedOrExpired, Decided, StatusType,
                            HolderType
  <2> QED
    BY <1>2, <2>1, <2>2 DEF Store
<1>3. ASSUME NEW h \in HoldIds, StoreCommit(h) PROVE RowsInv'
  <2>1. CASE DbFails
    BY <1>3, <1>t, <2>1, RowsFail DEF StoreCommit, HolderType
  <2>2. CASE Commit /\ UNCHANGED status /\ holder' = [holder EXCEPT ![h] = "stored"]
    BY <1>3, <1>t, <2>2 DEF StoreCommit, Commit, RowsInv, RowsAreStored, DecidedOrExpired,
                            HolderType
  <2> QED
    BY <1>3, <2>1, <2>2 DEF StoreCommit
<1>4. ASSUME NEW r \in Requests, Get(r) \/ Execute(r) PROVE RowsInv'
  <2>1. CASE DbFails
    BY <1>4, <2>1, RowsFail DEF Get, Execute
  <2>2. CASE UNCHANGED <<status, durable, holder>>
    BY <2>2 DEF RowsInv, RowsAreStored, DecidedOrExpired
  <2> QED
    BY <1>4, <2>1, <2>2 DEF Get, Execute
<1>5. ASSUME NEW r \in Requests, Update(r) PROVE RowsInv'
  <2>1. CASE DbFails
    BY <1>5, <2>1, RowsFail DEF Update
  <2>2. CASE /\ UNCHANGED <<durable, holder>>
             /\ status' = [status EXCEPT ![hold[r]] = IF @ = "pending" THEN NewStatus(r) ELSE @]
    <3>1. \A h \in HoldIds : status'[h] = status[h] \/ status[h] = "pending"
      BY <1>t, <2>2 DEF StatusType, RequestType
    <3> QED
      BY <2>2, <3>1 DEF RowsInv, RowsAreStored, DecidedOrExpired, Decided
  <2> QED
    BY <1>5, <2>1, <2>2 DEF Update
<1>6. ASSUME NEW r \in Requests, UpdateCommit(r) PROVE RowsInv'
  <2>1. CASE DbFails
    BY <1>6, <2>1, RowsFail DEF UpdateCommit
  <2>2. CASE Commit /\ UNCHANGED <<status, holder>>
    BY <2>2 DEF Commit, RowsInv, RowsAreStored, DecidedOrExpired
  <2> QED
    BY <1>6, <2>1, <2>2 DEF UpdateCommit
<1>7. ASSUME SweepSelect \/ SweepUpdate \/ SweepCommit PROVE RowsInv'
  BY <1>7, <1>t DEF RowsInv, RowsAreStored, DecidedOrExpired, SweepSelect, SweepUpdate,
                    SweepCommit, Commit, Decided, StatusType
<1>8. ASSUME SweepFails PROVE RowsInv'
  BY <1>8, RowsFail DEF SweepFails
<1>9. ASSUME Crash \/ UNCHANGED vars PROVE RowsInv'
  BY <1>9, <1>t DEF RowsInv, RowsAreStored, DecidedOrExpired, Crash, vars, HolderType
<1> QED
  BY <1>1, <1>2, <1>3, <1>4, <1>5, <1>6, <1>7, <1>8, <1>9, Steps

LEMMA RowsInvariant == Spec => [](TypeOK /\ RowsInv)
<1>1. Init => RowsInv
  BY DEF Init, RowsInv, RowsAreStored, DecidedOrExpired, Decided
<1> QED
  BY <1>1, InitType, TypeStep, RowsStep, PTL DEF Spec

\* What the file says was decided is not turned into its opposite by any step.
THEOREM HoldsDecisionStands == Spec => DecisionStands
<1> DEFINE Stands == \A h \in HoldIds :
                       durable[h] \in Decided => durable'[h] \in {durable[h], "expired"}
<1>1. TypeOK /\ RowsInv /\ [Next]_vars => [Stands]_vars
  <2> SUFFICES ASSUME RowsInv, [Next]_vars PROVE Stands
    OBVIOUS
  <2>1. UNCHANGED durable \/ (Commit /\ UNCHANGED status)
    BY Steps DEF Announce, Store, StoreCommit, Overdue, Get, Update, UpdateCommit, Execute,
                 SweepSelect, SweepUpdate, SweepCommit, SweepFails, Crash, DbFails, vars
  <2> QED
    BY <2>1 DEF RowsInv, DecidedOrExpired, Commit
<1> QED
  BY <1>1, RowsInvariant, PTL DEF Spec, DecisionStands

-----------------------------------------------------------------------------
(* Holds that are not raced for.                                           *)

\* The request under way on such a hold is the only one, and no sweep has
\* selected the hold.
OneAtATime(h) ==
  /\ \A r, q \in InFlight : hold[r] = h /\ hold[q] = h => r = q
  /\ h \in stale => \A r \in InFlight : hold[r] # h

\* So what a request or the sweep has read or written is still there.
ReadsHold(h) ==
  /\ h \in stale /\ sweep = "selected" => status[h] = "pending"
  /\ \A r \in Requests : hold[r] = h /\ pc[r] = "update" => status[h] = "pending"
  /\ \A r \in Requests : hold[r] = h /\ pc[r] = "commit" =>
                            status[h] = NewStatus(r) /\ ran[h] = 0
  /\ \A r \in Requests : hold[r] = h /\ pc[r] = "execute" =>
                            status[h] = "approved" /\ durable[h] = "approved" /\ ran[h] = 0

\* What ran once was approved, and the file says so.
RanIfApproved(h) ==
  /\ ran[h] <= 1
  /\ ran[h] # 0 => status[h] = "approved" /\ durable[h] = "approved"

SerialAt(h) == OneAtATime(h) /\ ReadsHold(h) /\ RanIfApproved(h)
Serial == \A h \in HoldIds \ raced : SerialAt(h)

SweepSleeps == sweep \notin {"selected", "updated"} => stale = {}
HoldsInv == TypeOK /\ RowsInv /\ SweepSleeps /\ Serial

LEMMA SleepsStep == SweepSleeps /\ [Next]_vars => SweepSleeps'
<1> SUFFICES ASSUME SweepSleeps, [Next]_vars PROVE SweepSleeps'
  OBVIOUS
<1> QED
  BY Steps DEF SweepSleeps, Announce, Store, StoreCommit, Overdue, Get, Update, UpdateCommit,
               Execute, SweepSelect, SweepUpdate, SweepCommit, SweepFails, Crash, vars

\* A failure leaves the other tasks where they are; the holds whose rows it
\* takes back from under them count as raced for.
LEMMA SerialFails ==
  ASSUME HoldsInv, DbFails, UNCHANGED ran, stale' \subseteq stale,
         sweep' = sweep \/ stale' = {},
         \A r \in InFlight' : /\ r \in InFlight
                              /\ pc'[r] = pc[r] /\ hold'[r] = hold[r] /\ approve'[r] = approve[r]
  PROVE  Serial'
<1> SUFFICES ASSUME NEW h \in HoldIds, h \notin raced' PROVE SerialAt(h)'
  BY DEF Serial
<1>1. SerialAt(h) /\ UNCHANGED durable
  BY DEF HoldsInv, Serial, DbFails
<1>2. OneAtATime(h)'
  BY <1>1 DEF SerialAt, OneAtATime
<1>3. CASE status'[h] = status[h]
  <2>1. ReadsHold(h)'
    BY <1>1, <1>3 DEF SerialAt, ReadsHold, InFlight, NewStatus
  <2> QED
    BY <1>1, <1>2, <1>3, <2>1 DEF SerialAt, RanIfApproved
<1>4. CASE status'[h] # status[h]
  <2>1. status'[h] = durable[h] /\ h \notin UnderWay'
    BY <1>4 DEF DbFails
  <2>2. h \notin stale' /\ \A r \in InFlight' : hold'[r] # h
    BY <2>1 DEF UnderWay
  <2>3. ReadsHold(h)'
    BY <2>2 DEF ReadsHold, InFlight
  <2> QED
    BY <1>1, <1>2, <2>1, <2>3 DEF SerialAt, RanIfApproved
<1> QED
  BY <1>3, <1>4

\* A step of one hold's action.
LEMMA SerialHolding ==
  ASSUME HoldsInv, NEW g \in HoldIds, Announce(g) \/ Store(g) \/ StoreCommit(g) \/ Overdue(g)
  PROVE  Serial'
<1>t. StatusType /\ HolderType /\ RequestType /\ SweepType /\ HistoryType
  BY TypeParts DEF HoldsInv
<1>u. UNCHANGED <<pc, hold, approve, sweep, stale, ran>>
  BY DEF Announce, Store, StoreCommit, Overdue
<1>1. CASE DbFails
  BY <1>u, <1>1, SerialFails DEF InFlight
<1>2. CASE ~DbFails /\ UNCHANGED raced
  <2> SUFFICES ASSUME NEW h \in HoldIds \ raced PROVE SerialAt(h)'
    BY <1>2 DEF Serial
  <2>1. SerialAt(h)
    BY DEF HoldsInv, Serial
  <2>2. CASE UNCHANGED <<status, durable>>
    BY <1>u, <2>1, <2>2 DEF SerialAt, OneAtATime, ReadsHold, RanIfApproved, InFlight, NewStatus
  <2>3. CASE Commit /\ UNCHANGED status
    BY <1>u, <2>1, <2>3
       DEF SerialAt, OneAtATime, ReadsHold, RanIfApproved, InFlight, NewStatus, Commit
  <2>4. CASE status[g] = "none" /\ status' = [status EXCEPT ![g] = "pending"] /\ UNCHANGED durable
    <3>1. g # h => status'[h] = status[h]
      BY <1>t, <2>4 DEF StatusType
    <3>2. g = h => ran[h] = 0 /\ status'[h] = "pending"
                   /\ \A r \in InFlight : hold[r] # h
      BY <1>t, <2>1, <2>4 DEF SerialAt, ReadsHold, RanIfApproved, StatusType, InFlight, NewStatus
    <3>3. ReadsHold(h)' /\ RanIfApproved(h)'
      BY <1>u, <2>1, <2>4, <3>1, <3>2 DEF SerialAt, ReadsHold, RanIfApproved, InFlight, NewStatus
    <3> QED
      BY <1>u, <2>1, <3>3 DEF SerialAt, OneAtATime, InFlight
  <2> QED
    BY <1>2, <2>2, <2>3, <2>4
       DEF HoldsInv, RowsInv, RowsAreStored, Announce, Store, StoreCommit, Overdue
<1> QED
  BY <1>1, <1>2 DEF Announce, Store, StoreCommit, Overdue

\* A request reads the row.
LEMMA SerialGet ==
  ASSUME HoldsInv, NEW q \in Requests, Get(q)
  PROVE  Serial'
<1>t. StatusType /\ HolderType /\ RequestType /\ SweepType /\ HistoryType
  BY TypeParts DEF HoldsInv
<1>1. PICK g \in HoldIds, decision \in BOOLEAN :
        /\ holder[g] # "new"
        /\ hold' = [hold EXCEPT ![q] = g]
        /\ approve' = [approve EXCEPT ![q] = decision]
        /\ \/ /\ pc' = [pc EXCEPT ![q] = IF status[g] = "pending" THEN "update" ELSE "over"]
              /\ raced' = raced \union ({g} \intersect UnderWay)
              /\ UNCHANGED <<status, durable, failures>>
           \/ pc' = [pc EXCEPT ![q] = "over"] /\ DbFails
  BY DEF Get
<1>2. UNCHANGED <<sweep, stale, ran>> /\ pc[q] = "idle"
  BY DEF Get
<1>3. \A r \in Requests \ {q} : pc'[r] = pc[r] /\ hold'[r] = hold[r] /\ approve'[r] = approve[r]
  BY <1>1, <1>t DEF RequestType
<1>4. CASE pc' = [pc EXCEPT ![q] = "over"] /\ DbFails
  <2>1. pc'[q] = "over"
    BY <1>t, <1>4 DEF RequestType
  <2> QED
    BY <1>2, <1>3, <1>4, <2>1, SerialFails DEF InFlight
<1>5. CASE /\ pc' = [pc EXCEPT ![q] = IF status[g] = "pending" THEN "update" ELSE "over"]
           /\ raced' = raced \union ({g} \intersect UnderWay)
           /\ UNCHANGED <<status, durable, failures>>
  <2> SUFFICES ASSUME NEW h \in HoldIds, h \notin raced' PROVE SerialAt(h)'
    BY DEF Serial
  <2>1. SerialAt(h)
    BY <1>5 DEF HoldsInv, Serial
  <2>2. hold'[q] = g /\ ((pc'[q] = "update" /\ status[g] = "pending") \/ pc'[q] = "over")
    BY <1>1, <1>5, <1>t DEF RequestType
  <2>3. g = h => (\A r \in InFlight : hold[r] # h) /\ h \notin stale
    BY <1>5 DEF UnderWay
  <2>4. OneAtATime(h)'
    BY <1>2, <1>3, <2>1, <2>2, <2>3 DEF SerialAt, OneAtATime, InFlight
  <2>5. ReadsHold(h)'
    BY <1>2, <1>3, <1>5, <2>1, <2>2, <2>3 DEF SerialAt, ReadsHold, InFlight, NewStatus
  <2> QED
    BY <1>2, <1>5, <2>1, <2>4, <2>5 DEF SerialAt, RanIfApproved
<1> QED
  BY <1>1, <1>4, <1>5

\* It updates the row.
LEMMA SerialUpdate ==
  ASSUME HoldsInv, NEW q \in Requests, Update(q)
  PROVE  Serial'
<1>t. StatusType /\ HolderType /\ RequestType /\ SweepType /\ HistoryType
  BY TypeParts DEF HoldsInv
<1>1. UNCHANGED <<hold, approve, sweep, stale, ran>> /\ pc[q] = "update" /\ q \in InFlight
  BY DEF Update, InFlight
<1>2. \A r \in Requests \ {q} : pc'[r] = pc[r]
  BY <1>t DEF Update, RequestType
<1>3. CASE pc' = [pc EXCEPT ![q] = "over"] /\ DbFails
  <2>1. pc'[q] = "over"
    BY <1>t, <1>3 DEF RequestType
  <2> QED
    BY <1>1, <1>2, <1>3, <2>1, SerialFails DEF InFlight
<1>4. CASE /\ status' = [status EXCEPT ![hold[q]] = IF @ = "pending" THEN NewStatus(q) ELSE @]
           /\ pc' = [pc EXCEPT ![q] = "commit"]
           /\ UNCHANGED <<durable, raced, failures>>
  <2> SUFFICES ASSUME NEW h \in HoldIds \ raced PROVE SerialAt(h)'
    BY <1>4 DEF Serial
  <2>1. SerialAt(h)
    BY DEF HoldsInv, Serial
  <2>2. OneAtATime(h)'
    BY <1>1, <1>2, <2>1 DEF SerialAt, OneAtATime, InFlight
  <2>3. CASE hold[q] # h
    <3>1. status'[h] = status[h]
      BY <1>4, <1>t, <2>3 DEF StatusType
    <3>2. ReadsHold(h)'
      BY <1>1, <1>2, <1>4, <2>1, <2>3, <3>1 DEF SerialAt, ReadsHold, NewStatus
    <3> QED
      BY <1>1, <1>4, <2>1, <2>2, <3>1, <3>2 DEF SerialAt, RanIfApproved
  <2>4. CASE hold[q] = h
    <3>1. status[h] = "pending" /\ ran[h] = 0 /\ h \notin stale
      BY <1>1, <2>1, <2>4 DEF SerialAt, OneAtATime, ReadsHold, RanIfApproved
    <3>2. status'[h] = NewStatus(q) /\ pc'[q] = "commit"
      BY <1>4, <1>t, <2>4, <3>1 DEF StatusType, RequestType
    <3>3. \A r \in Requests \ {q} : hold[r] = h => r \notin InFlight
      BY <1>1, <2>1, <2>4 DEF SerialAt, OneAtATime
    <3>4. ReadsHold(h)'
      BY <1>1, <1>2, <3>1, <3>2, <3>3 DEF ReadsHold, InFlight, NewStatus
    <3> QED
      BY <1>1, <2>2, <3>1, <3>4 DEF SerialAt, RanIfApproved
  <2> QED
    BY <2>3, <2>4
<1> QED
  BY <1>3, <1>4 DEF Update

\* And commits it.
LEMMA SerialCommit ==
  ASSUME HoldsInv, NEW q \in Requests, UpdateCommit(q)
  PROVE  Serial'
<1>t. StatusType /\ HolderType /\ RequestType /\ SweepType /\ HistoryType
  BY TypeParts DEF HoldsInv
<1>1. UNCHANGED <<hold, approve, sweep, stale, ran>> /\ pc[q] = "commit" /\ q \in InFlight
  BY DEF UpdateCommit, InFlight
<1>2. \A r \in Requests \ {q} : pc'[r] = pc[r]
  BY <1>t DEF UpdateCommit, RequestType
<1>3. CASE pc' = [pc EXCEPT ![q] = "unsure"] /\ DbFails
  <2>1. pc'[q] = "unsure"
    BY <1>t, <1>3 DEF RequestType
  <2> QED
    BY <1>1, <1>2, <1>3, <2>1, SerialFails DEF InFlight
<1>4. CASE /\ pc' = [pc EXCEPT ![q] = AfterCommit(q)]
           /\ Commit
           /\ UNCHANGED <<status, raced, failures>>
  <2> SUFFICES ASSUME NEW h \in HoldIds \ raced PROVE SerialAt(h)'
    BY <1>4 DEF Serial
  <2>1. SerialAt(h)
    BY DEF HoldsInv, Serial
  <2>2. OneAtATime(h)'
    BY <1>1, <1>2, <2>1 DEF SerialAt, OneAtATime, InFlight
  <2>3. durable'[h] = status[h] /\ status' = status
    BY <1>4 DEF Commit
  <2>4. pc'[q] = AfterCommit(q)
    BY <1>4, <1>t DEF RequestType
  <2>5. ReadsHold(h)'
    BY <1>1, <1>2, <2>1, <2>3, <2>4 DEF SerialAt, ReadsHold, NewStatus, AfterCommit
  <2> QED
    BY <1>1, <2>1, <2>2, <2>3, <2>5 DEF SerialAt, RanIfApproved
<1> QED
  BY <1>3, <1>4 DEF UpdateCommit

\* The action runs.
LEMMA SerialExecute ==
  ASSUME HoldsInv, NEW q \in Requests, Execute(q)
  PROVE  Serial'
<1>t. StatusType /\ HolderType /\ RequestType /\ SweepType /\ HistoryType
  BY TypeParts DEF HoldsInv
<1> SUFFICES ASSUME NEW h \in HoldIds \ raced PROVE SerialAt(h)'
  BY DEF Serial, Execute
<1>1. SerialAt(h)
  BY DEF HoldsInv, Serial
<1>2. UNCHANGED <<hold, approve, sweep, stale, status, durable>> /\ pc[q] = "execute"
      /\ q \in InFlight
  BY DEF Execute, InFlight
<1>3. /\ \A r \in Requests \ {q} : pc'[r] = pc[r]
      /\ pc'[q] \in {"over", "denied"}
  BY <1>t DEF Execute, RequestType
<1>4. OneAtATime(h)'
  BY <1>1, <1>2, <1>3 DEF SerialAt, OneAtATime, InFlight
<1>5. CASE hold[q] # h
  <2>1. ran'[h] = ran[h]
    BY <1>5, <1>t DEF Execute, HistoryType
  <2>2. ReadsHold(h)'
    BY <1>1, <1>2, <1>3, <1>5, <2>1 DEF SerialAt, ReadsHold, NewStatus
  <2> QED
    BY <1>1, <1>2, <1>4, <2>1, <2>2 DEF SerialAt, RanIfApproved
<1>6. CASE hold[q] = h
  <2>1. status[h] = "approved" /\ durable[h] = "approved" /\ ran[h] = 0 /\ h \notin stale
    BY <1>1, <1>2, <1>6 DEF SerialAt, OneAtATime, ReadsHold
  <2>2. ran'[h] <= 1
    BY <1>6, <1>t, <2>1 DEF Execute, HistoryType
  <2>3. \A r \in Requests \ {q} : hold[r] = h => r \notin InFlight
    BY <1>1, <1>2, <1>6 DEF SerialAt, OneAtATime
  <2> QED
    BY <1>1, <1>2, <1>3, <1>4, <2>1, <2>2, <2>3
       DEF SerialAt, ReadsHold, RanIfApproved, InFlight
<1> QED
  BY <1>5, <1>6

\* The expiry loop, and a crash.
LEMMA SerialSweep ==
  ASSUME HoldsInv, SweepSelect \/ SweepUpdate \/ SweepCommit
  PROVE  Serial'
<1>t. StatusType /\ HolderType /\ RequestType /\ SweepType /\ HistoryType
  BY TypeParts DEF HoldsInv
<1> SUFFICES ASSUME NEW h \in HoldIds, h \notin raced' PROVE SerialAt(h)'
  BY DEF Serial
<1>1. SerialAt(h)
  BY DEF HoldsInv, Serial, SweepSelect, SweepUpdate, SweepCommit
<1>2. UNCHANGED <<pc, hold, approve, ran>>
  BY DEF SweepSelect, SweepUpdate, SweepCommit
<1>3. CASE SweepSelect
  <2>1. status' = status /\ durable' = durable /\ (h \in stale' => status[h] = "pending")
    BY <1>3 DEF SweepSelect, Due
  <2>2. h \in stale' => \A r \in InFlight : hold[r] # h
    BY <1>3 DEF SweepSelect, UnderWay
  <2>3. OneAtATime(h)'
    BY <1>1, <1>2, <2>2 DEF SerialAt, OneAtATime, InFlight
  <2>4. ReadsHold(h)'
    BY <1>1, <1>2, <2>1 DEF SerialAt, ReadsHold, NewStatus
  <2> QED
    BY <1>1, <1>2, <2>1, <2>3, <2>4 DEF SerialAt, RanIfApproved
<1>4. CASE SweepUpdate
  <2>1. /\ stale' = stale /\ sweep' = "updated" /\ sweep = "selected" /\ durable' = durable
        /\ status'[h] = IF h \in stale /\ status[h] # "none" THEN "expired" ELSE status[h]
    BY <1>4, <1>t DEF SweepUpdate
  <2>2. h \in stale => ran[h] = 0 /\ \A r \in InFlight : hold[r] # h
    BY <1>1, <2>1 DEF SerialAt, OneAtATime, ReadsHold, RanIfApproved
  <2>3. ReadsHold(h)'
    BY <1>1, <1>2, <2>1, <2>2 DEF SerialAt, ReadsHold, InFlight, NewStatus
  <2> QED
    BY <1>1, <1>2, <2>1, <2>2, <2>3 DEF SerialAt, OneAtATime, RanIfApproved, InFlight
<1>5. CASE SweepCommit
  <2>1. stale' = {} /\ status' = status /\ durable' = status
    BY <1>5 DEF SweepCommit, Commit
  <2>2. ReadsHold(h)'
    BY <1>1, <1>2, <2>1 DEF SerialAt, ReadsHold, NewStatus
  <2> QED
    BY <1>1, <1>2, <2>1, <2>2 DEF SerialAt, OneAtATime, RanIfApproved, InFlight
<1> QED
  BY <1>3, <1>4, <1>5

LEMMA SerialCrash ==
  ASSUME HoldsInv, Crash \/ UNCHANGED vars
  PROVE  Serial'
<1>t. RequestType
  BY TypeParts DEF HoldsInv
<1>1. CASE Crash
  <2> SUFFICES ASSUME NEW h \in HoldIds \ raced PROVE SerialAt(h)'
    BY <1>1 DEF Serial, Crash
  <2>1. SerialAt(h)
    BY DEF HoldsInv, Serial
  <2>2. \A r \in Requests : pc'[r] \notin {"update", "commit", "execute"}
    BY <1>1 DEF Crash, InFlight
  <2>3. stale' = {} /\ status' = durable /\ UNCHANGED <<durable, ran, hold>>
    BY <1>1 DEF Crash
  <2> QED
    BY <2>1, <2>2, <2>3 DEF SerialAt, OneAtATime, ReadsHold, RanIfApproved, InFlight
<1>2. CASE UNCHANGED vars
  BY <1>2 DEF HoldsInv, Serial, SerialAt, OneAtATime, ReadsHold, RanIfApproved, InFlight, vars,
              NewStatus
<1> QED
  BY <1>1, <1>2

LEMMA HoldsInvariant == Spec => []HoldsInv
<1>1. Init => HoldsInv
  <2> SUFFICES ASSUME Init PROVE HoldsInv
    OBVIOUS
  <2>1. TypeOK /\ RowsInv /\ SweepSleeps
    BY InitType DEF Init, RowsInv, RowsAreStored, DecidedOrExpired, Decided, SweepSleeps
  <2>2. Serial
    BY DEF Init, Serial, SerialAt, OneAtATime, ReadsHold, RanIfApproved, InFlight
  <2> QED
    BY <2>1, <2>2 DEF HoldsInv
<1>2. HoldsInv /\ [Next]_vars => HoldsInv'
  <2> SUFFICES ASSUME HoldsInv, [Next]_vars PROVE HoldsInv'
    OBVIOUS
  <2>1. TypeOK' /\ RowsInv' /\ SweepSleeps'
    BY TypeStep, RowsStep, SleepsStep DEF HoldsInv
  <2>2. ASSUME SweepFails PROVE Serial'
    BY <2>2, SerialFails DEF SweepFails, InFlight
  <2>3. Serial'
    BY <2>2, Steps, SerialHolding, SerialGet, SerialUpdate, SerialCommit, SerialExecute,
       SerialSweep, SerialCrash
  <2> QED
    BY <2>1, <2>3 DEF HoldsInv
<1> QED
  BY <1>1, <1>2, PTL DEF Spec

\* A hold that requests and sweeps touch one at a time runs at most once, and
\* only when its approval is in the file.
THEOREM HoldsSerialAreSafe == Spec => []SerialHoldsAreSafe
<1>1. HoldsInv => SerialHoldsAreSafe
  BY TypeParts DEF HoldsInv, Serial, SerialAt, RanIfApproved, SerialHoldsAreSafe, HistoryType
<1> QED
  BY <1>1, HoldsInvariant, PTL

-----------------------------------------------------------------------------
(* An approved action is under way.                                        *)

\* As long as the process lives, a hold that says approved was executed or
\* refused by a later step, or its request is about to execute it or commits
\* the approval first; or that commit has raised.
Pursued(h) ==
  \/ ran[h] > 0
  \/ \E r \in Requests :
       hold[r] = h /\ \/ pc[r] \in {"execute", "denied", "unsure"}
                      \/ pc[r] = "commit" /\ approve[r]
ApprovedIsPursued ==
  \A h \in HoldIds :
    (status[h] = "approved" \/ durable[h] = "approved") /\ crashes = 0 => Pursued(h)

\* A hold that nobody approves in a step stays pursued if the requests that
\* pursue it and the count of its executions stay.
LEMMA PursuedStays ==
  ASSUME ApprovedIsPursued, UNCHANGED <<ran, crashes>>,
         \A h \in HoldIds : {status'[h], durable'[h]} \subseteq {status[h], durable[h],
                              "none", "pending", "rejected", "expired"},
         \A r \in Requests : pc[r] \in {"execute", "denied", "unsure", "commit"} =>
                               pc'[r] = pc[r] /\ hold'[r] = hold[r] /\ approve'[r] = approve[r]
  PROVE  ApprovedIsPursued'
BY DEF ApprovedIsPursued, Pursued

LEMMA PursuedStep == TypeOK /\ ApprovedIsPursued /\ [Next]_vars => ApprovedIsPursued'
<1> SUFFICES ASSUME TypeOK, ApprovedIsPursued, [Next]_vars PROVE ApprovedIsPursued'
  OBVIOUS
<1>t. StatusType /\ RequestType /\ HistoryType
  BY TypeParts
<1>f. ASSUME DbFails
      PROVE  \A h \in HoldIds : {status'[h], durable'[h]} \subseteq {status[h], durable[h]}
  BY <1>f DEF DbFails
<1>1. ASSUME NEW h \in HoldIds, Announce(h) \/ Store(h) \/ StoreCommit(h) \/ Overdue(h)
      PROVE  ApprovedIsPursued'
  <2>1. \A g \in HoldIds : {status'[g], durable'[g]} \subseteq {status[g], durable[g], "pending"}
    BY <1>t, <1>f, <1>1 DEF Announce, Store, StoreCommit, Overdue, Commit, StatusType
  <2> QED
    BY <1>1, <2>1, PursuedStays DEF Announce, Store, StoreCommit, Overdue
<1>2. ASSUME NEW r \in Requests, Get(r) PROVE ApprovedIsPursued'
  <2>1. /\ pc[r] = "idle" /\ UNCHANGED <<ran, crashes>>
        /\ \A q \in Requests \ {r} : pc'[q] = pc[q] /\ hold'[q] = hold[q] /\ approve'[q] = approve[q]
    BY <1>t, <1>2 DEF Get, RequestType, DbFails
  <2>2. \A h \in HoldIds : {status'[h], durable'[h]} \subseteq {status[h], durable[h]}
    BY <1>f, <1>2 DEF Get
  <2> QED
    BY <2>1, <2>2, PursuedStays
<1>3. ASSUME NEW r \in Requests, Update(r) PROVE ApprovedIsPursued'
  <2>1. /\ pc[r] = "update" /\ UNCHANGED <<hold, ran, crashes, approve>>
        /\ \A q \in Requests \ {r} : pc'[q] = pc[q]
    BY <1>t, <1>3 DEF Update, RequestType
  <2>2. CASE DbFails
    BY <1>f, <2>1, <2>2, PursuedStays
  <2>3. CASE /\ status' = [status EXCEPT ![hold[r]] = IF @ = "pending" THEN NewStatus(r) ELSE @]
             /\ pc' = [pc EXCEPT ![r] = "commit"]
             /\ UNCHANGED durable
    <3> SUFFICES ASSUME NEW h \in HoldIds, crashes' = 0,
                        status'[h] = "approved" \/ durable'[h] = "approved"
                 PROVE  Pursued(h)'
      BY DEF ApprovedIsPursued
    <3>1. pc'[r] = "commit"
      BY <1>t, <2>3 DEF RequestType
    <3>2. CASE status[h] = "approved" \/ durable[h] = "approved"
      BY <2>1, <3>2 DEF ApprovedIsPursued, Pursued
    <3>3. CASE ~(status[h] = "approved" \/ durable[h] = "approved")
      <4>1. hold[r] = h /\ NewStatus(r) = "approved"
        BY <1>t, <2>3, <3>3 DEF StatusType, RequestType
      <4>2. approve'[r]
        BY <2>1, <4>1 DEF NewStatus
      <4> QED
        BY <2>1, <3>1, <4>1, <4>2 DEF Pursued
    <3> QED
      BY <3>2, <3>3
  <2> QED
    BY <1>3, <2>2, <2>3 DEF Update
<1>4. ASSUME NEW r \in Requests, UpdateCommit(r) PROVE ApprovedIsPursued'
  <2>1. /\ pc[r] = "commit" /\ UNCHANGED <<hold, ran, crashes, approve>>
        /\ \A q \in Requests \ {r} : pc'[q] = pc[q]
        /\ approve[r] => pc'[r] \in {"execute", "unsure"}
    BY <1>t, <1>4 DEF UpdateCommit, AfterCommit, RequestType
  <2>2. pc'[r] \in {"execute", "unsure"} \/ ~approve[r]
    BY <2>1
  <2>3. \A h \in HoldIds : {status'[h], durable'[h]} \subseteq {status[h], durable[h]}
    BY <1>f, <1>4 DEF UpdateCommit, Commit
  <2> QED
    BY <2>1, <2>2, <2>3 DEF ApprovedIsPursued, Pursued
<1>5. ASSUME NEW r \in Requests, Execute(r) PROVE ApprovedIsPursued'
  <2> SUFFICES ASSUME NEW h \in HoldIds, status'[h] = "approved" \/ durable'[h] = "approved",
                      crashes' = 0
               PROVE  Pursued(h)'
    BY DEF ApprovedIsPursued
  <2>1. /\ UNCHANGED <<hold, approve, status, durable, crashes>> /\ Pursued(h)
        /\ pc[r] = "execute"
        /\ \A q \in Requests \ {r} : pc'[q] = pc[q]
    BY <1>t, <1>5 DEF Execute, RequestType, ApprovedIsPursued
  <2>2. CASE pc'[r] = "denied" /\ ran' = ran
    BY <2>1, <2>2 DEF Pursued
  <2>3. CASE ran' = [ran EXCEPT ![hold[r]] = @ + 1]
    <3>1. hold[r] \in HoldIds /\ ran \in [HoldIds -> Nat]
      BY <1>t DEF RequestType, HistoryType
    <3>2. ran'[hold[r]] > 0 /\ \A k \in HoldIds \ {hold[r]} : ran'[k] = ran[k]
      BY <2>3, <3>1
    <3>3. CASE hold[r] = h
      BY <3>2, <3>3 DEF Pursued
    <3>4. CASE hold[r] # h
      BY <2>1, <3>2, <3>4 DEF Pursued
    <3> QED
      BY <3>3, <3>4
  <2> QED
    BY <1>t, <1>5, <2>2, <2>3 DEF Execute, RequestType
<1>6. CASE SweepSelect \/ SweepUpdate \/ SweepCommit \/ SweepFails \/ UNCHANGED vars
  <2>1. UNCHANGED <<pc, hold, approve, ran, crashes>>
    BY <1>6 DEF SweepSelect, SweepUpdate, SweepCommit, SweepFails, vars
  <2>2. \A h \in HoldIds : {status'[h], durable'[h]} \subseteq {status[h], durable[h], "expired"}
    BY <1>6, <1>f DEF SweepSelect, SweepUpdate, SweepCommit, SweepFails, Commit, vars
  <2> QED
    BY <2>1, <2>2, PursuedStays
<1>7. CASE Crash
  BY <1>t, <1>7 DEF Crash, HistoryType, ApprovedIsPursued
<1> QED
  BY <1>1, <1>2, <1>3, <1>4, <1>5, <1>6, <1>7, Steps

\* No interleaving of requests, sweeps and failures forgets an approval that is
\* written, on the connection or in the file (VolnixApp.resolve_hold): only the
\* end of the process does, or a commit that raises after the UPDATE.
THEOREM HoldsApprovedIsPursued == Spec => []ApprovedIsPursued
<1>1. Init => ApprovedIsPursued
  BY DEF Init, ApprovedIsPursued
<1> QED
  BY <1>1, PursuedStep, HoldsTypeCorrect, PTL DEF Spec
=============================================================================
