----------------------------- MODULE Runs_proofs -----------------------------
(***************************************************************************)
(* Proofs about Runs, for any number of runs, actions and callers: the     *)
(* type; that the table of runs is a RunRecord; that a saved end lasts;    *)
(* that the current run is open; and which database an action writes in.   *)
(***************************************************************************)
EXTENDS Runs, TLAPS

RecordType ==
  /\ rec \in [RunIds -> {"none", "created", "running", "completed", "stopped"}]
  /\ disk \in [RunIds -> {"none", "created", "running", "completed", "stopped", "torn"}]
  /\ dump \in [RunIds -> {"none", "running", "completed"}]
  /\ raced \subseteq RunIds
AppType ==
  /\ cur \in RunIds \union {None}
  /\ world \in BOOLEAN
  /\ last \in {"none", "recent", "old"}
DbType == db \in RunIds \union {None, World, Default}
CreateType ==
  create \in [RunIds -> {"new", "world", "record", "recording", "recorded", "switch",
                         "configure", "game", "start", "starting", "config", "done", "failed"}]
EndType ==
  /\ end \in [Ends -> {"none", "idle", "asleep", "left", "report", "save", "write", "ended",
                       "failed"}]
  /\ about \in [Ends -> RunIds \union {None}]
  /\ saved \subseteq RunIds
  /\ unsaved \subseteq RunIds
ActType ==
  /\ act \in [Actions -> {"new", "waits", "pipeline", "txn", "written", "done", "failed"}]
  /\ waits \in [Actions -> RunIds \union {None}]
  /\ runOf \in [Actions -> RunIds \union {None}]
  /\ txn \in [Actions -> RunIds \union {None, World, Default}]
  /\ where \in [Actions -> RunIds \union {None, World, Default}]
SwitchType ==
  /\ touching \subseteq RunIds
  /\ upset \in BOOLEAN
  /\ astray \subseteq Actions
  /\ crashes \in Nat

LEMMA TypeParts ==
  /\ TypeOK <=> RecordType /\ AppType /\ DbType /\ CreateType /\ EndType /\ ActType /\ SwitchType
  /\ TypeOK' <=> RecordType' /\ AppType' /\ DbType' /\ CreateType' /\ EndType' /\ ActType'
                 /\ SwitchType'
BY DEF TypeOK, RecordType, AppType, DbType, CreateType, EndType, ActType, SwitchType

\* The steps of Next, one by one.
CreateStep(r) ==
  \/ CreateWorld(r) \/ Record(r) \/ RecordOpens(r) \/ RecordWrites(r) \/ Close(r)
  \/ Reconfigure(r) \/ MakeCurrent(r) \/ Start(r) \/ StartOpens(r) \/ StartWrites(r)
  \/ Finish(r) \/ CreateFails(r)
EndStep(t) == EndRun(t) \/ Complete(t) \/ CompleteOpens(t) \/ Leave(t) \/ EndFails(t)
ActStep(a) ==
  \/ Ensure(a) \/ Enter(a) \/ Refused(a) \/ BeginCommit(a) \/ Write(a) \/ EndCommit(a)
  \/ Fail(a)

LEMMA Steps ==
  ASSUME [Next]_vars
  PROVE  \/ \E r \in RunIds : CreateStep(r) \/ Wake(r)
         \/ \E t \in Ends : EndStep(t)
         \/ \E a \in Actions : ActStep(a)
         \/ Quiet \/ Crash \/ UNCHANGED vars
BY DEF Next, CreateStep, CreateSteps, EndStep, EndSteps, ActStep, ActionSteps, AtRest

-----------------------------------------------------------------------------
(* Where a call of create_run is, and what its run's record says.          *)

LifeAt(r) ==
  /\ create[r] \in {"new", "world"} => rec[r] = "none" /\ disk[r] = "none"
  /\ create[r] \in {"record", "recording", "recorded", "switch", "configure", "game"} =>
       rec[r] = "created"
  /\ create[r] \in {"start", "starting", "config", "done"} => rec[r] \in {"running", "completed"}
  /\ create[r] = "starting" => dump[r] \in {"running", rec[r]}
Life == \A r \in RunIds : LifeAt(r)

\* Where a call of end_run is, and what the record of its run says.
EndLifeAt(t) ==
  /\ end[t] \in {"report", "save", "write"} => about[t] \in RunIds
  /\ end[t] = "report" => rec[about[t]] \in {"running", "completed"}
  /\ end[t] \in {"save", "write"} => rec[about[t]] = "completed"
EndLife == \A t \in Ends : EndLifeAt(t)

LifeInv == TypeOK /\ Life /\ EndLife

LEMMA RunsInit == Init => LifeInv
<1> SUFFICES ASSUME Init PROVE LifeInv
  OBVIOUS
<1>1. TypeOK
  BY RunsAssumption DEF Init, TypeOK
<1>2. Life /\ EndLife
  BY DEF Init, Life, LifeAt, EndLife, EndLifeAt, Ends
<1> QED
  BY <1>1, <1>2 DEF LifeInv

LEMMA CreateStepType ==
  ASSUME LifeInv, NEW r \in RunIds, CreateStep(r)
  PROVE  TypeOK'
<1>t. RecordType /\ AppType /\ DbType /\ CreateType /\ EndType /\ ActType /\ SwitchType
  BY TypeParts DEF LifeInv
<1>l. LifeAt(r)
  BY DEF LifeInv, Life
<1>1. CreateType'
  BY <1>t DEF CreateStep, CreateType, CreateWorld, Record, Recorded, RecordOpens, RecordWrites,
              Close, Reconfigure, MakeCurrent, Start, StartOpens, StartWrites, Finish, CreateFails
<1>2. RecordType'
  <2>1. CASE StartOpens(r)
    BY <1>t, <1>l, <2>1 DEF StartOpens, RecordType, LifeAt
  <2>2. CASE StartWrites(r)
    BY <1>t, <2>2 DEF StartWrites, RecordType
  <2>3. CASE CreateWorld(r) \/ Record(r) \/ RecordOpens(r) \/ RecordWrites(r) \/ Close(r)
    BY <1>t, <2>3 DEF CreateWorld, Record, Recorded, RecordOpens, RecordWrites, Close, record,
                      RecordType
  <2>4. CASE Reconfigure(r) \/ MakeCurrent(r) \/ Start(r) \/ Finish(r) \/ CreateFails(r)
    BY <1>t, <2>4 DEF Reconfigure, MakeCurrent, Start, Finish, CreateFails, record, RecordType
  <2> QED
    BY <2>1, <2>2, <2>3, <2>4 DEF CreateStep
<1>3. AppType'
  BY <1>t DEF CreateStep, AppType, CreateWorld, Record, RecordOpens, RecordWrites,
              Close, Reconfigure, MakeCurrent, Start, StartOpens, StartWrites, Finish,
              CreateFails, app
<1>4. DbType'
  BY <1>t DEF CreateStep, DbType, CreateWorld, Record, RecordOpens, RecordWrites,
              Close, Reconfigure, MakeCurrent, Start, StartOpens, StartWrites, Finish, CreateFails
<1>5. EndType'
  <2>1. CASE Finish(r)
    <3>1. end' = end \/ \E e \in {"asleep", "left"} : end' = [end EXCEPT ![r] = e]
      BY <2>1 DEF Finish
    <3> QED
      BY <1>t, <2>1, <3>1 DEF Finish, EndType
  <2>2. CASE ~Finish(r)
    BY <1>t, <2>2 DEF CreateStep, EndType, CreateWorld, Record, RecordOpens, RecordWrites,
              Close, Reconfigure, MakeCurrent, Start, StartOpens, StartWrites, CreateFails, ends
  <2> QED
    BY <2>1, <2>2
<1>6. ActType'
  BY <1>t DEF CreateStep, ActType, CreateWorld, Record, RecordOpens, RecordWrites,
              Close, Reconfigure, MakeCurrent, Start, StartOpens, StartWrites, Finish,
              CreateFails, actions
<1>7. SwitchType'
  BY <1>t DEF CreateStep, SwitchType, CreateWorld, Touch, InPipeline, Record, RecordOpens,
              RecordWrites, Close, Reconfigure, MakeCurrent, Start, StartOpens, StartWrites,
              Finish, CreateFails, switch
<1> QED
  BY <1>1, <1>2, <1>3, <1>4, <1>5, <1>6, <1>7, TypeParts

LEMMA EndStepType ==
  ASSUME LifeInv, NEW t \in Ends, EndStep(t)
  PROVE  TypeOK'
<1>t. RecordType /\ AppType /\ DbType /\ CreateType /\ EndType /\ ActType /\ SwitchType
  BY TypeParts DEF LifeInv
<1>l. EndLifeAt(t)
  BY DEF LifeInv, EndLife
<1>1. RecordType' /\ EndType'
  <2>1. CASE EndRun(t)
    BY <1>t, <2>1 DEF EndRun, Begins, RecordType, EndType
  <2>2. CASE Complete(t)
    BY <1>t, <1>l, <2>2 DEF Complete, EndLifeAt, RecordType, EndType
  <2>3. CASE CompleteOpens(t)
    BY <1>t, <1>l, <2>3 DEF CompleteOpens, EndLifeAt, RecordType, EndType
  <2>4. CASE Leave(t)
    <3>1. about[t] \in RunIds
      BY <1>l, <2>4 DEF Leave, EndLifeAt
    <3>2. PICK d \in {"completed", "torn"} : disk' = [disk EXCEPT ![about[t]] = d]
      BY <2>4 DEF Leave
    <3> QED
      BY <1>t, <2>4, <3>1, <3>2 DEF Leave, RecordType, EndType
  <2>5. CASE EndFails(t)
    BY <1>t, <1>l, <2>5 DEF EndFails, EndLifeAt, RecordType, EndType, record
  <2> QED
    BY <2>1, <2>2, <2>3, <2>4, <2>5 DEF EndStep
<1>2. AppType' /\ DbType' /\ CreateType'
  BY <1>t DEF EndStep, EndRun, Complete, CompleteOpens, Leave, EndFails, app, AppType, DbType,
              CreateType
<1>3. ActType' /\ SwitchType'
  BY <1>t DEF EndStep, EndRun, Complete, CompleteOpens, Leave, EndFails, actions, switch,
              ActType, SwitchType
<1> QED
  BY <1>1, <1>2, <1>3, TypeParts

LEMMA ActStepType ==
  ASSUME LifeInv, NEW a \in Actions, ActStep(a)
  PROVE  TypeOK'
<1>t. RecordType /\ AppType /\ DbType /\ CreateType /\ EndType /\ ActType /\ SwitchType
  BY TypeParts DEF LifeInv
<1>1. ActType'
  <2>1. act' \in [Actions -> {"new", "waits", "pipeline", "txn", "written", "done", "failed"}]
    BY <1>t DEF ActStep, ActType, Ensure, Enter, Refused, Fail, BeginCommit, Write, EndCommit
  <2>2. waits' \in [Actions -> RunIds \union {None}] /\ runOf' \in [Actions -> RunIds \union {None}]
    BY <1>t DEF ActStep, ActType, AppType, Ensure, Enter, Refused, Fail, BeginCommit, Write, EndCommit
  <2>3. txn' \in [Actions -> RunIds \union {None, World, Default}]
    BY <1>t DEF ActStep, ActType, DbType, Ensure, Enter, Refused, Fail, BeginCommit, Write, EndCommit
  <2>4. \/ where' = where
        \/ \E d \in RunIds \union {None, World, Default} : where' = [where EXCEPT ![a] = d]
    BY <1>t DEF ActStep, ActType, DbType, Ensure, Enter, Refused, Fail, Kept, BeginCommit, Write,
                EndCommit
  <2>5. where' \in [Actions -> RunIds \union {None, World, Default}]
    BY <1>t, <2>4 DEF ActType
  <2> QED
    BY <2>1, <2>2, <2>3, <2>5 DEF ActType
<1>2. RecordType' /\ CreateType'
  BY <1>t DEF ActStep, Ensure, Recorded, Enter, Refused, Fail, BeginCommit, Write, EndCommit, record,
              RecordType, CreateType
<1>3. AppType' /\ DbType' /\ EndType'
  BY <1>t DEF ActStep, Ensure, Enter, Refused, Fail, BeginCommit, Write, EndCommit, app, ends,
              AppType, DbType, EndType
<1>4. SwitchType'
  BY <1>t DEF ActStep, Ensure, Enter, Refused, Fail, BeginCommit, Write, EndCommit, switch, SwitchType
<1> QED
  BY <1>1, <1>2, <1>3, <1>4, TypeParts

LEMMA OtherStepType ==
  ASSUME LifeInv, (\E r \in RunIds : Wake(r)) \/ Quiet \/ Crash \/ UNCHANGED vars
  PROVE  TypeOK'
<1>t. RecordType /\ AppType /\ DbType /\ CreateType /\ EndType /\ ActType /\ SwitchType
  BY TypeParts DEF LifeInv
<1>1. ASSUME NEW r \in RunIds, Wake(r) PROVE TypeOK'
  <2>1. RecordType' /\ EndType'
    BY <1>t, <1>1 DEF Wake, Begins, RecordType, EndType, Ends
  <2>2. AppType' /\ DbType' /\ CreateType' /\ ActType' /\ SwitchType'
    BY <1>t, <1>1 DEF Wake, AppType, DbType, CreateType, ActType, SwitchType, app, actions, switch
  <2> QED
    BY <2>1, <2>2, TypeParts
<1>2. CASE Quiet
  BY <1>t, <1>2, TypeParts DEF Quiet, RecordType, AppType, DbType, CreateType, EndType, ActType,
                               SwitchType, record, ends, actions, switch
<1>3. CASE Crash
  <2>1. RecordType'
    BY <1>t, <1>3 DEF Crash, Recovered, RecordType
  <2>2. AppType' /\ DbType' /\ CreateType' /\ EndType'
    BY <1>t, <1>3 DEF Crash, AppType, DbType, CreateType, EndType
  <2>3. act' \in [Actions -> {"new", "failed"}] /\ waits' = [a \in Actions |-> None]
    BY <1>3 DEF Crash
  <2>4. runOf' = waits' /\ txn' = waits' /\ where' = waits'
    BY <1>3 DEF Crash
  <2>5. ActType'
    BY <2>3, <2>4 DEF ActType
  <2>6. SwitchType'
    <3>1. touching' = {} /\ upset' = FALSE /\ astray' = {}
      BY <1>3, Zenon DEF Crash
    <3>2. crashes' = crashes + 1
      BY <1>3, Zenon DEF Crash
    <3>3. crashes' \in Nat
      BY <1>t, <3>2 DEF SwitchType
    <3> QED
      BY <3>1, <3>3 DEF SwitchType
  <2> QED
    BY <2>1, <2>2, <2>5, <2>6, TypeParts
<1>4. CASE UNCHANGED vars
  BY <1>t, <1>4, TypeParts DEF vars, record, app, ends, actions, switch, RecordType, AppType,
                               DbType, CreateType, EndType, ActType, SwitchType
<1> QED
  BY <1>1, <1>2, <1>3, <1>4

LEMMA TypeStep == LifeInv /\ [Next]_vars => TypeOK'
BY Steps, CreateStepType, EndStepType, ActStepType, OtherStepType

-----------------------------------------------------------------------------
(* The life of a run is an invariant.                                      *)

LEMMA CreateStepLife ==
  ASSUME LifeInv, NEW r \in RunIds, CreateStep(r)
  PROVE  Life' /\ EndLife'
<1>t. RecordType /\ CreateType /\ EndType
  BY TypeParts DEF LifeInv
<1>l. LifeAt(r)
  BY DEF LifeInv, Life
<1>1. \A q \in RunIds \ {r} : /\ create'[q] = create[q] /\ rec'[q] = rec[q]
                              /\ disk'[q] = disk[q] /\ dump'[q] = dump[q]
  BY <1>t DEF CreateStep, CreateWorld, Record, Recorded, RecordOpens, RecordWrites, Close,
              Reconfigure, MakeCurrent, Start, StartOpens, StartWrites, Finish, CreateFails,
              record, RecordType, CreateType
<1>2. LifeAt(r)'
  <2>1. CASE CreateWorld(r) \/ Record(r) \/ RecordOpens(r) \/ RecordWrites(r) \/ Close(r)
    BY <1>t, <1>l, <2>1 DEF CreateWorld, Record, Recorded, RecordOpens, RecordWrites, Close,
                            record, RecordType, CreateType, LifeAt
  <2>2. CASE Reconfigure(r) \/ MakeCurrent(r) \/ Start(r) \/ StartOpens(r)
    BY <1>t, <1>l, <2>2 DEF Reconfigure, MakeCurrent, Start, StartOpens, record, RecordType,
                            CreateType, LifeAt
  <2>3. CASE StartWrites(r) \/ Finish(r) \/ CreateFails(r)
    BY <1>t, <1>l, <2>3 DEF StartWrites, Finish, CreateFails, record, RecordType, CreateType,
                            LifeAt
  <2> QED
    BY <2>1, <2>2, <2>3 DEF CreateStep
<1>3. Life'
  BY <1>1, <1>2 DEF LifeInv, Life, LifeAt
<1>4. \A q \in RunIds : rec[q] \in {"running", "completed"} => rec'[q] = rec[q]
  <2>1. rec[r] \in {"running", "completed"} => rec'[r] = rec[r]
    BY <1>t, <1>l DEF CreateStep, CreateWorld, Record, Recorded, RecordOpens, RecordWrites, Close,
              Reconfigure, MakeCurrent, Start, StartOpens, StartWrites, Finish, CreateFails,
              record, RecordType, CreateType, LifeAt
  <2> QED
    BY <1>1, <2>1
<1>5. about' = about /\ \A t \in Ends : end'[t] \in {"report", "save", "write"} => end'[t] = end[t]
  <2>1. CASE Finish(r)
    BY <1>t, <2>1 DEF Finish, EndType
  <2>2. CASE ~Finish(r)
    BY <2>2 DEF CreateStep, CreateWorld, Record, RecordOpens, RecordWrites, Close,
              Reconfigure, MakeCurrent, Start, StartOpens, StartWrites, CreateFails, ends
  <2> QED
    BY <2>1, <2>2
<1>6. EndLife'
  BY <1>4, <1>5 DEF LifeInv, EndLife, EndLifeAt
<1> QED
  BY <1>3, <1>6

LEMMA EndStepLife ==
  ASSUME LifeInv, NEW t \in Ends, EndStep(t)
  PROVE  Life' /\ EndLife'
<1>t. RecordType /\ CreateType /\ EndType
  BY TypeParts DEF LifeInv
<1>l. EndLifeAt(t)
  BY DEF LifeInv, EndLife
<1>1. CASE EndRun(t)
  <2>1. PICK r \in RunIds : Begins(t, r)
    BY <1>1 DEF EndRun
  <2>2. UNCHANGED <<rec, disk, dump, create>>
    BY <1>1 DEF EndRun
  <2>3. Life'
    BY <2>2 DEF LifeInv, Life, LifeAt
  <2>4. EndLife'
    BY <1>t, <2>1, <2>2 DEF Begins, LifeInv, EndLife, EndLifeAt, EndType
  <2> QED
    BY <2>3, <2>4
<1>2. CASE Complete(t)
  <2>1. about[t] \in RunIds /\ rec[about[t]] \in {"running", "completed"}
    BY <1>2, <1>l DEF Complete, EndLifeAt
  <2>2. rec' = [rec EXCEPT ![about[t]] = "completed"] /\ UNCHANGED <<disk, dump, create, about>>
    BY <1>2 DEF Complete
  <2>3. Life'
    BY <1>t, <2>1, <2>2 DEF LifeInv, Life, LifeAt, RecordType, CreateType
  <2>4. \A u \in Ends \ {t} : end'[u] = end[u]
    BY <1>2, <1>t DEF Complete, EndType
  <2>5. end'[t] = "save"
    BY <1>2, <1>t DEF Complete, EndType
  <2>6. EndLife'
    BY <1>t, <2>1, <2>2, <2>4, <2>5 DEF LifeInv, EndLife, EndLifeAt, RecordType
  <2> QED
    BY <2>3, <2>6
<1>3. CASE CompleteOpens(t) \/ Leave(t) \/ EndFails(t)
  <2>1. UNCHANGED <<rec, dump, create, about>>
    BY <1>3 DEF CompleteOpens, Leave, EndFails, record
  <2>2. \A r \in RunIds : rec[r] = "none" => disk'[r] = disk[r]
    BY <1>3, <1>t, <1>l DEF CompleteOpens, Leave, EndFails, record, EndLifeAt, RecordType
  <2>3. Life'
    BY <2>1, <2>2 DEF LifeInv, Life, LifeAt
  <2>4. \A u \in Ends : \/ end'[u] = end[u]
                        \/ end[u] = "save" /\ end'[u] = "write"
                        \/ end'[u] \in {"ended", "failed"}
    BY <1>3, <1>t DEF CompleteOpens, Leave, EndFails, EndType
  <2>5. EndLife'
    BY <2>1, <2>4 DEF LifeInv, EndLife, EndLifeAt
  <2> QED
    BY <2>3, <2>5
<1> QED
  BY <1>1, <1>2, <1>3 DEF EndStep

LEMMA OtherStepLife ==
  ASSUME LifeInv, \/ \E a \in Actions : ActStep(a)
                  \/ \E r \in RunIds : Wake(r)
                  \/ Quiet \/ Crash \/ UNCHANGED vars
  PROVE  Life' /\ EndLife'
<1>t. RecordType /\ CreateType /\ EndType
  BY TypeParts DEF LifeInv
<1>1. ASSUME NEW a \in Actions, Ensure(a) PROVE Life' /\ EndLife'
  <2>1. PICK r \in RunIds \ Fresh : create[r] = "new" /\ Recorded(r)
    BY <1>1 DEF Ensure
  <2>2. UNCHANGED <<disk, dump, end, about>>
    BY <1>1 DEF Ensure, ends
  <2>3. Life'
    BY <1>t, <2>1, <2>2 DEF Recorded, LifeInv, Life, LifeAt, RecordType, CreateType
  <2>4. rec[r] = "none"
    BY <2>1 DEF LifeInv, Life, LifeAt
  <2>5. \A q \in RunIds : rec[q] \in {"running", "completed"} => rec'[q] = rec[q]
    BY <1>t, <2>1, <2>4 DEF Recorded, RecordType
  <2>6. EndLife'
    BY <2>2, <2>5 DEF LifeInv, EndLife, EndLifeAt
  <2> QED
    BY <2>3, <2>6
<1>2. ASSUME NEW a \in Actions, ActStep(a), ~Ensure(a) PROVE Life' /\ EndLife'
  BY <1>2 DEF ActStep, Enter, Refused, Fail, BeginCommit, Write, EndCommit, record, ends,
              LifeInv, Life, LifeAt, EndLife, EndLifeAt
<1>3. ASSUME NEW r \in RunIds, Wake(r) PROVE Life' /\ EndLife'
  <2>1. UNCHANGED <<rec, disk, dump, create>>
    BY <1>3 DEF Wake
  <2>2. Life'
    BY <2>1 DEF LifeInv, Life, LifeAt
  <2>3. \/ Begins(r, r)
        \/ end' = [end EXCEPT ![r] = "left"] /\ about' = about
    BY <1>3 DEF Wake
  <2>4. EndLife'
    BY <1>t, <2>1, <2>3 DEF Begins, LifeInv, EndLife, EndLifeAt, EndType
  <2> QED
    BY <2>2, <2>4
<1>4. CASE Quiet \/ UNCHANGED vars
  BY <1>4 DEF Quiet, vars, record, ends, LifeInv, Life, LifeAt, EndLife, EndLifeAt
<1>5. CASE Crash
  <2>1. \A r \in RunIds : create'[r] = "new" => rec'[r] = "none" /\ disk'[r] = "none"
    BY <1>5, <1>t DEF Crash, Recovered, LifeInv, Life, LifeAt, RecordType
  <2>2. \A r \in RunIds : create'[r] \in {"new", "failed"}
    BY <1>5 DEF Crash
  <2>3. Life'
    BY <2>1, <2>2 DEF Life, LifeAt
  <2>4. EndLife'
    BY <1>5 DEF Crash, EndLife, EndLifeAt
  <2> QED
    BY <2>3, <2>4
<1> QED
  BY <1>1, <1>2, <1>3, <1>4, <1>5

LEMMA LifeStep == LifeInv /\ [Next]_vars => LifeInv'
BY TypeStep, Steps, CreateStepLife, EndStepLife, OtherStepLife DEF LifeInv

LEMMA LifeInvariant == Spec => []LifeInv
BY RunsInit, LifeStep, PTL DEF Spec

\* Every reachable state of the runs has its type.
THEOREM RunsTypeCorrect == Spec => []TypeOK
BY LifeInvariant, PTL DEF LifeInv

-----------------------------------------------------------------------------
(* The table of runs and its files implement RunRecord.                    *)

LEMMA TableStutter == ASSUME UNCHANGED <<rec, disk>> PROVE [Table!Next]_<<rec, disk>>
OBVIOUS

\* A save that only touches the file of a run, with a status the run has had.
LEMMA TableKeep ==
  ASSUME NEW r \in RunIds, rec' = rec,
         NEW k \in Table!Reached(rec[r]) \union {"torn"}, disk' = [disk EXCEPT ![r] = k]
  PROVE  [Table!Next]_<<rec, disk>>
BY DEF Table!Next, Table!Keep

LEMMA TableAdvance ==
  ASSUME NEW r \in RunIds, disk' = disk, Table!Create(r) \/ Table!Start(r) \/ Table!Finish(r)
  PROVE  [Table!Next]_<<rec, disk>>
BY DEF Table!Next, Table!Advance

LEMMA CreateStepTable ==
  ASSUME LifeInv, NEW r \in RunIds, CreateStep(r)
  PROVE  [Table!Next]_<<rec, disk>>
<1>t. RecordType
  BY TypeParts DEF LifeInv
<1>l. LifeAt(r)
  BY DEF LifeInv, Life
<1>1. CASE Record(r)
  BY <1>1, <1>l, TableAdvance DEF Record, Recorded, LifeAt, Table!Create
<1>2. CASE RecordOpens(r)
  BY <1>2, TableKeep DEF RecordOpens
<1>3. CASE RecordWrites(r)
  <2>1. rec[r] = "created" /\ rec' = rec /\ disk' = [disk EXCEPT ![r] = "created"]
    BY <1>3, <1>l DEF RecordWrites, LifeAt
  <2>2. "created" \in Table!Reached(rec[r])
    BY <2>1 DEF Table!Reached
  <2> QED
    BY <2>1, <2>2, TableKeep
<1>4. CASE Start(r)
  BY <1>4, <1>l, TableAdvance DEF Start, LifeAt, Table!Start
<1>5. CASE StartOpens(r)
  BY <1>5, TableKeep DEF StartOpens
<1>6. CASE StartWrites(r)
  <2>1. /\ rec' = rec
        /\ dump[r] \in {"running", rec[r]}
        /\ rec[r] \in {"running", "completed"}
    BY <1>6, <1>l DEF StartWrites, LifeAt
  <2>2. PICK d \in {dump[r]} \union {"torn"} : disk' = [disk EXCEPT ![r] = d]
    BY <1>6 DEF StartWrites
  <2>3. d \in Table!Reached(rec[r]) \union {"torn"}
    BY <2>1, <2>2 DEF Table!Reached
  <2> QED
    BY <2>1, <2>2, <2>3, TableKeep
<1>7. CASE CreateWorld(r) \/ Close(r) \/ Reconfigure(r) \/ MakeCurrent(r) \/ Finish(r) \/ CreateFails(r)
  BY <1>7, TableStutter DEF CreateWorld, Close, Reconfigure, MakeCurrent, Finish, CreateFails, record
<1> QED
  BY <1>1, <1>2, <1>3, <1>4, <1>5, <1>6, <1>7 DEF CreateStep

LEMMA EndStepTable ==
  ASSUME LifeInv, NEW t \in Ends, EndStep(t)
  PROVE  [Table!Next]_<<rec, disk>>
<1>t. RecordType
  BY TypeParts DEF LifeInv
<1>l. EndLifeAt(t)
  BY DEF LifeInv, EndLife
<1>1. CASE EndRun(t) \/ EndFails(t)
  BY <1>1, TableStutter DEF EndRun, EndFails, record
<1>2. CASE Complete(t)
  <2>1. /\ about[t] \in RunIds /\ rec[about[t]] \in {"running", "completed"}
        /\ rec' = [rec EXCEPT ![about[t]] = "completed"] /\ disk' = disk
    BY <1>2, <1>l DEF Complete, EndLifeAt
  <2>2. CASE rec[about[t]] = "running"
    BY <2>1, <2>2, TableAdvance DEF Table!Finish
  <2>3. CASE rec[about[t]] = "completed"
    <3>1. rec' = rec
      BY <1>t, <2>1, <2>3 DEF RecordType
    <3> QED
      BY <2>1, <3>1, TableStutter
  <2> QED
    BY <2>1, <2>2, <2>3
<1>3. CASE CompleteOpens(t)
  BY <1>3, <1>l, TableKeep DEF CompleteOpens, EndLifeAt
<1>4. CASE Leave(t)
  <2>1. about[t] \in RunIds /\ rec[about[t]] = "completed" /\ rec' = rec
    BY <1>4, <1>l DEF Leave, EndLifeAt
  <2>2. PICK d \in {"completed", "torn"} : disk' = [disk EXCEPT ![about[t]] = d]
    BY <1>4 DEF Leave
  <2>3. d \in Table!Reached(rec[about[t]]) \union {"torn"}
    BY <2>1, <2>2 DEF Table!Reached
  <2> QED
    BY <2>1, <2>2, <2>3, TableKeep
<1> QED
  BY <1>1, <1>2, <1>3, <1>4 DEF EndStep

LEMMA OtherStepTable ==
  ASSUME LifeInv, \/ \E a \in Actions : ActStep(a)
                  \/ \E r \in RunIds : Wake(r)
                  \/ Quiet \/ Crash \/ UNCHANGED vars
  PROVE  [Table!Next]_<<rec, disk>>
<1>1. ASSUME NEW a \in Actions, Ensure(a) PROVE [Table!Next]_<<rec, disk>>
  <2>1. PICK r \in RunIds \ Fresh : create[r] = "new" /\ Recorded(r)
    BY <1>1 DEF Ensure
  <2>2. disk' = disk
    BY <1>1 DEF Ensure
  <2>3. rec[r] = "none"
    BY <2>1 DEF LifeInv, Life, LifeAt
  <2> QED
    BY <2>1, <2>2, <2>3, TableAdvance DEF Recorded, Table!Create
<1>2. ASSUME NEW a \in Actions, ActStep(a), ~Ensure(a) PROVE [Table!Next]_<<rec, disk>>
  BY <1>2, TableStutter DEF ActStep, Enter, Refused, Fail, BeginCommit, Write, EndCommit, record
<1>3. CASE (\E r \in RunIds : Wake(r)) \/ Quiet \/ UNCHANGED vars
  BY <1>3, TableStutter DEF Wake, Quiet, vars, record
<1>4. CASE Crash
  BY <1>4 DEF Crash, Recovered, Table!Next, Table!Restart, Table!Recovered
<1> QED
  BY <1>1, <1>2, <1>3, <1>4

\* The status of every run goes only forward within one life of the process, its
\* file never says more than the status, and a restart shows what the file says:
\* the states of runs that RunManager and a restart show are those of RunRecord.
THEOREM RunsImplementRunRecord == Spec => ImplementsRunRecord
<1>1. Init => Table!Init
  BY DEF Init, Table!Init
<1>2. LifeInv /\ [Next]_vars => [Table!Next]_<<rec, disk>>
  BY Steps, CreateStepTable, EndStepTable, OtherStepTable
<1> QED
  BY <1>1, <1>2, LifeInvariant, PTL DEF Spec, ImplementsRunRecord, Table!Spec

-----------------------------------------------------------------------------
(* The current run is open.                                                *)

\* A run has no watcher before its call of create_run is over.
Watch == \A r \in RunIds : create[r] \notin {"done", "failed"} => end[r] = "none"

\* The ends of a run that have completed it and not saved it.
Saving(r) == {t \in Ends : about[t] = r /\ end[t] \in {"save", "write"}}
OpenAt(r) ==
  cur = r => /\ rec[r] \in {"created", "running", "completed"}
             /\ rec[r] = "completed" /\ r \notin unsaved => Saving(r) # {}
Open == \A r \in RunIds : OpenAt(r)
OpenInv == LifeInv /\ Watch /\ Open

LEMMA OpenFrame ==
  ASSUME Open, UNCHANGED <<cur, rec, unsaved>>, \A r \in RunIds : Saving(r) \subseteq Saving(r)'
  PROVE  Open'
BY DEF Open, OpenAt

LEMMA CreateStepOpen ==
  ASSUME OpenInv, NEW r \in RunIds, CreateStep(r)
  PROVE  Watch' /\ Open'
<1>t. RecordType /\ CreateType /\ EndType
  BY TypeParts DEF OpenInv, LifeInv
<1>l. LifeAt(r)
  BY DEF OpenInv, LifeInv, Life
<1>1. /\ \A q \in RunIds \ {r} : create'[q] = create[q]
      /\ create[r] \notin {"done", "failed"}
      /\ UNCHANGED <<about, unsaved>>
  BY <1>t DEF CreateStep, CreateWorld, Record, Recorded, RecordOpens, RecordWrites, Close,
              Reconfigure, MakeCurrent, Start, StartOpens, StartWrites, Finish, CreateFails, ends,
              CreateType
<1>2. /\ \A u \in Ends \ {r} : end'[u] = end[u]
      /\ end'[r] = end[r] \/ create'[r] = "done"
  <2>1. CASE Finish(r)
    BY <1>t, <2>1 DEF Finish, CreateType, EndType, Ends
  <2>2. CASE ~Finish(r)
    BY <2>2 DEF CreateStep, CreateWorld, Record, RecordOpens, RecordWrites, Close, Reconfigure,
                MakeCurrent, Start, StartOpens, StartWrites, CreateFails, ends
  <2> QED
    BY <2>1, <2>2
<1>3. Watch'
  BY <1>1, <1>2 DEF OpenInv, Watch, Ends
<1>4. end[r] = "none"
  BY <1>1 DEF OpenInv, Watch
<1>5. \A q \in RunIds : Saving(q) \subseteq Saving(q)'
  BY <1>t, <1>1, <1>2, <1>4 DEF Saving, EndType
<1>6. CASE MakeCurrent(r)
  BY <1>3, <1>l, <1>6, RunsAssumption DEF MakeCurrent, record, LifeAt, Open, OpenAt
<1>7. CASE Record(r) \/ Start(r)
  <2>1. cur' = cur /\ \A q \in RunIds \ {r} : rec'[q] = rec[q]
    BY <1>t, <1>7 DEF Record, Recorded, Start, RecordType
  <2>2. rec'[r] \in {"created", "running"}
    BY <1>t, <1>7 DEF Record, Recorded, Start, RecordType
  <2> QED
    BY <1>1, <1>3, <1>5, <2>1, <2>2 DEF OpenInv, Open, OpenAt
<1>8. CASE ~MakeCurrent(r) /\ ~Record(r) /\ ~Start(r)
  <2>1. UNCHANGED <<cur, rec>>
    BY <1>8 DEF CreateStep, CreateWorld, RecordOpens, RecordWrites, Close, Reconfigure, StartOpens,
                StartWrites, Finish, CreateFails, app, record
  <2> QED
    BY <1>1, <1>3, <1>5, <2>1, OpenFrame DEF OpenInv
<1> QED
  BY <1>6, <1>7, <1>8

LEMMA BeginsOpen ==
  ASSUME OpenInv, NEW t \in Ends, NEW r \in RunIds, end[t] \in {"idle", "asleep"},
         Begins(t, r), UNCHANGED <<rec, cur, create, unsaved>>
  PROVE  Watch' /\ Open'
<1>t. EndType
  BY TypeParts DEF OpenInv, LifeInv
<1>1. \A u \in Ends \ {t} : end'[u] = end[u] /\ about'[u] = about[u]
  BY <1>t DEF Begins, EndType
<1>2. Watch'
  BY <1>1 DEF OpenInv, Watch, Ends
<1>3. \A q \in RunIds : Saving(q) \subseteq Saving(q)'
  BY <1>1 DEF Saving
<1> QED
  BY <1>2, <1>3, OpenFrame DEF OpenInv

LEMMA EndStepOpen ==
  ASSUME OpenInv, NEW t \in Ends, EndStep(t)
  PROVE  Watch' /\ Open'
<1>t. RecordType /\ EndType
  BY TypeParts DEF OpenInv, LifeInv
<1>l. EndLifeAt(t)
  BY DEF OpenInv, LifeInv, EndLife
<1>1. CASE EndRun(t)
  BY <1>1, BeginsOpen DEF EndRun, app, ends
<1>2. CASE ~EndRun(t)
  <2>1. /\ UNCHANGED <<create, about>>
        /\ end[t] \in {"report", "save", "write"}
        /\ \A u \in Ends \ {t} : end'[u] = end[u]
    BY <1>2, <1>t DEF EndStep, Complete, CompleteOpens, Leave, EndFails, EndType
  <2>2. Watch'
    BY <2>1 DEF OpenInv, Watch, Ends
  <2>3. \A q \in RunIds : q # about[t] => Saving(q) \subseteq Saving(q)'
    BY <2>1 DEF Saving
  <2>4. CASE Complete(t)
    <3>1. t \in Saving(about[t])'
      BY <1>t, <2>4 DEF Complete, Saving, EndType
    <3>2. \A q \in RunIds : q # about[t] => rec'[q] = rec[q]
      BY <1>t, <2>4 DEF Complete, RecordType
    <3>3. rec'[about[t]] = "completed" /\ UNCHANGED <<cur, unsaved>>
      BY <1>t, <1>l, <2>4 DEF Complete, RecordType, EndLifeAt, app
    <3>4. Open'
      BY <2>1, <2>3, <3>1, <3>2, <3>3 DEF OpenInv, Open, OpenAt
    <3> QED
      BY <2>2, <3>4
  <2>5. CASE CompleteOpens(t)
    <3>1. \A q \in RunIds : Saving(q) \subseteq Saving(q)'
      BY <1>t, <2>5 DEF CompleteOpens, Saving, EndType
    <3> QED
      BY <2>2, <2>5, <3>1, OpenFrame DEF CompleteOpens, OpenInv, app
  <2>6. CASE Leave(t)
    <3>1. /\ cur' = IF cur = about[t] THEN None ELSE cur
          /\ UNCHANGED <<rec, unsaved>>
      BY <2>6 DEF Leave
    <3> QED
      BY <2>2, <2>3, <3>1, RunsAssumption DEF OpenInv, Open, OpenAt
  <2>7. CASE EndFails(t)
    <3>1. UNCHANGED <<cur, rec>> /\ unsaved \subseteq unsaved'
      BY <2>7 DEF EndFails, app, record
    <3>2. end[t] = "report" => \A q \in RunIds : Saving(q) \subseteq Saving(q)'
      BY <2>1 DEF Saving
    <3>3. end[t] # "report" => about[t] \in unsaved'
      BY <2>7 DEF EndFails
    <3> QED
      BY <2>2, <2>3, <3>1, <3>2, <3>3 DEF OpenInv, Open, OpenAt
  <2> QED
    BY <1>2, <2>4, <2>5, <2>6, <2>7 DEF EndStep
<1> QED
  BY <1>1, <1>2

LEMMA OtherStepOpen ==
  ASSUME OpenInv, \/ \E a \in Actions : ActStep(a)
                  \/ \E r \in RunIds : Wake(r)
                  \/ Quiet \/ Crash \/ UNCHANGED vars
  PROVE  Watch' /\ Open'
<1>t. RecordType /\ CreateType /\ EndType
  BY TypeParts DEF OpenInv, LifeInv
<1>1. ASSUME NEW a \in Actions, Ensure(a) PROVE Watch' /\ Open'
  <2>1. PICK r \in RunIds \ Fresh : create[r] = "new" /\ Recorded(r)
    BY <1>1 DEF Ensure
  <2>2. UNCHANGED <<cur, end, about, unsaved>>
    BY <1>1 DEF Ensure, ends, app
  <2>3. Watch'
    BY <1>t, <2>1, <2>2 DEF Recorded, OpenInv, Watch, CreateType
  <2>4. \A q \in RunIds : Saving(q)' = Saving(q)
    BY <2>2 DEF Saving
  <2>5. rec'[r] = "created" /\ \A q \in RunIds \ {r} : rec'[q] = rec[q]
    BY <1>t, <2>1 DEF Recorded, RecordType
  <2>6. Open'
    BY <2>2, <2>4, <2>5 DEF OpenInv, Open, OpenAt
  <2> QED
    BY <2>3, <2>6
<1>2. ASSUME UNCHANGED <<rec, cur, create, end, about, unsaved>> PROVE Watch' /\ Open'
  BY <1>2 DEF OpenInv, Watch, Open, OpenAt, Saving
<1>3. ASSUME NEW a \in Actions, ActStep(a), ~Ensure(a) PROVE Watch' /\ Open'
  BY <1>2, <1>3 DEF ActStep, Enter, Refused, Fail, BeginCommit, Write, EndCommit, record, app, ends
<1>4. ASSUME NEW r \in RunIds, Wake(r) PROVE Watch' /\ Open'
  <2>1. r \in Ends /\ end[r] = "asleep" /\ UNCHANGED <<rec, cur, create, unsaved>>
    BY <1>4 DEF Wake, Ends, app
  <2>2. CASE Begins(r, r)
    BY <2>1, <2>2, BeginsOpen
  <2>3. CASE end' = [end EXCEPT ![r] = "left"] /\ about' = about
    <3>1. Watch'
      BY <1>t, <2>1, <2>3 DEF OpenInv, Watch, EndType
    <3>2. \A q \in RunIds : Saving(q) \subseteq Saving(q)'
      BY <1>t, <2>1, <2>3 DEF Saving, EndType
    <3> QED
      BY <2>1, <3>1, <3>2, OpenFrame DEF OpenInv
  <2> QED
    BY <1>4, <2>2, <2>3 DEF Wake
<1>5. CASE Quiet \/ UNCHANGED vars
  BY <1>2, <1>5 DEF Quiet, vars, record, app, ends
<1>6. CASE Crash
  <2>1. Watch'
    BY <1>6, <1>t DEF Crash, OpenInv, Watch, Ends
  <2>2. cur' = None
    BY <1>6 DEF Crash
  <2>3. Open'
    BY <2>2, RunsAssumption DEF Open, OpenAt
  <2> QED
    BY <2>1, <2>3
<1> QED
  BY <1>1, <1>3, <1>4, <1>5, <1>6

LEMMA OpenInvariant == Spec => []OpenInv
<1>1. Init => OpenInv
  <2> SUFFICES ASSUME Init PROVE OpenInv
    OBVIOUS
  <2>1. Watch /\ Open
    BY RunsAssumption DEF Init, Watch, Open, OpenAt, Ends
  <2> QED
    BY <2>1, RunsInit DEF OpenInv
<1>2. OpenInv /\ [Next]_vars => OpenInv'
  BY LifeStep, Steps, CreateStepOpen, EndStepOpen, OtherStepOpen DEF OpenInv
<1> QED
  BY <1>1, <1>2, PTL DEF Spec

\* A run that end_run() has completed and saved is not the current one: whoever
\* ended it, and whatever runs were created meanwhile.
THEOREM RunsCurrentIsOpen == Spec => []CurrentIsOpen
<1>1. OpenInv => CurrentIsOpen
  BY DEF OpenInv, Open, OpenAt, CurrentIsOpen, Saving, Ending
<1> QED
  BY <1>1, OpenInvariant, PTL

-----------------------------------------------------------------------------
(* A saved end lasts.                                                      *)

Over == {"config", "done", "failed"}
DurableAt(r) ==
  /\ r \in saved => /\ rec[r] = "completed" /\ disk[r] = "completed"
                    /\ create[r] \in Over
                    /\ Ending(r) = {}
  /\ \A t, u \in Ending(r) : t = u
  /\ \A t \in Ending(r) : end[t] \in {"save", "write"} => create[r] \in Over
Durable == \A r \in RunIds \ raced : DurableAt(r)
DurableInv == LifeInv /\ Durable

\* Nothing about a run changes but that ends of it may stop.
LEMMA DurableFrame ==
  ASSUME NEW r \in RunIds, DurableAt(r), saved' = saved, rec'[r] = rec[r], disk'[r] = disk[r],
         create'[r] \in Over \/ create'[r] = create[r],
         \A t \in Ending(r)' : t \in Ending(r) /\ end'[t] = end[t]
  PROVE  DurableAt(r)'
BY DEF DurableAt

LEMMA CreateStepDurable ==
  ASSUME DurableInv, NEW r \in RunIds, CreateStep(r)
  PROVE  Durable'
<1>t. RecordType /\ CreateType /\ EndType
  BY TypeParts DEF DurableInv, LifeInv
<1>l. LifeAt(r)
  BY DEF DurableInv, LifeInv, Life
<1>1. /\ \A q \in RunIds \ {r} : create'[q] = create[q] /\ rec'[q] = rec[q] /\ disk'[q] = disk[q]
      /\ UNCHANGED <<about, saved, raced>>
  BY <1>t DEF CreateStep, CreateWorld, Record, Recorded, RecordOpens, RecordWrites, Close,
              Reconfigure, MakeCurrent, Start, StartOpens, StartWrites, Finish, CreateFails,
              ends, record, RecordType, CreateType
<1>2. \A t \in Ends : end'[t] \in {"report", "save", "write"} => end'[t] = end[t]
  <2>1. CASE Finish(r)
    BY <1>t, <2>1 DEF Finish, EndType
  <2>2. CASE ~Finish(r)
    BY <2>2 DEF CreateStep, CreateWorld, Record, RecordOpens, RecordWrites, Close,
              Reconfigure, MakeCurrent, Start, StartOpens, StartWrites, CreateFails, ends
  <2> QED
    BY <2>1, <2>2
<1>3. \A q \in RunIds : \A t \in Ending(q)' : t \in Ending(q) /\ end'[t] = end[t]
  BY <1>1, <1>2 DEF Ending
<1>4. ASSUME NEW q \in RunIds \ raced', q # r PROVE DurableAt(q)'
  <2>1. DurableAt(q)
    BY <1>1, <1>4 DEF DurableInv, Durable
  <2> QED
    BY <1>1, <1>3, <1>4, <2>1, DurableFrame
<1>5. ASSUME r \notin raced' PROVE DurableAt(r)'
  <2>1. DurableAt(r)
    BY <1>1, <1>5 DEF DurableInv, Durable
  <2>2. CASE Finish(r) \/ CreateFails(r)
    <3>1. rec' = rec /\ disk' = disk /\ create'[r] \in Over
      BY <1>t, <2>2 DEF Finish, CreateFails, record, CreateType, Over
    <3> QED
      BY <1>1, <1>3, <2>1, <3>1, DurableFrame
  <2>3. CASE ~Finish(r) /\ ~CreateFails(r)
    <3>1. create[r] \notin Over
      BY <2>3 DEF CreateStep, CreateWorld, Record, RecordOpens, RecordWrites, Close,
              Reconfigure, MakeCurrent, Start, StartOpens, StartWrites, Over
    <3>2. r \notin saved'
      BY <1>1, <2>1, <3>1 DEF DurableAt
    <3>3. \A t \in Ending(r) : end[t] \notin {"save", "write"}
      BY <2>1, <3>1 DEF DurableAt
    <3>4. \A t \in Ending(r)' : end'[t] \notin {"save", "write"}
      BY <1>3, <3>3
    <3>5. \A t, u \in Ending(r)' : t = u
      BY <1>3, <2>1 DEF DurableAt
    <3> QED
      BY <3>2, <3>4, <3>5 DEF DurableAt
  <2> QED
    BY <2>2, <2>3
<1> QED
  BY <1>4, <1>5 DEF Durable

LEMMA BeginsDurable ==
  ASSUME DurableInv, NEW t \in Ends, NEW r \in RunIds, end[t] \in {"idle", "asleep"},
         Begins(t, r), UNCHANGED <<rec, disk, create, saved>>
  PROVE  Durable'
<1>t. EndType
  BY TypeParts DEF DurableInv, LifeInv
<1>1. /\ \A u \in Ends \ {t} : end'[u] = end[u] /\ about'[u] = about[u]
      /\ end'[t] = "report" /\ about'[t] = r
      /\ \A q \in RunIds : t \notin Ending(q)
      /\ rec[r] = "running"
  BY <1>t DEF Begins, EndType, Ending
<1>2. ASSUME NEW q \in RunIds \ raced', q # r PROVE DurableAt(q)'
  <2>1. DurableAt(q)
    BY <1>2 DEF DurableInv, Durable, Begins
  <2>2. \A u \in Ending(q)' : u \in Ending(q) /\ end'[u] = end[u]
    BY <1>1, <1>2 DEF Ending
  <2> QED
    BY <2>1, <2>2, DurableFrame
<1>3. ASSUME r \notin raced' PROVE DurableAt(r)'
  <2>1. Ending(r) = {} /\ r \notin raced
    BY <1>3 DEF Begins
  <2>2. Ending(r)' \subseteq {t}
    BY <1>1, <2>1 DEF Ending
  <2>3. r \notin saved
    BY <1>1, <2>1 DEF DurableInv, Durable, DurableAt
  <2> QED
    BY <1>1, <2>2, <2>3 DEF DurableAt
<1> QED
  BY <1>2, <1>3 DEF Durable

LEMMA EndStepDurable ==
  ASSUME DurableInv, NEW t \in Ends, EndStep(t)
  PROVE  Durable'
<1>t. RecordType /\ CreateType /\ EndType
  BY TypeParts DEF DurableInv, LifeInv
<1>l. EndLifeAt(t)
  BY DEF DurableInv, LifeInv, EndLife
<1>1. CASE EndRun(t)
  BY <1>1, BeginsDurable DEF EndRun
<1>2. CASE ~EndRun(t)
  <2>0. PICK r \in RunIds : about[t] = r
    BY <1>2, <1>l DEF EndStep, Complete, CompleteOpens, Leave, EndFails, EndLifeAt
  <2>1. /\ UNCHANGED <<create, about>>
        /\ r \in RunIds /\ about[t] = r /\ t \in Ending(r)
        /\ \A u \in Ends \ {t} : end'[u] = end[u]
        /\ raced \subseteq raced'
    BY <1>2, <1>l, <1>t, <2>0 DEF EndStep, Complete, CompleteOpens, Leave, EndFails, EndType, EndLifeAt,
                            Ending, record
  <2>2. \A q \in RunIds \ {r} : rec'[q] = rec[q] /\ disk'[q] = disk[q]
    BY <1>2, <1>t, <2>1 DEF EndStep, Complete, CompleteOpens, Leave, EndFails, record, RecordType
  <2>3. saved' \ {r} = saved \ {r}
    BY <1>2, <2>0 DEF EndStep, Complete, CompleteOpens, Leave, EndFails
  <2>4. ASSUME NEW q \in RunIds \ raced', q # r PROVE DurableAt(q)'
    <3>1. DurableAt(q)
      BY <2>1, <2>4 DEF DurableInv, Durable
    <3>2. \A u \in Ending(q)' : u \in Ending(q) /\ end'[u] = end[u]
      BY <2>1, <2>4 DEF Ending
    <3>3. q \in saved' <=> q \in saved
      BY <2>3, <2>4
    <3> QED
      BY <2>1, <2>2, <2>4, <3>1, <3>2, <3>3 DEF DurableAt
  <2>5. ASSUME r \notin raced' PROVE DurableAt(r)'
    <3>1. DurableAt(r) /\ r \notin raced
      BY <2>1, <2>5 DEF DurableInv, Durable
    <3>2. r \notin saved /\ \A u \in Ending(r) : u = t
      BY <2>1, <3>1 DEF DurableAt
    <3>3. \A u \in Ending(r)' : u = t
      BY <2>1, <3>2 DEF Ending
    <3>4. CASE Complete(t)
      <4>1. create[r] \notin {"start", "starting"}
        BY <2>0, <2>5, <3>4 DEF Complete
      <4>2. create[r] \in Over
        BY <1>t, <1>l, <2>1, <3>4, <4>1
           DEF Complete, EndLifeAt, CreateType, Over, DurableInv, LifeInv, Life, LifeAt
      <4>3. saved' = saved
        BY <3>4 DEF Complete
      <4> QED
        BY <2>1, <3>2, <3>3, <4>2, <4>3 DEF DurableAt
    <3>5. CASE CompleteOpens(t)
      <4>1. create[r] \in Over /\ saved' = saved
        BY <2>1, <3>1, <3>5 DEF CompleteOpens, DurableAt
      <4> QED
        BY <2>1, <3>2, <3>3, <4>1 DEF DurableAt
    <3>6. CASE Leave(t)
      <4>1. create[r] \in Over
        BY <2>1, <3>1, <3>6 DEF Leave, DurableAt
      <4>2. rec'[r] = "completed"
        BY <1>l, <2>0, <3>6 DEF Leave, EndLifeAt
      <4>3. disk'[r] = "completed"
        BY <1>t, <2>1, <3>1, <3>6 DEF Leave, RecordType
      <4>4. end'[t] = "ended"
        BY <1>t, <3>6 DEF Leave, EndType
      <4>5. Ending(r)' = {}
        BY <3>3, <4>4 DEF Ending
      <4> QED
        BY <2>1, <4>1, <4>2, <4>3, <4>5 DEF DurableAt
    <3>7. CASE EndFails(t)
      <4>1. end'[t] = "failed" /\ saved' = saved
        BY <1>t, <3>7 DEF EndFails, EndType
      <4>2. Ending(r)' = {}
        BY <3>3, <4>1 DEF Ending
      <4> QED
        BY <2>1, <3>2, <4>1, <4>2 DEF DurableAt
    <3> QED
      BY <1>2, <3>4, <3>5, <3>6, <3>7 DEF EndStep
  <2> QED
    BY <2>4, <2>5 DEF Durable
<1> QED
  BY <1>1, <1>2

LEMMA OtherStepDurable ==
  ASSUME DurableInv, \/ \E a \in Actions : ActStep(a)
                     \/ \E r \in RunIds : Wake(r)
                     \/ Quiet \/ Crash \/ UNCHANGED vars
  PROVE  Durable'
<1>t. RecordType /\ CreateType /\ EndType
  BY TypeParts DEF DurableInv, LifeInv
<1>1. ASSUME NEW a \in Actions, Ensure(a) PROVE Durable'
  <2>1. PICK r \in RunIds \ Fresh : create[r] = "new" /\ Recorded(r)
    BY <1>1 DEF Ensure
  <2>2. UNCHANGED <<disk, end, about, saved, raced>>
    BY <1>1 DEF Ensure, ends
  <2>3. \A q \in RunIds : Ending(q)' = Ending(q)
    BY <2>2 DEF Ending
  <2>4. \A q \in RunIds \ {r} : rec'[q] = rec[q] /\ create'[q] = create[q]
    BY <1>t, <2>1 DEF Recorded, RecordType, CreateType
  <2>5. ASSUME NEW q \in RunIds \ raced', q # r PROVE DurableAt(q)'
    <3>1. DurableAt(q)
      BY <2>2, <2>5 DEF DurableInv, Durable
    <3> QED
      BY <2>2, <2>3, <2>4, <2>5, <3>1 DEF DurableAt
  <2>6. ASSUME r \notin raced' PROVE DurableAt(r)'
    <3>1. DurableAt(r) /\ create[r] \notin Over
      BY <2>1, <2>2, <2>6 DEF DurableInv, Durable, Over
    <3> QED
      BY <2>2, <2>3, <3>1 DEF DurableAt
  <2> QED
    BY <2>5, <2>6 DEF Durable
<1>2. ASSUME UNCHANGED <<rec, disk, create, end, about, saved, raced>> PROVE Durable'
  BY <1>2 DEF DurableInv, Durable, DurableAt, Ending
<1>3. ASSUME NEW a \in Actions, ActStep(a), ~Ensure(a) PROVE Durable'
  BY <1>2, <1>3 DEF ActStep, Enter, Refused, Fail, BeginCommit, Write, EndCommit, record, ends
<1>4. ASSUME NEW r \in RunIds, Wake(r) PROVE Durable'
  <2>1. r \in Ends /\ end[r] = "asleep" /\ UNCHANGED <<rec, disk, create, saved>>
    BY <1>4 DEF Wake, Ends
  <2>2. CASE Begins(r, r)
    BY <2>1, <2>2, BeginsDurable
  <2>3. CASE end' = [end EXCEPT ![r] = "left"] /\ UNCHANGED <<about, raced>>
    <3>1. \A q \in RunIds : \A t \in Ending(q)' : t \in Ending(q) /\ end'[t] = end[t]
      BY <1>t, <2>1, <2>3 DEF Ending, EndType
    <3> QED
      BY <2>1, <2>3, <3>1, DurableFrame DEF DurableInv, Durable
  <2> QED
    BY <1>4, <2>2, <2>3 DEF Wake
<1>5. CASE Quiet \/ UNCHANGED vars
  BY <1>2, <1>5 DEF Quiet, vars, record, ends
<1>6. CASE Crash
  <2>1. \A r \in RunIds : Ending(r)' = {}
    BY <1>6, RunsAssumption DEF Crash, Ending
  <2>2. \A r \in RunIds : disk[r] = "completed" => rec'[r] = "completed" /\ disk'[r] = "completed"
    BY <1>6 DEF Crash, Recovered
  <2>3. \A r \in RunIds : create[r] \in Over => create'[r] \in Over
    BY <1>6 DEF Crash, Over
  <2>4. UNCHANGED <<saved, raced>>
    BY <1>6 DEF Crash
  <2> QED
    BY <2>1, <2>2, <2>3, <2>4 DEF DurableInv, Durable, DurableAt
<1> QED
  BY <1>1, <1>3, <1>4, <1>5, <1>6

LEMMA DurableInvariant == Spec => []DurableInv
<1>1. Init => DurableInv
  <2> SUFFICES ASSUME Init PROVE DurableInv
    OBVIOUS
  <2>1. Durable
    BY DEF Init, Durable, DurableAt, Ending
  <2> QED
    BY <2>1, RunsInit DEF DurableInv
<1>2. DurableInv /\ [Next]_vars => DurableInv'
  BY LifeStep, Steps, CreateStepDurable, EndStepDurable, OtherStepDurable DEF DurableInv
<1> QED
  BY <1>1, <1>2, PTL DEF Spec

\* What complete_run() has saved of an end, every restart finds: no crash, no other
\* run and no later action takes a saved run back from completed.
THEOREM RunsEndIsDurable == Spec => []EndIsDurable
<1>1. DurableInv => EndIsDurable
  BY DEF DurableInv, LifeInv, TypeOK, Durable, DurableAt, EndIsDurable
<1> QED
  BY <1>1, DurableInvariant, PTL

-----------------------------------------------------------------------------
(* Which database is open, and where an action writes.                     *)

Switch ==
  /\ \A r \in RunIds : create[r] \in {"switch", "configure"} => r \in touching
  /\ upset \/ \A r, q \in touching : r = q
  /\ upset \/ \A r \in touching : create[r] = "configure" => db = r
  /\ Calm /\ cur # None => db = cur

\* An action that is in the pipeline, and has not met a call of create_run.
InPlace(a) ==
  /\ Calm
  /\ where[a] = None
  /\ runOf[a] # None => db = runOf[a]
  /\ act[a] \in {"txn", "written"} => txn[a] = db

PlaceAt(a) ==
  /\ act[a] \in {"pipeline", "txn", "written"} => InPlace(a)
  /\ act[a] \in {"new", "waits"} => where[a] = None
  /\ act[a] \in {"done", "failed"} /\ runOf[a] # None => where[a] \in {None, runOf[a]}
Place == \A a \in Actions \ astray : PlaceAt(a)

PlaceInv == TypeOK /\ Switch /\ Place

\* A call that has taken the database leaves no action in place.
LEMMA TouchPlace ==
  ASSUME Place, astray' = astray \union InPipeline, UNCHANGED actions
  PROVE  Place'
BY DEF Place, PlaceAt, InPipeline, actions

\* While a call has the database no action is in place.
LEMMA BusyPlace ==
  ASSUME Place, ~Calm, UNCHANGED <<actions, astray>>
  PROVE  Place'
BY DEF Place, PlaceAt, InPlace, actions

LEMMA QuietPlace ==
  ASSUME Place, UNCHANGED <<actions, astray, switch, db>>
  PROVE  Place'
BY DEF Place, PlaceAt, InPlace, Calm, actions, switch

LEMMA QuietSwitch ==
  ASSUME Switch, UNCHANGED <<switch, db>>, cur' \in {cur, None},
         \A r \in RunIds : create'[r] \in {"switch", "configure"} => create'[r] = create[r],
         touching \subseteq RunIds
  PROVE  Switch'
BY DEF Switch, Calm, switch

LEMMA CreateStepPlace ==
  ASSUME PlaceInv, NEW r \in RunIds, CreateStep(r)
  PROVE  Switch' /\ Place'
<1>t. CreateType /\ SwitchType
  BY TypeParts DEF PlaceInv
<1>1. \A q \in RunIds \ {r} : create'[q] = create[q]
  BY <1>t DEF CreateStep, CreateWorld, Record, Recorded, RecordOpens, RecordWrites, Close,
              Reconfigure, MakeCurrent, Start, StartOpens, StartWrites, Finish, CreateFails,
              CreateType
<1>2. CASE CreateWorld(r) \/ Close(r)
  <2>1. /\ touching' = touching \union {r}
        /\ upset' \/ touching \ {r} = {}
        /\ astray' = astray \union InPipeline
        /\ UNCHANGED actions
    BY <1>2 DEF CreateWorld, Close, Touch
  <2>2. create'[r] \in {"world", "switch"}
    BY <1>t, <1>2 DEF CreateWorld, Close, CreateType
  <2>3. Switch'
    BY <1>1, <1>t, <2>1, <2>2 DEF PlaceInv, Switch, SwitchType, Calm
  <2> QED
    BY <2>1, <2>3, TouchPlace DEF PlaceInv
<1>3. CASE Reconfigure(r)
  <2>1. r \in touching /\ UNCHANGED <<touching, upset, actions, astray>> /\ db' = r
    BY <1>3 DEF Reconfigure, switch, PlaceInv, Switch
  <2>2. Switch'
    BY <1>1, <1>t, <2>1 DEF PlaceInv, Switch, SwitchType, Calm
  <2> QED
    BY <2>1, <2>2, BusyPlace DEF PlaceInv, Calm
<1>4. CASE MakeCurrent(r)
  <2>1. /\ r \in touching /\ create[r] = "configure" /\ cur' = r
        /\ touching' = touching \ {r} /\ UNCHANGED <<upset, actions, astray, db>>
        /\ create'[r] = "game"
    BY <1>4, <1>t DEF MakeCurrent, PlaceInv, Switch, CreateType
  <2>2. Switch'
    BY <1>1, <1>t, <2>1 DEF PlaceInv, Switch, SwitchType, Calm
  <2> QED
    BY <2>1, <2>2, BusyPlace DEF PlaceInv, Calm
<1>5. CASE CreateFails(r)
  <2>1. /\ touching' = touching \ {r} /\ UNCHANGED <<cur, actions, astray, db>>
        /\ create'[r] = "failed"
        /\ upset' <=> upset \/ r \in touching
    BY <1>5, <1>t DEF CreateFails, CreateType, app
  <2>2. Switch'
    BY <1>1, <1>t, <2>1 DEF PlaceInv, Switch, SwitchType, Calm
  <2>3. CASE r \in touching
    BY <2>1, <2>2, <2>3, BusyPlace DEF PlaceInv, Calm
  <2>4. CASE r \notin touching
    <3>1. Calm' <=> Calm
      BY <2>1, <2>4 DEF Calm
    <3>2. Place'
      BY <2>1, <3>1 DEF PlaceInv, Place, PlaceAt, InPlace, actions
    <3> QED
      BY <2>2, <3>2
  <2> QED
    BY <2>3, <2>4
<1>6. CASE \/ Record(r) \/ RecordOpens(r) \/ RecordWrites(r) \/ Start(r) \/ StartOpens(r)
           \/ StartWrites(r) \/ Finish(r)
  <2>1. UNCHANGED <<switch, db, cur, actions, astray>>
    BY <1>6 DEF Record, RecordOpens, RecordWrites, Start, StartOpens, StartWrites, Finish, app
  <2>2. create'[r] \notin {"switch", "configure"}
    BY <1>6, <1>t DEF Record, Recorded, RecordOpens, RecordWrites, Start, StartOpens, StartWrites,
                      Finish, CreateType
  <2>3. Switch'
    BY <1>1, <1>t, <2>1, <2>2, QuietSwitch DEF PlaceInv, SwitchType
  <2> QED
    BY <2>1, <2>3, QuietPlace DEF PlaceInv
<1> QED
  BY <1>2, <1>3, <1>4, <1>5, <1>6 DEF CreateStep

LEMMA EndStepPlace ==
  ASSUME PlaceInv, \/ \E t \in Ends : EndStep(t)
                   \/ \E r \in RunIds : Wake(r)
                   \/ Quiet \/ UNCHANGED vars
  PROVE  Switch' /\ Place'
<1>1. UNCHANGED <<switch, db, create, actions, astray>>
  BY DEF EndStep, EndRun, Complete, CompleteOpens, Leave, EndFails, Wake, Quiet, vars
<1>2. cur' \in {cur, None}
  BY DEF EndStep, EndRun, Complete, CompleteOpens, Leave, EndFails, Wake, Quiet, vars, app
<1>3. touching \subseteq RunIds
  BY TypeParts DEF PlaceInv, SwitchType
<1> QED
  BY <1>1, <1>2, <1>3, QuietSwitch, QuietPlace DEF PlaceInv

LEMMA ActStepPlace ==
  ASSUME PlaceInv, NEW a \in Actions, ActStep(a)
  PROVE  Switch' /\ Place'
<1>t. CreateType /\ ActType /\ SwitchType
  BY TypeParts DEF PlaceInv
<1>1. Switch'
  <2>1. UNCHANGED <<switch, db, cur>>
    BY DEF ActStep, Ensure, Enter, Refused, Fail, BeginCommit, Write, EndCommit, app
  <2>2. \A r \in RunIds : create'[r] \in {"switch", "configure"} => create'[r] = create[r]
    BY <1>t DEF ActStep, Ensure, Recorded, Enter, Refused, Fail, BeginCommit, Write, EndCommit, CreateType
  <2> QED
    BY <1>t, <2>1, <2>2, QuietSwitch DEF PlaceInv, SwitchType
<1>2. UNCHANGED <<touching, upset, db>> /\ astray \subseteq astray'
  BY DEF ActStep, Ensure, Enter, Refused, Fail, BeginCommit, Write, EndCommit, switch
<1>3. ASSUME NEW b \in Actions \ astray', b # a PROVE PlaceAt(b)'
  <2>1. PlaceAt(b)
    BY <1>2, <1>3 DEF PlaceInv, Place
  <2>2. act'[b] = act[b] /\ where'[b] = where[b] /\ runOf'[b] = runOf[b] /\ txn'[b] = txn[b]
    <3>1. act'[b] = act[b] /\ runOf'[b] = runOf[b] /\ txn'[b] = txn[b]
      BY <1>t, <1>3 DEF ActStep, Ensure, Enter, Refused, Fail, BeginCommit, Write, EndCommit, ActType
    <3>2. where'[b] = where[b]
      BY <1>t, <1>3 DEF ActStep, Ensure, Enter, Refused, Fail, Kept, BeginCommit, Write, EndCommit,
                        ActType
    <3> QED
      BY <3>1, <3>2
  <2> QED
    BY <1>2, <2>1, <2>2 DEF PlaceAt, InPlace, Calm
<1>4. ASSUME a \notin astray' PROVE PlaceAt(a)'
  <2>1. PlaceAt(a)
    BY <1>2, <1>4 DEF PlaceInv, Place
  <2>2. CASE Ensure(a)
    BY <1>t, <2>1, <2>2 DEF Ensure, PlaceAt, ActType
  <2>3. CASE Enter(a)
    <3>1. Calm /\ where'[a] = None
      BY <1>4, <2>1, <2>3 DEF Enter, PlaceAt
    <3>2. act'[a] = "pipeline" /\ runOf'[a] = cur
      BY <1>t, <2>3 DEF Enter, ActType
    <3>3. Calm /\ cur # None => db = cur
      BY DEF PlaceInv, Switch
    <3>4. InPlace(a)'
      BY <1>2, <3>1, <3>2, <3>3 DEF InPlace, Calm
    <3> QED
      BY <3>2, <3>4 DEF PlaceAt
  <2>4. CASE Refused(a)
    <3>1. where[a] = None /\ where' = where
      BY <2>1, <2>4 DEF Refused, PlaceAt, InPlace
    <3>2. act'[a] = "failed"
      BY <1>t, <2>4 DEF Refused, ActType
    <3> QED
      BY <3>1, <3>2 DEF PlaceAt
  <2>5. CASE Fail(a)
    <3>1. InPlace(a) /\ txn[a] = db
      BY <2>1, <2>5 DEF Fail, PlaceAt, InPlace
    <3>2. where'[a] \in {None, db}
      BY <1>t, <2>5, <3>1 DEF Fail, Kept, InPlace, ActType
    <3>3. act'[a] = "failed" /\ runOf' = runOf
      BY <1>t, <2>5 DEF Fail, ActType
    <3> QED
      BY <3>1, <3>2, <3>3 DEF PlaceAt, InPlace
  <2>6. CASE BeginCommit(a)
    <3>1. act'[a] = "txn" /\ txn'[a] = db /\ UNCHANGED <<where, runOf>>
      BY <1>t, <2>6 DEF BeginCommit, ActType
    <3>2. InPlace(a)
      BY <2>1, <2>6 DEF BeginCommit, PlaceAt
    <3>3. InPlace(a)'
      BY <1>2, <3>1, <3>2 DEF InPlace, Calm
    <3> QED
      BY <3>1, <3>3 DEF PlaceAt
  <2>7. CASE Write(a)
    <3>1. InPlace(a) /\ txn[a] = db
      BY <2>1, <2>7 DEF Write, PlaceAt, InPlace
    <3>2. act'[a] = "written" /\ UNCHANGED <<where, runOf, txn>>
      BY <1>t, <2>7, <3>1 DEF Write, ActType
    <3>3. InPlace(a)'
      BY <1>2, <3>1, <3>2 DEF InPlace, Calm
    <3> QED
      BY <3>2, <3>3 DEF PlaceAt
  <2>8. CASE EndCommit(a)
    <3>1. InPlace(a) /\ txn[a] = db
      BY <2>1, <2>8 DEF EndCommit, PlaceAt
    <3>2. where'[a] \in {None, db}
      BY <1>t, <2>8, <3>1 DEF EndCommit, Kept, InPlace, ActType
    <3>3. act'[a] = "done" /\ runOf' = runOf
      BY <1>t, <2>8 DEF EndCommit, ActType
    <3> QED
      BY <3>1, <3>2, <3>3 DEF PlaceAt, InPlace
  <2> QED
    BY <2>2, <2>3, <2>4, <2>5, <2>6, <2>7, <2>8 DEF ActStep
<1>5. Place'
  BY <1>3, <1>4 DEF Place
<1> QED
  BY <1>1, <1>5

LEMMA CrashPlace ==
  ASSUME PlaceInv, Crash
  PROVE  Switch' /\ Place'
<1>1. touching' = {} /\ cur' = None
  BY DEF Crash
<1>2. \A r \in RunIds : create'[r] \notin {"switch", "configure"}
  BY DEF Crash
<1>3. Switch'
  BY <1>1, <1>2 DEF Switch
<1>4. \A a \in Actions : act'[a] \in {"new", "failed"}
  BY DEF Crash
<1>5. \A a \in Actions : where'[a] = None
  <2>1. waits' = [a \in Actions |-> None] /\ where' = waits'
    BY DEF Crash
  <2> QED
    BY <2>1
<1>6. Place'
  BY <1>4, <1>5 DEF Place, PlaceAt
<1> QED
  BY <1>3, <1>6

LEMMA PlaceInvariant == Spec => []PlaceInv
<1>1. Init => PlaceInv
  <2> SUFFICES ASSUME Init PROVE PlaceInv
    OBVIOUS
  <2>1. Switch /\ Place
    BY DEF Init, Switch, Place, PlaceAt
  <2> QED
    BY <2>1, RunsInit DEF PlaceInv, LifeInv
<1>2. PlaceInv /\ LifeInv /\ [Next]_vars => PlaceInv'
  BY TypeStep, Steps, CreateStepPlace, EndStepPlace, ActStepPlace, CrashPlace DEF PlaceInv
<1> QED
  BY <1>1, <1>2, LifeInvariant, PTL DEF Spec

\* Between creations of runs the state engine's connection is on the database of
\* the current run, and what an action that meets no creation writes is kept in the
\* database of the run its context names, if it is kept: for any number of runs, and
\* of actions that commit and roll back each other's writes.
THEOREM RunsIsolation == Spec => []Isolation
<1>1. PlaceInv => Isolation
  BY DEF PlaceInv, TypeOK, Switch, Place, PlaceAt, InPlace, Isolation
<1> QED
  BY <1>1, PlaceInvariant, PTL
=============================================================================
