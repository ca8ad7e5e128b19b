-------------------------------- MODULE Runs --------------------------------
(***************************************************************************)
(* The life of runs: VolnixApp.create_run, end_run, handle_action and the  *)
(* idle watchers, over the table of runs (RunManager), its metadata files  *)
(* and the one database connection of the state engine.                    *)
(*                                                                         *)
(* Calls of create_run are named by the run they make, idle watchers by    *)
(* the run they watch.  A step is what runs between two awaits; a save is  *)
(* a job of a worker thread that first reads the record and truncates the  *)
(* file, then writes it.  There is one world; times are abstracted to      *)
(* whether the last action is more than the idle timeout ago.              *)
(***************************************************************************)
EXTENDS Naturals

CONSTANTS
  RunIds,       \* the runs, one for each call of create_run
  Fresh,        \* those whose call generates the world first
  Internal,     \* those with internal actors, which are not watched
  Actions,      \* calls of handle_action
  Enders,       \* calls of end_run by clients and by the command line
  None, World, Default,  \* no run; the database of the world; the first one
  MayFail,      \* calls in which something awaited may raise
  MaxCrashes    \* bound on the restarts of the process

ASSUME RunsAssumption ==
  /\ Fresh \subseteq RunIds /\ Internal \subseteq RunIds
  /\ Enders \intersect RunIds = {}
  /\ {None, World, Default} \intersect RunIds = {}
  /\ None # World /\ None # Default /\ World # Default
  /\ MayFail \subseteq RunIds \union Enders \union Actions
  /\ MaxCrashes \in Nat

VARIABLES
  rec,       \* RunManager._runs: the status of each run
  disk,      \* the status in its metadata.json
  cur,       \* VolnixApp._current_run_id
  world,     \* whether _current_world_id is set
  last,      \* _last_action_time: "none", "recent" or "old"
  db,        \* what the state engine's connection is open on, None when closed
  create,    \* where each call of create_run is
  dump,      \* what the second save of a run has read
  end,       \* where each call of end_run, and each idle watcher, is
  about,     \* the run that it is about
  act,       \* where each action is
  waits,     \* the run that it creates first
  runOf,     \* the run that its context names
  txn,       \* the database its transaction was opened on
  where,     \* the database that keeps what it wrote, as far as any does
  touching,  \* history: calls of create_run between taking the database and the run
  upset,     \* history: two of them overlapped, or the last one failed
  astray,    \* history: actions under way while one had the database
  raced,     \* history: runs whose saves or ends overlapped
  saved,     \* history: runs whose end was saved
  unsaved,   \* history: runs whose end could not be saved
  crashes

record == <<rec, disk, dump, raced>>
app == <<cur, world, last>>
actions == <<act, waits, runOf, txn, where>>
switch == <<touching, upset>>
ends == <<end, about, saved, unsaved>>
vars == <<record, app, db, create, ends, actions, switch, astray, crashes>>

Ends == Enders \union RunIds
InPipeline == {a \in Actions : act[a] \in {"pipeline", "txn", "written"}}
Ending(r) == {t \in Ends : about[t] = r /\ end[t] \in {"report", "save", "write"}}
Calm == touching = {} /\ ~upset

-----------------------------------------------------------------------------
(* create_run                                                              *)

\* A call takes the state engine's database away from the current run.
Touch(r) ==
  /\ touching' = touching \union {r}
  /\ upset' = (touching \ {r} # {} \/ (upset /\ r \in touching))
  /\ astray' = astray \union InPipeline

\* create_world(): the state engine is pointed at the world's own database.
CreateWorld(r) ==
  /\ r \in Fresh
  /\ create[r] = "new"
  /\ create' = [create EXCEPT ![r] = "world"]
  /\ db' = World
  /\ Touch(r)
  /\ UNCHANGED <<record, app, ends, actions, crashes>>

\* Once there is a world the run gets its record, which is saved.
Recorded(r) ==
  /\ create' = [create EXCEPT ![r] = "record"]
  /\ rec' = [rec EXCEPT ![r] = "created"]

Record(r) ==
  /\ \/ r \notin Fresh /\ create[r] = "new" /\ UNCHANGED world
     \/ create[r] = "world" /\ world' = TRUE
  /\ Recorded(r)
  /\ UNCHANGED <<disk, dump, raced, cur, last, db, ends, actions, switch, astray, crashes>>

\* The first save.
RecordOpens(r) ==
  /\ create[r] = "record"
  /\ create' = [create EXCEPT ![r] = "recording"]
  /\ disk' = [disk EXCEPT ![r] = "torn"]
  /\ UNCHANGED <<rec, dump, raced, app, db, ends, actions, switch, astray, crashes>>

RecordWrites(r) ==
  /\ create[r] = "recording"
  /\ create' = [create EXCEPT ![r] = "recorded"]
  /\ disk' = [disk EXCEPT ![r] = "created"]
  /\ UNCHANGED <<rec, dump, raced, app, db, ends, actions, switch, astray, crashes>>

\* The connection is closed, the world's database copied, the copy opened.
Close(r) ==
  /\ create[r] = "recorded"
  /\ create' = [create EXCEPT ![r] = "switch"]
  /\ db' = None
  /\ Touch(r)
  /\ UNCHANGED <<record, app, ends, actions, crashes>>

\* Mutant: the state engine is pointed at the file that was copied.
ReconfigureWorld(r) ==
  /\ create[r] = "switch"
  /\ create' = [create EXCEPT ![r] = "configure"]
  /\ db' = World
  /\ UNCHANGED <<record, app, ends, actions, switch, astray, crashes>>

Reconfigure(r) ==
  /\ create[r] = "switch"
  /\ create' = [create EXCEPT ![r] = "configure"]
  /\ db' = r
  /\ UNCHANGED <<record, app, ends, actions, switch, astray, crashes>>

\* After the animator and the agency are configured the run is the current one.
MakeCurrent(r) ==
  /\ create[r] = "configure"
  /\ create' = [create EXCEPT ![r] = "game"]
  /\ cur' = r
  /\ world' = TRUE
  /\ touching' = touching \ {r}
  /\ UNCHANGED <<record, last, db, ends, actions, upset, astray, crashes>>

\* After the game is configured it is started; the record is saved again.
Start(r) ==
  /\ create[r] = "game"
  /\ create' = [create EXCEPT ![r] = "start"]
  /\ rec' = [rec EXCEPT ![r] = "running"]
  /\ last' = "none"
  /\ UNCHANGED <<disk, dump, raced, cur, world, db, ends, actions, switch, astray, crashes>>

StartOpens(r) ==
  /\ create[r] = "start"
  /\ create' = [create EXCEPT ![r] = "starting"]
  /\ dump' = [dump EXCEPT ![r] = rec[r]]
  /\ disk' = [disk EXCEPT ![r] = "torn"]
  /\ UNCHANGED <<rec, raced, app, db, ends, actions, switch, astray, crashes>>

\* A write over the file that another save has written since may tear it.
StartWrites(r) ==
  /\ create[r] = "starting"
  /\ create' = [create EXCEPT ![r] = "config"]
  /\ \E d \in {dump[r]} \union (IF r \in raced THEN {"torn"} ELSE {}) :
       disk' = [disk EXCEPT ![r] = d]
  /\ dump' = [dump EXCEPT ![r] = "none"]
  /\ UNCHANGED <<rec, raced, app, db, ends, actions, switch, astray, crashes>>

\* The last artifact is written; a run of external actors gets a watcher,
\* which leaves at once if the run is not the current one.
Finish(r) ==
  /\ create[r] = "config"
  /\ create' = [create EXCEPT ![r] = "done"]
  /\ end' = IF r \in Internal THEN end
            ELSE [end EXCEPT ![r] = IF cur = r THEN "asleep" ELSE "left"]
  /\ UNCHANGED <<record, app, db, about, saved, unsaved, actions, switch, astray, crashes>>

\* Whatever a call awaits may raise: nothing is undone.
CreateFails(r) ==
  /\ r \in MayFail
  /\ create[r] \notin {"new", "done", "failed"}
  /\ create' = [create EXCEPT ![r] = "failed"]
  /\ touching' = touching \ {r}
  /\ upset' = (upset \/ r \in touching)
  /\ UNCHANGED <<record, app, db, ends, actions, astray, crashes>>

CreateSteps(r) ==
  \/ RecordOpens(r) \/ RecordWrites(r) \/ Close(r) \/ Reconfigure(r) \/ MakeCurrent(r)
  \/ Start(r) \/ StartOpens(r) \/ StartWrites(r) \/ Finish(r)
  \/ create[r] = "world" /\ Record(r)

-----------------------------------------------------------------------------
(* end_run                                                                 *)

\* Mutant: any run is ended.
BeginsAny(t, r) ==
  /\ rec[r] # "none"
  /\ end' = [end EXCEPT ![t] = "report"]
  /\ about' = [about EXCEPT ![t] = r]
  /\ raced' = IF Ending(r) # {} THEN raced \union {r} ELSE raced

\* Only a running run is ended; two calls may both find it running.
Begins(t, r) ==
  /\ rec[r] = "running"
  /\ end' = [end EXCEPT ![t] = "report"]
  /\ about' = [about EXCEPT ![t] = r]
  /\ raced' = IF Ending(r) # {} THEN raced \union {r} ELSE raced

EndRun(t) ==
  /\ t \in Enders
  /\ end[t] = "idle"
  /\ \E r \in RunIds : Begins(t, r)
  /\ UNCHANGED <<rec, disk, dump, app, db, create, saved, unsaved, actions, switch, astray,
                 crashes>>

\* Report, scorecard and artifacts are written, then the run is completed and
\* its record saved.
Complete(t) ==
  /\ end[t] = "report"
  /\ end' = [end EXCEPT ![t] = "save"]
  /\ rec' = [rec EXCEPT ![about[t]] = "completed"]
  /\ raced' = IF create[about[t]] \in {"start", "starting"} THEN raced \union {about[t]}
              ELSE raced
  /\ UNCHANGED <<disk, dump, app, db, create, about, saved, unsaved, actions, switch, astray,
                 crashes>>

CompleteOpens(t) ==
  /\ end[t] = "save"
  /\ end' = [end EXCEPT ![t] = "write"]
  /\ disk' = [disk EXCEPT ![about[t]] = "torn"]
  /\ UNCHANGED <<rec, dump, raced, app, db, create, about, saved, unsaved, actions, switch,
                 astray, crashes>>

\* Mutants: the record was read before its status changed; only a watcher
\* clears the current run.
LeaveWith(t, saves, clears) ==
  /\ end[t] = "write"
  /\ end' = [end EXCEPT ![t] = "ended"]
  /\ disk' = [disk EXCEPT ![about[t]] = saves]
  /\ saved' = saved \union {about[t]}
  /\ IF clears /\ cur = about[t] THEN cur' = None /\ world' = FALSE
     ELSE UNCHANGED <<cur, world>>
  /\ UNCHANGED <<rec, dump, raced, last, db, create, about, unsaved, actions, switch, astray,
                 crashes>>
LeaveStale(t) == LeaveWith(t, "running", TRUE)
LeaveCurrent(t) == LeaveWith(t, "completed", t \in RunIds)

\* After the save the run is no longer the current one, and there is no world
\* to create another one from.
Leave(t) ==
  /\ end[t] = "write"
  /\ end' = [end EXCEPT ![t] = "ended"]
  /\ \E d \in {"completed"} \union (IF about[t] \in raced THEN {"torn"} ELSE {}) :
       disk' = [disk EXCEPT ![about[t]] = d]
  /\ saved' = saved \union {about[t]}
  /\ IF cur = about[t] THEN cur' = None /\ world' = FALSE ELSE UNCHANGED <<cur, world>>
  /\ UNCHANGED <<rec, dump, raced, last, db, create, about, unsaved, actions, switch, astray,
                 crashes>>

\* A report, an artifact or the save raises; a watcher does not try again.
EndFails(t) ==
  /\ t \in MayFail
  /\ end[t] \in {"report", "save", "write"}
  /\ end' = [end EXCEPT ![t] = "failed"]
  /\ unsaved' = IF end[t] = "report" THEN unsaved ELSE unsaved \union {about[t]}
  /\ UNCHANGED <<record, app, db, create, about, saved, actions, switch, astray, crashes>>

EndSteps(t) == Complete(t) \/ CompleteOpens(t) \/ Leave(t)

\* The last action of any run was longer ago than the timeout.
Quiet ==
  /\ last = "recent"
  /\ last' = "old"
  /\ UNCHANGED <<record, cur, world, db, create, ends, actions, switch, astray, crashes>>

\* Mutant: the watcher returns after its first look.
WakeOnce(r) ==
  /\ end[r] = "asleep"
  /\ \/ last = "old" /\ Begins(r, r)
     \/ /\ last # "old" \/ rec[r] # "running"
        /\ end' = [end EXCEPT ![r] = "left"]
        /\ UNCHANGED <<about, raced>>
  /\ UNCHANGED <<rec, disk, dump, app, db, create, saved, unsaved, actions, switch, astray,
                 crashes>>

\* _idle_watcher() wakes up: the time of the last action is looked at first,
\* whose run it is only then.
Wake(r) ==
  /\ end[r] = "asleep"
  /\ \/ last = "old" /\ Begins(r, r)
     \/ /\ (IF last = "old" THEN rec[r] # "running" ELSE cur # r)
        /\ end' = [end EXCEPT ![r] = "left"]
        /\ UNCHANGED <<about, raced>>
  /\ UNCHANGED <<rec, disk, dump, app, db, create, saved, unsaved, actions, switch, astray,
                 crashes>>

-----------------------------------------------------------------------------
(* handle_action                                                           *)

\* _ensure_active_run(): an action that finds a world and no run creates one.
Ensure(a) ==
  /\ act[a] = "new"
  /\ cur = None /\ world
  /\ \E r \in RunIds \ Fresh :
       /\ create[r] = "new"
       /\ Recorded(r)
       /\ waits' = [waits EXCEPT ![a] = r]
  /\ act' = [act EXCEPT ![a] = "waits"]
  /\ UNCHANGED <<disk, dump, raced, app, db, ends, runOf, txn, where, switch, astray, crashes>>

\* The action names the run that is current now.
Enter(a) ==
  /\ \/ act[a] = "new" /\ (cur # None \/ ~world)
     \/ act[a] = "waits" /\ create[waits[a]] = "done"
  /\ act' = [act EXCEPT ![a] = "pipeline"]
  /\ runOf' = [runOf EXCEPT ![a] = cur]
  /\ waits' = [waits EXCEPT ![a] = None]
  /\ last' = "recent"
  /\ astray' = IF Calm THEN astray ELSE astray \union {a}
  /\ UNCHANGED <<record, cur, world, db, create, ends, txn, where, switch, crashes>>

\* Actions on one connection share its transaction: what one of them wrote may
\* be committed or rolled back by another (StateCommit tells when).
Kept(a) == where' \in {[where EXCEPT ![a] = d] : d \in {where[a], txn[a]}}

\* The run it creates cannot be created, or a step before the commit refuses it.
Refused(a) ==
  /\ \/ act[a] = "waits" /\ create[waits[a]] = "failed"
     \/ act[a] = "pipeline"
  /\ act' = [act EXCEPT ![a] = "failed"]
  /\ waits' = [waits EXCEPT ![a] = None]
  /\ UNCHANGED <<record, app, db, create, ends, runOf, txn, where, switch, astray, crashes>>

\* A statement, the COMMIT or the ledger that is written after it raises, or
\* finds a connection that is closed.
Fail(a) ==
  /\ act[a] \in {"txn", "written"}
  /\ a \in MayFail \/ db # txn[a]
  /\ act' = [act EXCEPT ![a] = "failed"]
  /\ txn' = [txn EXCEPT ![a] = None]
  /\ Kept(a)
  /\ UNCHANGED <<record, app, db, create, ends, waits, runOf, switch, astray, crashes>>

\* The commit step: a transaction on the connection of that moment.
BeginCommit(a) ==
  /\ act[a] = "pipeline"
  /\ db # None
  /\ act' = [act EXCEPT ![a] = "txn"]
  /\ txn' = [txn EXCEPT ![a] = db]
  /\ UNCHANGED <<record, app, db, create, ends, waits, runOf, where, switch, astray, crashes>>

\* Its writes go through the store, which may be on another connection by then,
\* where they are committed one by one.
Write(a) ==
  /\ act[a] = "txn"
  /\ \/ db = txn[a] /\ act' = [act EXCEPT ![a] = "written"] /\ UNCHANGED where
     \/ db \notin {txn[a], None} /\ act' = [act EXCEPT ![a] = "written"]
                                 /\ where' = [where EXCEPT ![a] = db]
  /\ UNCHANGED <<record, app, db, create, ends, waits, runOf, txn, switch, astray, crashes>>

\* It commits if it has opened the transaction, or leaves that to the one that has.
EndCommit(a) ==
  /\ act[a] = "written"
  /\ db = txn[a]
  /\ act' = [act EXCEPT ![a] = "done"]
  /\ Kept(a)
  /\ txn' = [txn EXCEPT ![a] = None]
  /\ UNCHANGED <<record, app, db, create, ends, waits, runOf, switch, astray, crashes>>

ActionSteps(a) == \/ Enter(a) \/ Refused(a) \/ BeginCommit(a) \/ Write(a) \/ EndCommit(a)
                  \/ Fail(a)

-----------------------------------------------------------------------------
\* The process stops and starts again: the table is read from the files, a run
\* that was running is marked as stopped, a torn file is skipped.
Recovered(d) == IF d = "running" THEN "stopped" ELSE d
Crash ==
  /\ crashes < MaxCrashes
  /\ crashes' = crashes + 1
  /\ disk' = [r \in RunIds |-> Recovered(disk[r])]
  /\ rec' = [r \in RunIds |-> IF disk[r] = "torn" THEN "none" ELSE Recovered(disk[r])]
  /\ cur' = None /\ world' = FALSE /\ last' = "none" /\ db' = Default
  /\ create' = [r \in RunIds |-> IF create[r] = "new" THEN "new" ELSE "failed"]
  /\ end' = [t \in Ends |-> IF end[t] \in {"none", "idle"} THEN end[t] ELSE "failed"]
  /\ act' = [a \in Actions |-> IF act[a] = "new" THEN "new" ELSE "failed"]
  /\ dump' = [r \in RunIds |-> "none"]
  /\ about' = [t \in Ends |-> None]
  /\ waits' = [a \in Actions |-> None]
  /\ runOf' = waits' /\ txn' = waits' /\ where' = waits'
  /\ touching' = {} /\ upset' = FALSE /\ astray' = {}
  /\ UNCHANGED <<raced, saved, unsaved>>

Init ==
  /\ rec = [r \in RunIds |-> "none"]
  /\ disk = rec
  /\ cur = None
  /\ world = FALSE
  /\ last = "none"
  /\ db = Default
  /\ create = [r \in RunIds |-> "new"]
  /\ dump = rec
  /\ end = [t \in Ends |-> IF t \in Enders THEN "idle" ELSE "none"]
  /\ about = [t \in Ends |-> None]
  /\ act = [a \in Actions |-> "new"]
  /\ waits = [a \in Actions |-> None]
  /\ runOf = waits
  /\ txn = waits
  /\ where = waits
  /\ touching = {} /\ upset = FALSE
  /\ astray = {} /\ raced = {} /\ saved = {} /\ unsaved = {}
  /\ crashes = 0

\* Nothing is under way.
AtRest ==
  /\ \A r \in RunIds : create[r] \in {"new", "done", "failed"}
  /\ \A t \in Ends : end[t] \notin {"report", "save", "write"}
  /\ InPipeline = {}
  /\ UNCHANGED vars

Next ==
  \/ \E r \in RunIds : \/ CreateWorld(r) \/ Record(r) \/ CreateSteps(r) \/ CreateFails(r)
                       \/ Wake(r)
  \/ \E t \in Ends : EndRun(t) \/ EndSteps(t) \/ EndFails(t)
  \/ \E a \in Actions : Ensure(a) \/ ActionSteps(a)
  \/ Quiet \/ Crash
  \/ AtRest

\* What was called goes on, threads run, timers fire.  Nobody has to create or
\* to end a run, or to act.
Fairness ==
  /\ \A r \in RunIds : WF_vars(CreateSteps(r)) /\ WF_vars(Wake(r))
  /\ \A t \in Ends : WF_vars(EndSteps(t))
  /\ \A a \in Actions : WF_vars(ActionSteps(a))
  /\ WF_vars(Quiet)

Spec == Init /\ [][Next]_vars
FairSpec == Spec /\ Fairness
-----------------------------------------------------------------------------
TypeOK ==
  /\ rec \in [RunIds -> {"none", "created", "running", "completed", "stopped"}]
  /\ disk \in [RunIds -> {"none", "created", "running", "completed", "stopped", "torn"}]
  /\ cur \in RunIds \union {None}
  /\ world \in BOOLEAN
  /\ last \in {"none", "recent", "old"}
  /\ db \in RunIds \union {None, World, Default}
  /\ create \in [RunIds -> {"new", "world", "record", "recording", "recorded", "switch",
                            "configure", "game", "start", "starting", "config", "done",
                            "failed"}]
  /\ dump \in [RunIds -> {"none", "running", "completed"}]
  /\ end \in [Ends -> {"none", "idle", "asleep", "left", "report", "save", "write", "ended",
                       "failed"}]
  /\ about \in [Ends -> RunIds \union {None}]
  /\ act \in [Actions -> {"new", "waits", "pipeline", "txn", "written", "done", "failed"}]
  /\ waits \in [Actions -> RunIds \union {None}]
  /\ runOf \in [Actions -> RunIds \union {None}]
  /\ txn \in [Actions -> RunIds \union {None, World, Default}]
  /\ where \in [Actions -> RunIds \union {None, World, Default}]
  /\ touching \subseteq RunIds
  /\ upset \in BOOLEAN
  /\ astray \subseteq Actions
  /\ raced \subseteq RunIds
  /\ saved \subseteq RunIds
  /\ unsaved \subseteq RunIds
  /\ crashes \in Nat

\* While calls of create_run neither overlap nor fail, the one connection of the
\* state engine is open on the database of the current run; and what an action
\* that no such call overlaps has written, whether it succeeds or fails and
\* whoever commits it, is kept in the database of the run its context names if
\* anywhere, whatever ends, crashes or is created automatically.
Isolation ==
  /\ Calm /\ cur # None => db = cur
  /\ \A a \in Actions \ astray :
       runOf[a] # None => where[a] \in {None, runOf[a]}

\* A run whose end was saved stays completed, in the table and on the disk, over
\* restarts at any moment, unless another save or end of the run overlapped.
EndIsDurable ==
  \A r \in saved \ raced : rec[r] = "completed" /\ disk[r] = "completed"

\* The current run is not one that has ended: end_run() clears it, whoever ends
\* the run and whatever is created meanwhile, unless its save raises.  Until it
\* is started the current run is only created.
CurrentIsOpen ==
  \A r \in RunIds \ unsaved :
    cur = r /\ rec[r] # "created" => rec[r] = "running" \/ Ending(r) # {}

\* What the table of runs shows, and what a restart makes of its files.
Table == INSTANCE RunRecord WITH Runs <- RunIds, status <- rec, kept <- disk
ImplementsRunRecord == Table!Spec

\* A watched run in which something was done and then nothing is ended, unless
\* the end raises, another run becomes the current one or another call of
\* create_run wipes the time of the last action.
IdleRunEnds ==
  \A r \in RunIds \ Internal :
    end[r] = "asleep" /\ cur = r /\ last # "none"
      ~> rec[r] # "running" \/ cur # r \/ end[r] = "failed" \/ last = "none"
=============================================================================
