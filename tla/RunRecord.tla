------------------------------ MODULE RunRecord ------------------------------
(***************************************************************************)
(* What the table of runs promises across restarts of the process: within  *)
(* one life of the process a run goes from created to running to completed *)
(* and never back; the file kept for it is never ahead of it; a restart    *)
(* shows what was kept, with "stopped" for a run that was kept as running, *)
(* and forgets a run whose file is torn.                                   *)
(***************************************************************************)
CONSTANT Runs

VARIABLES
  status,   \* what the program says of each run
  kept      \* what its metadata.json says

Reached(s) ==
  CASE s = "none" -> {"none"}
    [] s = "created" -> {"created"}
    [] s = "running" -> {"created", "running"}
    [] s = "completed" -> {"created", "running", "completed"}
    [] s = "stopped" -> {"stopped"}

Create(r) == status[r] = "none" /\ status' = [status EXCEPT ![r] = "created"]
Start(r) == status[r] = "created" /\ status' = [status EXCEPT ![r] = "running"]
Finish(r) == status[r] = "running" /\ status' = [status EXCEPT ![r] = "completed"]

Advance == (\E r \in Runs : Create(r) \/ Start(r) \/ Finish(r)) /\ UNCHANGED kept

\* A save in progress, or several, leave a torn file or a status that the run
\* has had.
Keep(r) ==
  /\ \E k \in Reached(status[r]) \union {"torn"} : kept' = [kept EXCEPT ![r] = k]
  /\ UNCHANGED status

Recovered(k) == IF k = "running" THEN "stopped" ELSE k
Restart ==
  /\ kept' = [r \in Runs |-> Recovered(kept[r])]
  /\ status' = [r \in Runs |-> IF kept[r] = "torn" THEN "none" ELSE Recovered(kept[r])]

Init ==
  /\ status = [r \in Runs |-> "none"]
  /\ kept = [r \in Runs |-> "none"]

Next == Advance \/ (\E r \in Runs : Keep(r)) \/ Restart

Spec == Init /\ [][Next]_<<status, kept>>
=============================================================================
