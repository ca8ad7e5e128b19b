----------------------------- MODULE GameOutcome -----------------------------
(***************************************************************************)
(* What the game orchestrator promises about the end of a game: it is      *)
(* announced at most once, and whoever awaits the result gets exactly one  *)
(* answer, the announced one unless the engine was stopped first.          *)
(***************************************************************************)
EXTENDS Sequences

CONSTANTS
  Reasons,    \* why a game may end
  None,       \* no result yet
  Stopped     \* the result when the engine is stopped

VARIABLES
  told,       \* the game.terminated events, by reason
  result      \* what the result future holds

vars == <<told, result>>

Init ==
  /\ told = <<>>
  /\ result = None

Announce ==
  /\ told = <<>>
  /\ \E r \in Reasons : told' = <<r>>
  /\ UNCHANGED result

Deliver ==
  /\ told # <<>>
  /\ result = None
  /\ result' = told[1]
  /\ UNCHANGED told

Stop ==
  /\ result = None
  /\ result' = Stopped
  /\ UNCHANGED told

Next == Announce \/ Deliver \/ Stop

Spec == Init /\ [][Next]_vars /\ WF_vars(Deliver)
==============================================================================
