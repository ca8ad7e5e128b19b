------------------------------- MODULE MCRuns -------------------------------
(***************************************************************************)
(* Instances of Runs for TLC.                                              *)
(***************************************************************************)
EXTENDS Runs

CONSTANTS r1, r2, a1, e1

TwoRuns == {r1, r2}
FreshRuns == {r1}
SecondRun == {r2}
SomeCalls == {r1, a1}
OneAction == {a1}
OneEnder == {e1}
=============================================================================
