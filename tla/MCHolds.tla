------------------------------ MODULE MCHolds ------------------------------
(***************************************************************************)
(* Instances of Holds for TLC.                                             *)
(***************************************************************************)
EXTENDS Holds

CONSTANTS h1, r1, r2, r3

OneHold == {h1}
TwoRequests == {r1, r2}
ThreeRequests == {r1, r2, r3}
============================================================================
