-------------------------------- MODULE MCGame --------------------------------
(***************************************************************************)
(* Instances of Game for TLC.                                              *)
(***************************************************************************)
EXTENDS Game

CONSTANTS buyer, seller

TwoPlayers == <<buyer, seller>>
SmallBudget == (buyer :> 1) @@ (seller :> 2)
SomeResponses == {<<"propose">>, <<"accept", "reject">>}
Both == {"serial", "parallel"}
Competitive == {"accept"}
===============================================================================
