--------------------------- MODULE MCStateCommit ---------------------------
(***************************************************************************)
(* Instances of StateCommit for TLC: three actions on two entities.        *)
(***************************************************************************)
EXTENDS StateCommit, TLC

CONSTANTS t1, t2, t3, ea, eb

Set(e) == [op |-> "update", entity |-> e]
Make(e) == [op |-> "create", entity |-> e]
Drop(e) == [op |-> "delete", entity |-> e]

Three == {t1, t2, t3}
Two == {t1, t2}
Pair == {ea, eb}
OnlyA == {ea}
OnlyB == {eb}
OnlyOne == {t1}
OnlyTwo == {t2}
None == {}

\* What the database may refuse: anything, or what is inside of a transaction.
AnyStatement == {"begin", "read", "write", "append", "commit", "propose", "autocommit"}
InBody == {"read", "write", "append", "commit"}

\* eb exists and is only ever updated; ea does not exist at first: t1 fails
\* where ea is missing, t2 where it exists, and t3's deletion may find nothing.
ChainDeltas ==
  t1 :> <<Set(eb), Set(ea)>> @@ t2 :> <<Set(eb), Make(ea)>> @@ t3 :> <<Drop(ea)>>

\* Three actions with one delta each; t3's update fails unless t2 has run.
ShortDeltas == t1 :> <<Set(ea)>> @@ t2 :> <<Make(eb)>> @@ t3 :> <<Set(eb)>>

\* Two updates of one entity.
SameEntity == t1 :> <<Set(ea)>> @@ t2 :> <<Set(ea)>>

\* An action that fails at its second delta beside one that succeeds.
FailingDeltas == t1 :> <<Set(ea)>> @@ t2 :> <<Set(ea), Set(eb)>>
============================================================================
