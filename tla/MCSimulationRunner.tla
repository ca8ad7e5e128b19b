------------------------- MODULE MCSimulationRunner -------------------------
(***************************************************************************)
(* Instances of SimulationRunner for TLC: one envelope of each kind.       *)
(***************************************************************************)
EXTENDS SimulationRunner

CONSTANTS a1, d1, k1, s1, v1

OneAction == {a1}
OneErrand == {s1}
OneDeliverable == {d1}
OneReport == {k1}
TwoVisits == {v1, d1}

Ahead == {1}

\* The lead works at tick 1 and delivers at tick 2.
Lead == {[at |-> 1, act |-> "work"], [at |-> 2, act |-> "deliver"]}

\* An event at tick 2, and one that recurs from a time beyond MaxTime on.
Once == [at |-> 2, every |-> 0]
Again == [at |-> 5, every |-> 1]

Setup(internal, agenda, still, alarms, conditions) ==
  [internalOnly |-> internal, agenda |-> agenda,
   static |-> still, timers |-> alarms, triggers |-> conditions]

SixSetups == {
  Setup(TRUE, Lead, TRUE, {}, 0), Setup(FALSE, Lead, TRUE, {}, 0),
  Setup(TRUE, {}, TRUE, {Once}, 0), Setup(TRUE, {}, FALSE, {Once, Again}, 0),
  Setup(TRUE, Lead, FALSE, {}, 1), Setup(FALSE, Lead, FALSE, {Again}, 0) }
=============================================================================
