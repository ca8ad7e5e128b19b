------------------------------ MODULE MCCohort ------------------------------
(***************************************************************************)
(* Instances of Cohort for TLC.                                            *)
(***************************************************************************)
EXTENDS Cohort

Config(policy, maxActive, batch, budget) ==
  [policy |-> policy, maxActive |-> maxActive, batch |-> batch, budget |-> budget]

\* The three policies; a batch larger than the dormant set.
AllConfigs == {
  Config("round_robin", 1, 1, 0),
  Config("round_robin", 2, 1, 1),
  Config("recency", 1, 1, 0),
  Config("event_pressure_weighted", 2, 2, 1)}
=============================================================================
