----------------------------- MODULE MCEventBus -----------------------------
(***************************************************************************)
(* An instance of EventBus for TLC: a topic subscriber and a wildcard      *)
(* subscriber, each with a queue of one event.                             *)
(***************************************************************************)
EXTENDS EventBus, TLC

CONSTANTS e1, e2, topic, wildcard

TwoEvents == {e1, e2}
Both == {topic, wildcard}
OnlyTopic == {topic}
BothWant == topic :> {e1} @@ wildcard :> TwoEvents
QueuesOfOne == topic :> 1 @@ wildcard :> 1
=============================================================================
