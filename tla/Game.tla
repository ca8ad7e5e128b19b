-------------------------------- MODULE Game --------------------------------
(***************************************************************************)
(* One negotiation game, from the kickstart to its result: the             *)
(* GameOrchestrator with its bus handlers and failsafe timers, the players *)
(* the agency activates, the pipeline their moves go through (policy gate, *)
(* budget, commit) and the deal the moves are about.                       *)
(*                                                                         *)
(* Each subscription of the orchestrator has a queue and a consumer of its *)
(* own, so a propose, an accept, a timeout and an exhausted budget are     *)
(* handled at the same time, interleaved at every await.  A step of a      *)
(* handler runs from one await to the next.  Time is abstracted to the     *)
(* order in which the timers fire; terms and scores are left out.          *)
(***************************************************************************)
EXTENDS Integers, Sequences, FiniteSets, SequencesExt

CONSTANTS
  PlayerOrder,    \* the players in the order of their registration
  Nobody,         \* no player
  Modes,          \* the activation modes: "serial", "parallel"
  Timers,         \* the failsafe timers: "wall_clock", "stalemate"
  Budget,         \* the world_actions each player has
  Responses,      \* what an LLM may answer: sequences of moves
  MaxCalls,       \* tool calls of one activation
  Slow,           \* the moves whose scoring queries the state
  MaxEvents,      \* the cap of the max_events_exceeded condition
  QueryMayFail,   \* whether a query of the state may raise
  MoveBound       \* bound on the moves attempted

Players == Range(PlayerOrder)
Topics == {"propose", "counter", "accept", "reject"}
Natural == {"deal_closed", "deal_rejected", "max_events_exceeded", "all_budgets_exhausted"}
Timeouts == Timers \union {"all_budgets"}
Reasons == Natural \union Timeouts
None == "none"

ASSUME GameAssumption ==
  /\ PlayerOrder \in Seq(Players)
  /\ Players # {}
  /\ Nobody \notin Players
  /\ Modes \subseteq {"serial", "parallel"}
  /\ "wall_clock" \in Timers /\ Timers \subseteq {"wall_clock", "stalemate"}
  /\ Budget \in [Players -> Nat \ {0}]
  /\ Responses \subseteq Seq(Topics)
  /\ MaxCalls \in Nat \ {0}
  /\ Slow \subseteq Topics
  /\ MaxEvents \in Nat
  /\ QueryMayFail \in BOOLEAN
  /\ MoveBound \in Nat

VARIABLES
  mode,         \* flow.activation_mode
  deal,         \* the deal: its status and who made the last offer
  gate,         \* GameActivePolicy._game_active
  left,         \* world actions each player has left
  lane,         \* the move that is in the pipeline
  agent,        \* the activation of each player
  queue,        \* moves published and not yet handled, by topic
  spent,        \* budget.exhausted events not yet handled
  timeouts,     \* game.timeout events not yet handled
  handler,      \* where each bus handler is
  counter,      \* event_counter
  eliminated,   \* the players whose world actions are exhausted
  timers,       \* failsafe timers that run
  terminated,   \* _terminated
  announced,    \* game.terminated events, by reason
  result,       \* what the result future holds
  stopping,     \* _on_stop: "no", "draining", "done"
  late,         \* moves committed after the gate was closed
  moves         \* moves attempted

play == <<lane, agent, left, deal, late, moves>>
ending == <<gate, terminated, timers, announced, result>>
vars == <<mode, play, queue, spent, timeouts, handler, counter, eliminated, ending, stopping>>

-----------------------------------------------------------------------------
(* Activations.                                                            *)

Resting == [at |-> "idle", calls |-> <<>>, used |-> 0, moved |-> FALSE]

\* A player that is still pending is skipped.
Launch(a, p) ==
  IF p \in Players /\ a[p].at = "idle"
    THEN [a EXCEPT ![p] = [Resting EXCEPT !.at = "thinking"]]
    ELSE a

\* Every tool call of the response is executed, then a move ends the turn.
AfterCall(p, ok) ==
  LET rest == Tail(agent[p].calls)
      used == agent[p].used + 1
      moved == agent[p].moved \/ ok
  IN [agent EXCEPT ![p] =
       [at |-> IF rest # <<>> THEN "acting"
               ELSE IF moved \/ used >= MaxCalls THEN "closing" ELSE "thinking",
        calls |-> rest, used |-> used, moved |-> moved]]

\* The LLM has nothing to do, or answers with text.
Decline(p) ==
  /\ agent[p].at = "thinking"
  /\ agent' = [agent EXCEPT ![p].at = "closing"]
  /\ UNCHANGED <<mode, lane, left, deal, late, moves, queue, spent, timeouts, handler,
                 counter, eliminated, ending, stopping>>

\* The rest of the activation, after which the task is no longer pending.
Finish(p) ==
  /\ agent[p].at = "closing"
  /\ agent' = [agent EXCEPT ![p] = Resting]
  /\ UNCHANGED <<mode, lane, left, deal, late, moves, queue, spent, timeouts, handler,
                 counter, eliminated, ending, stopping>>

-----------------------------------------------------------------------------
(* The pipeline, one move at a time.                                       *)

Free == [at |-> "free", who |-> Nobody, move |-> None]

Enters(p, move) ==
  /\ lane = Free
  /\ moves < MoveBound
  /\ lane' = [at |-> "policy", who |-> p, move |-> move]
  /\ moves' = moves + 1
  /\ UNCHANGED <<mode, left, deal, late, queue, spent, timeouts, handler,
                 counter, eliminated, ending, stopping>>

\* The LLM answers with tool calls and the first one gets the pipeline.
Answer(p) ==
  /\ agent[p].at = "thinking"
  /\ \E calls \in Responses :
       /\ Len(calls) \in 1 .. (MaxCalls - agent[p].used)
       /\ agent' = [agent EXCEPT ![p].at = "acting", ![p].calls = calls]
       /\ Enters(p, Head(calls))

\* So does the next one of the same answer.
NextCall(p) ==
  /\ agent[p].at = "acting"
  /\ lane.who # p
  /\ Enters(p, Head(agent[p].calls))
  /\ UNCHANGED agent

\* A refused move is published as well, and the player is told it was blocked.
Blocked ==
  /\ queue' = [queue EXCEPT ![lane.move] = Append(@, lane.who)]
  /\ agent' = AfterCall(lane.who, FALSE)
  /\ lane' = Free

\* Mutant: the gate is not asked.
PolicyAllows ==
  /\ lane.at = "policy"
  /\ lane' = [lane EXCEPT !.at = "budget"]
  /\ UNCHANGED <<mode, agent, left, deal, late, moves, queue, spent, timeouts, handler,
                 counter, eliminated, ending, stopping>>

Policy ==
  /\ lane.at = "policy"
  /\ \/ /\ gate
        /\ lane' = [lane EXCEPT !.at = "budget"]
        /\ UNCHANGED <<agent, queue>>
     \/ /\ ~gate
        /\ Blocked
  /\ UNCHANGED <<mode, left, deal, late, moves, spent, timeouts, handler,
                 counter, eliminated, ending, stopping>>

\* Mutant: the actions that are left are not looked at.
ChargesAnyway ==
  /\ lane.at = "budget"
  /\ left' = [left EXCEPT ![lane.who] = @ - 1]
  /\ spent' = IF left[lane.who] <= 1 THEN Append(spent, lane.who) ELSE spent
  /\ lane' = [lane EXCEPT !.at = "commit"]
  /\ UNCHANGED <<mode, agent, queue, deal, late, moves, timeouts, handler,
                 counter, eliminated, ending, stopping>>

\* The last action is announced as the last before it is carried out.
Charge ==
  /\ lane.at = "budget"
  /\ \/ /\ left[lane.who] > 0
        /\ left' = [left EXCEPT ![lane.who] = @ - 1]
        /\ spent' = IF left[lane.who] = 1 THEN Append(spent, lane.who) ELSE spent
        /\ lane' = [lane EXCEPT !.at = "commit"]
        /\ UNCHANGED <<agent, queue>>
     \/ /\ left[lane.who] = 0
        /\ spent' = Append(spent, lane.who)
        /\ Blocked
        /\ UNCHANGED left
  /\ UNCHANGED <<mode, deal, late, moves, timeouts, handler,
                 counter, eliminated, ending, stopping>>

\* What the pack's handlers make of a deal between two parties.  An error
\* changes nothing and is committed all the same.
Negotiated(d, move, p) ==
  CASE move = "propose" -> [status |-> "proposed", by |-> p]
    [] move = "counter" -> IF d.by = p THEN d ELSE [status |-> "countered", by |-> p]
    [] move = "accept"  -> IF d.by = p THEN d ELSE [d EXCEPT !.status = "accepted"]
    [] OTHER            -> [d EXCEPT !.status = "rejected"]

Commit ==
  /\ lane.at = "commit"
  /\ deal' = Negotiated(deal, lane.move, lane.who)
  /\ late' = IF gate THEN late ELSE late + 1
  /\ lane' = [lane EXCEPT !.at = "publish"]
  /\ UNCHANGED <<mode, agent, left, moves, queue, spent, timeouts, handler,
                 counter, eliminated, ending, stopping>>

Publish ==
  /\ lane.at = "publish"
  /\ queue' = [queue EXCEPT ![lane.move] = Append(@, lane.who)]
  /\ agent' = AfterCall(lane.who, TRUE)
  /\ lane' = Free
  /\ UNCHANGED <<mode, left, deal, late, moves, spent, timeouts, handler,
                 counter, eliminated, ending, stopping>>

-----------------------------------------------------------------------------
(* The bus handlers of the orchestrator.                                   *)

Handlers == Topics \union {"timeout"}

Idle == [at |-> "idle", who |-> Nobody, number |-> 0, met |-> FALSE, why |-> None]

Moves(h, at) == handler' = [handler EXCEPT ![h].at = at]
Returns(h) == handler' = [handler EXCEPT ![h] = Idle]

\* _handle_game_event: the number is taken before the scorer is awaited.
Hear(t) ==
  /\ handler[t].at = "idle"
  /\ queue[t] # <<>>
  /\ queue' = [queue EXCEPT ![t] = Tail(@)]
  /\ \/ /\ terminated
        /\ UNCHANGED <<handler, counter>>
     \/ /\ ~terminated
        /\ t \in Slow
        /\ handler' = [handler EXCEPT ![t] =
             [Idle EXCEPT !.at = "scoring", !.who = Head(queue[t]), !.number = counter + 1]]
        /\ UNCHANGED counter
     \/ /\ ~terminated
        /\ t \notin Slow
        /\ handler' = [handler EXCEPT ![t] = [Idle EXCEPT !.at = "ask", !.who = Head(queue[t])]]
        /\ counter' = counter + 1
  /\ UNCHANGED <<mode, play, spent, timeouts, eliminated, ending, stopping>>

Scored(t) ==
  /\ handler[t].at = "scoring"
  /\ counter' = handler[t].number
  /\ handler' = [handler EXCEPT ![t].at = "ask", ![t].number = 0]
  /\ UNCHANGED <<mode, play, queue, spent, timeouts, eliminated, ending, stopping>>

\* _handle_timeout: the win conditions are asked before the timeout counts.
HearTimeout ==
  /\ handler["timeout"].at = "idle"
  /\ timeouts # <<>>
  /\ timeouts' = Tail(timeouts)
  /\ \/ /\ terminated
        /\ UNCHANGED handler
     \/ /\ ~terminated
        /\ handler' = [handler EXCEPT !["timeout"] =
             [Idle EXCEPT !.at = "ask", !.why = Head(timeouts)]]
  /\ UNCHANGED <<mode, play, queue, spent, counter, eliminated, ending, stopping>>

\* _handle_budget_exhausted, which waits for nothing.
HearExhausted ==
  /\ spent # <<>>
  /\ spent' = Tail(spent)
  /\ \/ /\ terminated
        /\ UNCHANGED <<eliminated, timeouts>>
     \/ /\ ~terminated
        /\ eliminated' = eliminated \union {Head(spent)}
        /\ timeouts' = IF eliminated' = Players THEN Append(timeouts, "all_budgets") ELSE timeouts
  /\ UNCHANGED <<mode, play, queue, handler, counter, ending, stopping>>

-----------------------------------------------------------------------------
(* WinConditionEvaluator.check: two queries of the state, then what the    *)
(* orchestrator knows itself.                                              *)

\* A query that raises has met nothing.
Query(status) == {deal.status = status} \union (IF QueryMayFail THEN {FALSE} ELSE {})

Ask(h) ==
  /\ handler[h].at = "ask"
  /\ \E met \in Query("accepted") :
       handler' = [handler EXCEPT ![h].at = "closed?", ![h].met = met]
  /\ UNCHANGED <<mode, play, queue, spent, timeouts, counter, eliminated, ending, stopping>>

AskAgain(h) ==
  /\ handler[h].at = "closed?"
  /\ ~handler[h].met
  /\ \E met \in Query("rejected") :
       handler' = [handler EXCEPT ![h].at = "rejected?", ![h].met = met]
  /\ UNCHANGED <<mode, play, queue, spent, timeouts, counter, eliminated, ending, stopping>>

CapReached == MaxEvents > 0 /\ counter >= MaxEvents

\* The first condition that is met, "none" if none is.
Won(h) ==
  CASE handler[h].at = "closed?" /\ handler[h].met -> "deal_closed"
    [] handler[h].at = "rejected?" /\ handler[h].met -> "deal_rejected"
    [] handler[h].at = "rejected?" /\ ~handler[h].met /\ CapReached -> "max_events_exceeded"
    [] handler[h].at = "rejected?" /\ ~handler[h].met /\ ~CapReached /\ eliminated = Players
         -> "all_budgets_exhausted"
    [] OTHER -> None

\* No condition is met, after all have been asked.
Undecided(h) == handler[h].at = "rejected?" /\ Won(h) = None

-----------------------------------------------------------------------------
(* The end of the game.                                                    *)

\* Mutant: the gate is left to the bus.
TerminatesGateOpen(h) ==
  /\ Won(h) # None
  /\ \/ /\ terminated
        /\ Returns(h)
        /\ UNCHANGED ending
     \/ /\ ~terminated
        /\ terminated' = TRUE
        /\ timers' = {}
        /\ handler' = [handler EXCEPT ![h] = [Idle EXCEPT !.at = "ending", !.why = Won(h)]]
        /\ UNCHANGED <<gate, announced, result>>
  /\ UNCHANGED <<mode, play, queue, spent, timeouts, counter, eliminated, stopping>>

\* _terminate_natural, up to the publication of the inactive state.
Terminate(h) ==
  /\ Won(h) # None
  /\ \/ /\ terminated
        /\ Returns(h)
        /\ UNCHANGED ending
     \/ /\ ~terminated
        /\ terminated' = TRUE
        /\ timers' = {}
        /\ gate' = FALSE
        /\ handler' = [handler EXCEPT ![h] = [Idle EXCEPT !.at = "ending", !.why = Won(h)]]
        /\ UNCHANGED <<announced, result>>
  /\ UNCHANGED <<mode, play, queue, spent, timeouts, counter, eliminated, stopping>>

\* Mutant: terminated is not looked at again after the queries.
TimesOutAnyway ==
  /\ Undecided("timeout")
  /\ terminated' = TRUE
  /\ timers' = {}
  /\ Moves("timeout", "settling")
  /\ UNCHANGED <<gate, announced, result>>
  /\ UNCHANGED <<mode, play, queue, spent, timeouts, counter, eliminated, stopping>>

\* The timeout counts, unless another handler has ended the game meanwhile.
TimeOut ==
  /\ Undecided("timeout")
  /\ \/ /\ terminated
        /\ Returns("timeout")
        /\ UNCHANGED ending
     \/ /\ ~terminated
        /\ terminated' = TRUE
        /\ timers' = {}
        /\ Moves("timeout", "settling")
        /\ UNCHANGED <<gate, announced, result>>
  /\ UNCHANGED <<mode, play, queue, spent, timeouts, counter, eliminated, stopping>>

\* Only when the open deals are settled is the gate closed.
Settle ==
  /\ handler["timeout"].at = "settling"
  /\ gate' = FALSE
  /\ Moves("timeout", "ending")
  /\ UNCHANGED <<terminated, timers, announced, result>>
  /\ UNCHANGED <<mode, play, queue, spent, timeouts, counter, eliminated, stopping>>

Announce(h) ==
  /\ handler[h].at = "ending"
  /\ announced' = Append(announced, handler[h].why)
  /\ Moves(h, "told")
  /\ UNCHANGED <<gate, terminated, timers, result>>
  /\ UNCHANGED <<mode, play, queue, spent, timeouts, counter, eliminated, stopping>>

\* Mutant: whoever has been told does not get the result.
DeliversNothing(h) ==
  /\ handler[h].at = "told"
  /\ Returns(h)
  /\ UNCHANGED <<gate, terminated, timers, announced, result>>
  /\ UNCHANGED <<mode, play, queue, spent, timeouts, counter, eliminated, stopping>>

Deliver(h) ==
  /\ handler[h].at = "told"
  /\ result' = IF result = None THEN handler[h].why ELSE result
  /\ Returns(h)
  /\ UNCHANGED <<gate, terminated, timers, announced>>
  /\ UNCHANGED <<mode, play, queue, spent, timeouts, counter, eliminated, stopping>>

-----------------------------------------------------------------------------
(* The next player.                                                        *)

Others(p) == {i \in DOMAIN PlayerOrder : PlayerOrder[i] \notin eliminated \union {p}}

\* The first in the order of registration, as a set.
NextPlayer(p) ==
  IF mode = "parallel" \/ Others(p) = {}
    THEN {Nobody}
    ELSE {PlayerOrder[i] : i \in {k \in Others(p) : \A j \in Others(p) : k <= j}}

\* The next player is chosen, then the summary for it is built.
Pass(t) ==
  /\ Undecided(t)
  /\ \E next \in NextPlayer(handler[t].who) :
       handler' = [handler EXCEPT ![t] =
         IF next = Nobody THEN Idle ELSE [Idle EXCEPT !.at = "summary", !.who = next]]
  /\ UNCHANGED <<mode, play, queue, spent, timeouts, counter, eliminated, ending, stopping>>

Activate(t) ==
  /\ handler[t].at = "summary"
  /\ agent' = Launch(agent, handler[t].who)
  /\ Returns(t)
  /\ UNCHANGED <<mode, lane, left, deal, late, moves, queue, spent, timeouts, counter,
                 eliminated, ending, stopping>>

-----------------------------------------------------------------------------
(* Timers, and the stop of the engine.                                     *)

Fire(w) ==
  /\ w \in timers
  /\ timers' = timers \ {w}
  /\ timeouts' = Append(timeouts, w)
  /\ UNCHANGED <<gate, terminated, announced, result>>
  /\ UNCHANGED <<mode, play, queue, spent, handler, counter, eliminated, stopping>>

\* _on_stop cancels the activations and waits for them.  The handlers stay
\* subscribed and those under way go on.
Stop ==
  /\ stopping = "no"
  /\ stopping' = "draining"
  /\ terminated' = TRUE
  /\ timers' = {}
  /\ agent' = [p \in Players |-> Resting]
  /\ lane' = Free
  /\ UNCHANGED <<gate, announced, result>>
  /\ UNCHANGED <<mode, left, deal, late, moves, queue, spent, timeouts, handler, counter, eliminated>>

StopDone ==
  /\ stopping = "draining"
  /\ stopping' = "done"
  /\ result' = IF result = None THEN "stopped" ELSE result
  /\ UNCHANGED <<gate, terminated, timers, announced>>
  /\ UNCHANGED <<mode, play, queue, spent, timeouts, handler, counter, eliminated>>

-----------------------------------------------------------------------------
\* _on_start: the gate is open, the timers run, the first mover or every
\* player is activated.
Init ==
  /\ mode \in Modes
  /\ deal = [status |-> "open", by |-> Nobody]
  /\ gate = TRUE
  /\ left = Budget
  /\ lane = Free
  /\ agent = [p \in Players |->
       IF mode = "parallel" \/ p = Head(PlayerOrder)
         THEN [Resting EXCEPT !.at = "thinking"] ELSE Resting]
  /\ queue = [t \in Topics |-> <<>>]
  /\ spent = <<>>
  /\ timeouts = <<>>
  /\ handler = [h \in Handlers |-> Idle]
  /\ counter = 0
  /\ eliminated = {}
  /\ timers = Timers
  /\ terminated = FALSE
  /\ announced = <<>>
  /\ result = None
  /\ stopping = "no"
  /\ late = 0
  /\ moves = 0

Player(p) == Decline(p) \/ Answer(p) \/ NextCall(p) \/ Finish(p)
Pipeline == Policy \/ Charge \/ Commit \/ Publish
OnMove(t) == Hear(t) \/ Scored(t) \/ Pass(t) \/ Activate(t)
OnTimeout == HearTimeout \/ TimeOut \/ Settle
Closing(h) == Ask(h) \/ AskAgain(h) \/ Terminate(h) \/ Announce(h) \/ Deliver(h)

Next ==
  \/ \E p \in Players : Player(p)
  \/ Pipeline
  \/ \E t \in Topics : OnMove(t)
  \/ OnTimeout
  \/ HearExhausted
  \/ \E h \in Handlers : Closing(h)
  \/ \E w \in Timers : Fire(w)
  \/ Stop
  \/ StopDone

Spec == Init /\ [][Next]_vars

\* The wall clock runs out, queries return, consumers go on and a stop that
\* has begun is finished; nothing is assumed of the players.
Fairness ==
  /\ WF_vars(Fire("wall_clock"))
  /\ WF_vars(OnTimeout)
  /\ \A h \in Handlers : WF_vars(Closing(h))
  /\ WF_vars(StopDone)

FairSpec == Spec /\ Fairness

-----------------------------------------------------------------------------
(* Properties.                                                             *)

TypeOK ==
  /\ mode \in Modes
  /\ deal \in [status : {"open", "proposed", "countered", "accepted", "rejected"},
               by : Players \union {Nobody}]
  /\ gate \in BOOLEAN
  /\ left \in [Players -> Nat]
  /\ lane \in [at : {"policy", "budget", "commit", "publish"}, who : Players, move : Topics]
              \union {Free}
  /\ agent \in [Players -> [at : {"idle", "thinking", "acting", "closing"},
                            calls : Seq(Topics), used : 0 .. MaxCalls, moved : BOOLEAN]]
  /\ queue \in [Topics -> Seq(Players)]
  /\ spent \in Seq(Players)
  /\ timeouts \in Seq(Timeouts)
  /\ handler \in [Handlers ->
       [at : {"idle", "scoring", "ask", "closed?", "rejected?", "summary",
              "settling", "ending", "told"},
        who : Players \union {Nobody}, number : Nat,
        met : BOOLEAN,
        why : Reasons \union {None}]]
  /\ counter \in Nat
  /\ eliminated \subseteq Players
  /\ timers \subseteq Timers
  /\ terminated \in BOOLEAN
  /\ announced \in Seq(Reasons)
  /\ result \in Reasons \union {None, "stopped"}
  /\ stopping \in {"no", "draining", "done"}
  /\ late \in Nat
  /\ moves \in Nat

\* Whoever learns how the game ended finds it over: no further move passes
\* the gate (_publish_active_state, GameActivePolicy.evaluate).
GateFollowsGame == result \notin {None, "stopped"} => ~gate

\* The gate is asked early in the pipeline, so a move that has passed it may
\* still change the deal after the end, but only one
\* (GameActivePolicy.evaluate, AgencyEngine._pipeline_lock).
OneLateMove == late <= 1

\* A game that is on is going to end: the wall clock runs, or a timeout is
\* waiting to be handled, or is being handled.
EndIsComing ==
  terminated \/ "wall_clock" \in timers \/ timeouts # <<>>
    \/ handler["timeout"].at \in {"ask", "closed?", "rejected?"}

Outcome == INSTANCE GameOutcome WITH
  Reasons <- Reasons, None <- None, Stopped <- "stopped", told <- announced, result <- result

\* The game is announced at most once and its result set once, to what was
\* announced unless the engine was stopped (_terminated, M2's second check,
\* _publish_terminated).
ImplementsOutcome == Outcome!Spec

\* await_result returns: every game ends, whatever the players do.
GameEnds == <>(result # None)
=============================================================================
