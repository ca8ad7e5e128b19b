----------------------------- MODULE Game_proofs -----------------------------
(***************************************************************************)
(* What holds of a game of any number of players, whatever they answer.    *)
(***************************************************************************)
EXTENDS Game, SequenceTheorems, TLAPS

-----------------------------------------------------------------------------
(* Type correctness.                                                       *)

AgentType == [at : {"idle", "thinking", "acting", "closing"},
              calls : Seq(Topics), used : 0 .. MaxCalls, moved : BOOLEAN]

HandlerType == [at : {"idle", "scoring", "ask", "closed?", "rejected?", "summary",
                      "settling", "ending", "told"},
                who : Players \union {Nobody}, number : Nat,
                met : BOOLEAN, why : Reasons \union {None}]

LaneType == [at : {"policy", "budget", "commit", "publish"}, who : Players, move : Topics]
            \union {Free}

DealType == [status : {"open", "proposed", "countered", "accepted", "rejected"},
             by : Players \union {Nobody}]

PlayType ==
  /\ deal \in DealType
  /\ left \in [Players -> Nat]
  /\ lane \in LaneType
  /\ agent \in [Players -> AgentType]
  /\ late \in Nat
  /\ moves \in Nat

BusType ==
  /\ queue \in [Topics -> Seq(Players)]
  /\ spent \in Seq(Players)
  /\ timeouts \in Seq(Timeouts)
  /\ handler \in [Handlers -> HandlerType]
  /\ counter \in Nat
  /\ eliminated \subseteq Players

EndType ==
  /\ gate \in BOOLEAN
  /\ timers \subseteq Timers
  /\ terminated \in BOOLEAN
  /\ announced \in Seq(Reasons)
  /\ result \in Reasons \union {None, "stopped"}
  /\ stopping \in {"no", "draining", "done"}

LEMMA TypeParts ==
  /\ TypeOK <=> mode \in Modes /\ PlayType /\ BusType /\ EndType
  /\ TypeOK' <=> mode' \in Modes /\ PlayType' /\ BusType' /\ EndType'
  BY DEF TypeOK, PlayType, BusType, EndType, AgentType, HandlerType, LaneType, DealType

\* Whose move is in the pipeline is acting, and who acts has calls left, no
\* more than an activation may make.
Turns ==
  /\ lane # Free => agent[lane.who].at = "acting"
  /\ \A p \in Players : agent[p].at = "acting" =>
       agent[p].calls # <<>> /\ agent[p].used + Len(agent[p].calls) <= MaxCalls

\* A handler that is about to end the game, or may, knows why.
Causes ==
  /\ \A h \in Handlers : handler[h].at \in {"settling", "ending", "told"} => handler[h].why # None
  /\ handler["timeout"].at \in {"ask", "closed?", "rejected?"} => handler["timeout"].why # None

TypeInv == TypeOK /\ Turns /\ Causes

LEMMA RestingType ==
  /\ Resting \in AgentType
  /\ Resting.at = "idle"
  /\ [Resting EXCEPT !.at = "thinking"] \in AgentType
  /\ [Resting EXCEPT !.at = "thinking"].at = "thinking"
<1>1. 0 \in 0 .. MaxCalls
  BY GameAssumption
<1>2. <<>> \in Seq(Topics)
  OBVIOUS
<1>3. Resting \in AgentType
  BY <1>1, <1>2, Zenon DEF AgentType, Resting
<1>4. Resting.at = "idle"
  BY DEF Resting
<1>5. /\ [Resting EXCEPT !.at = "thinking"] \in AgentType
      /\ [Resting EXCEPT !.at = "thinking"].at = "thinking"
  BY <1>3 DEF AgentType
<1> QED
  BY <1>3, <1>4, <1>5

LEMMA TypeInit == Init => TypeInv
<1> SUFFICES ASSUME Init PROVE TypeInv
  OBVIOUS
<1> USE GameAssumption DEF Init
<1>1. PlayType
  <2>2. agent \in [Players -> AgentType]
    BY RestingType
  <2>3. left \in [Players -> Nat]
    OBVIOUS
  <2> QED
    BY <2>2, <2>3 DEF PlayType, DealType, LaneType
<1>2. BusType
  BY DEF BusType, HandlerType, Idle
<1>3. EndType
  <2>1. gate \in BOOLEAN /\ terminated \in BOOLEAN
    BY Zenon
  <2>2. timers \subseteq Timers /\ announced \in Seq(Reasons)
    OBVIOUS
  <2> QED
    BY <2>1, <2>2 DEF EndType
<1>4. Turns
  <2>1. lane = Free
    OBVIOUS
  <2>2. \A p \in Players : agent[p].at \in {"idle", "thinking"}
    BY RestingType
  <2> QED
    BY <2>1, <2>2 DEF Turns
<1>5. Causes
  BY DEF Causes, Idle, Handlers
<1> QED
  BY <1>1, <1>2, <1>3, <1>4, <1>5, TypeParts DEF TypeInv

\* The first call of an answer is taken out of it.
LEMMA AfterCallType ==
  ASSUME TypeInv, NEW p \in Players, NEW ok \in BOOLEAN, agent[p].at = "acting"
  PROVE  /\ AfterCall(p, ok) \in [Players -> AgentType]
         /\ \A q \in Players : AfterCall(p, ok)[q].at = "acting" =>
              /\ AfterCall(p, ok)[q].calls # <<>>
              /\ AfterCall(p, ok)[q].used + Len(AfterCall(p, ok)[q].calls) <= MaxCalls
<1>1. /\ agent \in [Players -> AgentType]
      /\ agent[p].calls # <<>> /\ agent[p].used + Len(agent[p].calls) <= MaxCalls
  BY TypeParts DEF TypeInv, PlayType, Turns
<1>2. /\ agent[p].calls \in Seq(Topics) /\ agent[p].used \in Nat
      /\ agent[p].moved \in BOOLEAN /\ MaxCalls \in Nat
  BY <1>1, GameAssumption DEF AgentType
<1>3. /\ Tail(agent[p].calls) \in Seq(Topics)
      /\ Len(Tail(agent[p].calls)) = Len(agent[p].calls) - 1
      /\ Len(agent[p].calls) \in Nat \ {0}
  BY <1>1, <1>2, HeadTailProperties
<1>4. /\ agent[p].used + 1 \in 0 .. MaxCalls
      /\ agent[p].used + 1 + Len(Tail(agent[p].calls)) <= MaxCalls
  BY <1>1, <1>2, <1>3
<1> DEFINE next == [at |-> IF Tail(agent[p].calls) # <<>> THEN "acting"
                           ELSE IF (agent[p].moved \/ ok) \/ agent[p].used + 1 >= MaxCalls
                                  THEN "closing" ELSE "thinking",
                    calls |-> Tail(agent[p].calls), used |-> agent[p].used + 1,
                    moved |-> agent[p].moved \/ ok]
<1>5. next \in AgentType
  BY <1>2, <1>3, <1>4, Zenon DEF AgentType
<1>6. next.at = "acting" => next.calls # <<>> /\ next.used + Len(next.calls) <= MaxCalls
  BY <1>4
<1>7. AfterCall(p, ok) = [agent EXCEPT ![p] = next]
  BY DEF AfterCall
<1> HIDE DEF next
<1> QED
  BY <1>1, <1>5, <1>6, <1>7, TypeParts DEF TypeInv, Turns

\* The moves of the players and the pipeline.
LEMMA TypePlayer ==
  ASSUME TypeInv, NEW p \in Players, Player(p)
  PROVE  TypeInv'
<1> DEFINE Kept == UNCHANGED <<mode, left, deal, late, queue, spent, timeouts, handler,
                               counter, eliminated, ending, stopping>>
<1>1. SUFFICES ASSUME Kept,
                      lane' \in LaneType /\ agent' \in [Players -> AgentType] /\ moves' \in Nat,
                      Turns'
               PROVE  TypeInv'
  <2>1. Kept
    BY DEF Player, Decline, Answer, NextCall, Finish, Enters
  <2>2. lane \in LaneType /\ agent \in [Players -> AgentType] /\ moves \in Nat
    BY TypeParts DEF TypeInv, PlayType
  <2>3. Turns
    BY DEF TypeInv
  <2>4. CASE Decline(p)
    BY <1>1, <2>1, <2>2, <2>3, <2>4 DEF Decline, AgentType, Turns
  <2>5. CASE Finish(p)
    <3>1. Resting \in AgentType
      BY GameAssumption DEF AgentType, Resting
    <3> QED
      BY <1>1, <2>1, <2>2, <2>3, <2>5, <3>1 DEF Finish, Turns, Resting
  <2>6. ASSUME NEW move \in Topics, Enters(p, move) PROVE lane' \in LaneType /\ moves' \in Nat
    BY <2>2, <2>6 DEF Enters, LaneType
  <2>7. CASE Answer(p)
    <3>1. PICK calls \in Responses :
            /\ Len(calls) \in 1 .. (MaxCalls - agent[p].used)
            /\ agent' = [agent EXCEPT ![p].at = "acting", ![p].calls = calls]
            /\ Enters(p, Head(calls))
      BY <2>7 DEF Answer
    <3>2. calls \in Seq(Topics) /\ calls # <<>> /\ agent[p].used \in Nat /\ MaxCalls \in Nat
      BY <2>2, <3>1, GameAssumption DEF AgentType
    <3>3. Head(calls) \in Topics
      BY <3>2, HeadTailProperties
    <3>4. /\ agent' \in [Players -> AgentType]
          /\ agent'[p].at = "acting" /\ agent'[p].calls = calls /\ agent'[p].used = agent[p].used
          /\ \A q \in Players \ {p} : agent'[q] = agent[q]
      BY <2>2, <3>1, <3>2 DEF AgentType
    <3>5. agent[p].used + Len(calls) <= MaxCalls
      BY <3>1, <3>2
    <3>6. lane'.who = p
      BY <3>1 DEF Enters
    <3>7. Turns'
      BY <2>3, <3>2, <3>4, <3>5, <3>6 DEF Turns
    <3> QED
      BY <1>1, <2>1, <2>6, <3>1, <3>3, <3>4, <3>7
  <2>8. CASE NextCall(p)
    <3>1. agent[p].calls \in Seq(Topics) /\ agent[p].calls # <<>>
      BY <2>2, <2>3, <2>8 DEF NextCall, Turns, AgentType
    <3>2. Head(agent[p].calls) \in Topics
      BY <3>1, HeadTailProperties
    <3>3. Turns'
      BY <2>3, <2>8 DEF NextCall, Enters, Turns
    <3> QED
      BY <1>1, <2>1, <2>2, <2>6, <2>8, <3>2, <3>3 DEF NextCall
  <2> QED
    BY <2>4, <2>5, <2>7, <2>8 DEF Player
<1>2. Causes'
  BY <1>1 DEF TypeInv, Causes
<1>3. mode' \in Modes /\ PlayType' /\ BusType' /\ EndType'
  BY <1>1, TypeParts DEF TypeInv, PlayType, BusType, EndType, ending
<1> QED
  BY <1>1, <1>2, <1>3, TypeParts DEF TypeInv

\* A refused move is published, its player goes on to the next call.
LEMMA BlockedType ==
  ASSUME TypeInv, Blocked, lane # Free
  PROVE  /\ queue' \in [Topics -> Seq(Players)]
         /\ lane' \in LaneType
         /\ agent' \in [Players -> AgentType]
         /\ Turns'
<1>1. lane.who \in Players /\ lane.move \in Topics /\ agent[lane.who].at = "acting"
  BY TypeParts DEF TypeInv, PlayType, LaneType, Turns
<1>2. queue \in [Topics -> Seq(Players)]
  BY TypeParts DEF TypeInv, BusType
<1>3. queue' \in [Topics -> Seq(Players)]
  BY <1>1, <1>2 DEF Blocked
<1>4. lane' = Free /\ agent' = AfterCall(lane.who, FALSE)
  BY DEF Blocked
<1>5. lane' \in LaneType
  BY <1>4 DEF LaneType
<1> QED
  BY <1>1, <1>3, <1>4, <1>5, AfterCallType DEF Turns

LEMMA TypePipeline ==
  ASSUME TypeInv, Pipeline
  PROVE  TypeInv'
<1>1. SUFFICES ASSUME PlayType', BusType', EndType', Turns', UNCHANGED <<mode, handler>>
               PROVE  TypeInv'
  <2>1. PlayType /\ BusType /\ EndType /\ Turns
    BY TypeParts DEF TypeInv
  <2>2. lane # Free /\ lane.who \in Players /\ lane.move \in Topics
        /\ lane \in [at : {"policy", "budget", "commit", "publish"}, who : Players, move : Topics]
    <3>1. lane.at \in {"policy", "budget", "commit", "publish"}
      BY DEF Pipeline, Policy, Charge, Commit, Publish
    <3>2. lane # Free
      BY <3>1 DEF Free
    <3> QED
      BY <2>1, <3>2 DEF PlayType, LaneType
  <2>3. ASSUME NEW at \in {"policy", "budget", "commit", "publish"},
               lane' = [lane EXCEPT !.at = at], UNCHANGED agent
        PROVE  lane' \in LaneType /\ Turns'
    <3>1. lane' \in LaneType /\ lane'.who = lane.who
      BY <2>2, <2>3 DEF LaneType
    <3> QED
      BY <2>1, <2>2, <2>3, <3>1 DEF Turns
  <2>4. CASE Policy
    <3>1. UNCHANGED <<mode, left, deal, late, moves, spent, timeouts, handler,
                      counter, eliminated, ending, stopping>>
      BY <2>4 DEF Policy
    <3>2. lane' \in LaneType /\ Turns' /\ queue' \in [Topics -> Seq(Players)]
          /\ agent' \in [Players -> AgentType]
      BY <2>1, <2>2, <2>3, <2>4, BlockedType DEF Policy, PlayType, BusType
    <3> QED
      BY <1>1, <2>1, <3>1, <3>2 DEF PlayType, BusType, EndType, ending
  <2>5. CASE Charge
    <3>1. UNCHANGED <<mode, deal, late, moves, timeouts, handler,
                      counter, eliminated, ending, stopping>>
      BY <2>5 DEF Charge
    <3>2. lane' \in LaneType /\ Turns' /\ queue' \in [Topics -> Seq(Players)]
          /\ agent' \in [Players -> AgentType]
      BY <2>1, <2>2, <2>3, <2>5, BlockedType DEF Charge, PlayType, BusType
    <3>3. left' \in [Players -> Nat] /\ spent' \in Seq(Players)
      <4>1. left \in [Players -> Nat] /\ spent \in Seq(Players)
            /\ Append(spent, lane.who) \in Seq(Players)
        BY <2>1, <2>2 DEF PlayType, BusType
      <4>2. left' \in [Players -> Nat]
        BY <2>2, <2>5, <4>1 DEF Charge
      <4>3. spent' \in {spent, Append(spent, lane.who)}
        BY <2>5 DEF Charge
      <4> QED
        BY <4>1, <4>2, <4>3
    <3> QED
      BY <1>1, <2>1, <3>1, <3>2, <3>3 DEF PlayType, BusType, EndType, ending
  <2>6. CASE Commit
    <3>1. UNCHANGED <<mode, agent, left, moves, queue, spent, timeouts, handler,
                      counter, eliminated, ending, stopping>>
      BY <2>6 DEF Commit
    <3>2. deal' \in DealType /\ late' \in Nat
      BY <2>1, <2>2, <2>6 DEF Commit, PlayType, DealType, Negotiated
    <3>3. lane' \in LaneType /\ Turns'
      BY <2>3, <2>6 DEF Commit
    <3> QED
      BY <1>1, <2>1, <3>1, <3>2, <3>3 DEF PlayType, BusType, EndType, ending
  <2>7. CASE Publish
    <3>1. UNCHANGED <<mode, left, deal, late, moves, spent, timeouts, handler,
                      counter, eliminated, ending, stopping>>
      BY <2>7 DEF Publish
    <3>2. lane' \in LaneType /\ queue' \in [Topics -> Seq(Players)]
      BY <2>1, <2>2, <2>7 DEF Publish, LaneType, BusType
    <3>3. agent[lane.who].at = "acting" /\ agent' = AfterCall(lane.who, TRUE) /\ lane' = Free
      BY <2>1, <2>2, <2>7 DEF Publish, Turns
    <3>4. agent' \in [Players -> AgentType] /\ Turns'
      BY <2>2, <3>3, AfterCallType DEF Turns
    <3> QED
      BY <1>1, <2>1, <3>1, <3>2, <3>4 DEF PlayType, BusType, EndType, ending
  <2> QED
    BY <2>4, <2>5, <2>6, <2>7 DEF Pipeline
<1>2. Causes'
  BY <1>1 DEF TypeInv, Causes
<1> QED
  BY <1>1, <1>2, TypeParts DEF TypeInv

\* A step of one handler keeps the types of all, if it keeps its own.
Fits(r, h) ==
  /\ r \in HandlerType
  /\ r.at \in {"settling", "ending", "told"} => r.why # None
  /\ h = "timeout" /\ r.at \in {"ask", "closed?", "rejected?"} => r.why # None

LEMMA HandlerFits ==
  ASSUME TypeInv, NEW h \in Handlers PROVE Fits(handler[h], h)
  BY TypeParts DEF TypeInv, BusType, Causes, Fits

LEMMA HandlerStep ==
  ASSUME TypeInv, NEW h \in Handlers, NEW r, Fits(r, h), handler' = [handler EXCEPT ![h] = r]
  PROVE  handler' \in [Handlers -> HandlerType] /\ Causes'
<1>1. handler \in [Handlers -> HandlerType] /\ "timeout" \in Handlers
  BY TypeParts DEF TypeInv, BusType, Handlers
<1>2. /\ handler' \in [Handlers -> HandlerType]
      /\ handler'[h] = r
      /\ \A k \in Handlers \ {h} : handler'[k] = handler[k]
  BY <1>1 DEF Fits
<1>3. \A k \in Handlers : Fits(handler'[k], k)
  BY <1>2, HandlerFits
<1> QED
  BY <1>1, <1>2, <1>3 DEF Causes, Fits

LEMMA IdleFits == \A h \in Handlers : Fits(Idle, h)
<1>1. Idle \in HandlerType
  BY DEF HandlerType, Idle
<1>2. Idle.at = "idle"
  BY DEF Idle
<1> QED
  BY <1>1, <1>2 DEF Fits

LEMMA TypeOnMove ==
  ASSUME TypeInv, NEW t \in Topics, OnMove(t)
  PROVE  TypeInv'
<1>1. PlayType /\ BusType /\ EndType /\ Turns /\ mode \in Modes
  BY TypeParts DEF TypeInv
<1>2. t \in Handlers /\ t # "timeout"
  BY DEF Handlers, Topics
<1>3. Fits(handler[t], t) /\ handler \in [Handlers -> HandlerType]
  BY <1>1, <1>2, HandlerFits DEF BusType
<1>4. CASE Hear(t)
  <2>1. UNCHANGED <<mode, play, spent, timeouts, eliminated, ending, stopping>>
    BY <1>4 DEF Hear
  <2>2. queue[t] \in Seq(Players) /\ queue[t] # <<>>
    BY <1>1, <1>4 DEF BusType, Hear
  <2>3. queue' \in [Topics -> Seq(Players)] /\ Head(queue[t]) \in Players
    BY <1>1, <1>4, <2>2, HeadTailProperties DEF BusType, Hear
  <2>4. counter' \in Nat
    BY <1>1, <1>4 DEF BusType, Hear
  <2>5. handler' \in [Handlers -> HandlerType] /\ Causes'
    <3> DEFINE scoring == [Idle EXCEPT !.at = "scoring", !.who = Head(queue[t]), !.number = counter + 1]
               asking == [Idle EXCEPT !.at = "ask", !.who = Head(queue[t])]
    <3>1. Fits(scoring, t) /\ Fits(asking, t)
      <4>1. Idle \in HandlerType /\ counter + 1 \in Nat
        BY <1>1, <1>2, IdleFits DEF Fits, BusType
      <4>2. scoring \in HandlerType /\ scoring.at = "scoring"
        BY <2>3, <4>1 DEF HandlerType
      <4>3. asking \in HandlerType /\ asking.at = "ask"
        BY <2>3, <4>1 DEF HandlerType
      <4> QED
        BY <1>2, <4>2, <4>3 DEF Fits
    <3>2. \/ UNCHANGED handler
          \/ handler' = [handler EXCEPT ![t] = scoring]
          \/ handler' = [handler EXCEPT ![t] = asking]
      BY <1>4 DEF Hear
    <3> HIDE DEF scoring, asking
    <3> QED
      BY <1>1, <1>2, <3>1, <3>2, HandlerStep DEF TypeInv, Causes, BusType
  <2> QED
    BY <1>1, <2>1, <2>3, <2>4, <2>5, TypeParts
    DEF TypeInv, PlayType, BusType, EndType, Turns, play, ending
<1>5. CASE Scored(t)
  <2>1. UNCHANGED <<mode, play, queue, spent, timeouts, eliminated, ending, stopping>>
    BY <1>5 DEF Scored
  <2>2. counter' \in Nat
    BY <1>3, <1>5 DEF Scored, Fits, HandlerType
  <2> DEFINE next == [handler[t] EXCEPT !.at = "ask", !.number = 0]
  <2>3. handler' = [handler EXCEPT ![t] = next] /\ Fits(next, t)
    BY <1>2, <1>3, <1>5 DEF Scored, Fits, HandlerType
  <2>4. handler' \in [Handlers -> HandlerType] /\ Causes'
    <3> HIDE DEF next
    <3> QED
      BY <1>2, <2>3, HandlerStep
  <2> QED
    BY <1>1, <2>1, <2>2, <2>4, TypeParts
    DEF TypeInv, PlayType, BusType, EndType, Turns, play, ending
<1>6. CASE Pass(t)
  <2>1. UNCHANGED <<mode, play, queue, spent, timeouts, counter, eliminated, ending, stopping>>
    BY <1>6 DEF Pass
  <2>2. PICK next \in NextPlayer(handler[t].who) :
          handler' = [handler EXCEPT ![t] =
            IF next = Nobody THEN Idle ELSE [Idle EXCEPT !.at = "summary", !.who = next]]
    BY <1>6 DEF Pass
  <2>3. next \in Players \union {Nobody}
    BY GameAssumption DEF NextPlayer, Others
  <2> DEFINE r == IF next = Nobody THEN Idle ELSE [Idle EXCEPT !.at = "summary", !.who = next]
  <2>4. Fits(r, t)
    BY <1>2, <2>3, IdleFits DEF Fits, HandlerType
  <2>5. handler' \in [Handlers -> HandlerType] /\ Causes'
    <3>1. handler' = [handler EXCEPT ![t] = r]
      BY <2>2
    <3> HIDE DEF r
    <3> QED
      BY <1>2, <2>4, <3>1, HandlerStep
  <2> QED
    BY <1>1, <2>1, <2>5, TypeParts
    DEF TypeInv, PlayType, BusType, EndType, Turns, play, ending
<1>7. CASE Activate(t)
  <2>1. UNCHANGED <<mode, lane, left, deal, late, moves, queue, spent, timeouts, counter,
                    eliminated, ending, stopping>>
    BY <1>7 DEF Activate
  <2>2. handler' \in [Handlers -> HandlerType] /\ Causes'
    BY <1>2, <1>7, IdleFits, HandlerStep DEF Activate, Returns
  <2>3. agent' \in [Players -> AgentType] /\ Turns'
    <3>1. agent' = Launch(agent, handler[t].who)
      BY <1>7 DEF Activate
    <3>2. CASE handler[t].who \in Players /\ agent[handler[t].who].at = "idle"
      BY <1>1, <2>1, <3>1, <3>2, RestingType DEF Launch, PlayType, Turns
    <3>3. CASE ~(handler[t].who \in Players /\ agent[handler[t].who].at = "idle")
      BY <1>1, <2>1, <3>1, <3>3 DEF Launch, PlayType, Turns
    <3> QED
      BY <3>2, <3>3
  <2> QED
    BY <1>1, <2>1, <2>2, <2>3, TypeParts
    DEF TypeInv, PlayType, BusType, EndType, play, ending
<1> QED
  BY <1>4, <1>5, <1>6, <1>7 DEF OnMove

\* The timeouts and the exhausted budgets.
LEMMA TypeOnTimeout ==
  ASSUME TypeInv, OnTimeout \/ HearExhausted
  PROVE  TypeInv'
<1>1. PlayType /\ BusType /\ EndType /\ Turns /\ Causes /\ mode \in Modes
  BY TypeParts DEF TypeInv
<1>2. "timeout" \in Handlers
  BY DEF Handlers
<1>3. Fits(handler["timeout"], "timeout") /\ handler \in [Handlers -> HandlerType]
  BY <1>1, <1>2, HandlerFits DEF BusType
<1>4. CASE HearTimeout
  <2>1. UNCHANGED <<mode, play, queue, spent, counter, eliminated, ending, stopping>>
    BY <1>4 DEF HearTimeout
  <2>2. timeouts \in Seq(Timeouts) /\ timeouts # <<>> /\ timeouts' = Tail(timeouts)
    BY <1>1, <1>4 DEF HearTimeout, BusType
  <2>3. Head(timeouts) \in Timeouts /\ timeouts' \in Seq(Timeouts)
    BY <2>2, HeadTailProperties
  <2> DEFINE r == [Idle EXCEPT !.at = "ask", !.why = Head(timeouts)]
  <2>4. Fits(r, "timeout")
    <3>1. Head(timeouts) \in Reasons /\ Head(timeouts) # None
      BY <2>3, GameAssumption DEF Reasons, Timeouts, None
    <3> QED
      BY <1>2, <3>1, IdleFits DEF Fits, HandlerType
  <2>5. handler' \in [Handlers -> HandlerType] /\ Causes'
    <3>1. handler' = [handler EXCEPT !["timeout"] = r] \/ UNCHANGED handler
      BY <1>4 DEF HearTimeout
    <3> HIDE DEF r
    <3> QED
      BY <1>1, <1>2, <2>4, <3>1, HandlerStep DEF BusType, Causes
  <2> QED
    BY <1>1, <2>1, <2>3, <2>5, TypeParts
    DEF TypeInv, PlayType, BusType, EndType, Turns, play, ending
<1>5. CASE HearExhausted
  <2>1. UNCHANGED <<mode, play, queue, handler, counter, ending, stopping>>
    BY <1>5 DEF HearExhausted
  <2>2. spent \in Seq(Players) /\ spent # <<>> /\ spent' = Tail(spent)
    BY <1>1, <1>5 DEF HearExhausted, BusType
  <2>3. Head(spent) \in Players /\ spent' \in Seq(Players)
    BY <2>2, HeadTailProperties
  <2>4. eliminated' \subseteq Players
    BY <1>1, <1>5, <2>3 DEF HearExhausted, BusType
  <2>5. timeouts' \in Seq(Timeouts)
    <3>1. timeouts \in Seq(Timeouts) /\ Append(timeouts, "all_budgets") \in Seq(Timeouts)
      BY <1>1 DEF BusType, Timeouts
    <3>2. timeouts' = timeouts \/ timeouts' = Append(timeouts, "all_budgets")
      BY <1>5 DEF HearExhausted
    <3> QED
      BY <3>1, <3>2
  <2> QED
    BY <1>1, <2>1, <2>3, <2>4, <2>5, TypeParts
    DEF TypeInv, PlayType, BusType, EndType, Turns, Causes, play, ending
<1>6. CASE TimeOut
  <2>1. UNCHANGED <<mode, play, queue, spent, timeouts, counter, eliminated, stopping, gate,
                    announced, result>>
    BY <1>6 DEF TimeOut, ending
  <2>2. timers' \subseteq Timers /\ terminated' \in BOOLEAN
    BY <1>1, <1>6, Zenon DEF TimeOut, EndType, ending
  <2> DEFINE r == [handler["timeout"] EXCEPT !.at = "settling"]
  <2>3. Fits(r, "timeout")
    BY <1>2, <1>3, <1>6 DEF Fits, HandlerType, TimeOut, Undecided
  <2>4. handler' \in [Handlers -> HandlerType] /\ Causes'
    <3>1. handler' = [handler EXCEPT !["timeout"] = r]
          \/ handler' = [handler EXCEPT !["timeout"] = Idle]
      BY <1>3, <1>6 DEF TimeOut, Moves, Returns
    <3> HIDE DEF r
    <3> QED
      BY <1>2, <2>3, <3>1, IdleFits, HandlerStep
  <2> QED
    BY <1>1, <2>1, <2>2, <2>4, TypeParts
    DEF TypeInv, PlayType, BusType, EndType, Turns, play
<1>7. CASE Settle
  <2>1. UNCHANGED <<mode, play, queue, spent, timeouts, counter, eliminated, stopping,
                    terminated, timers, announced, result>> /\ gate' = FALSE
    BY <1>7 DEF Settle
  <2> DEFINE r == [handler["timeout"] EXCEPT !.at = "ending"]
  <2>2. Fits(r, "timeout")
    BY <1>2, <1>3, <1>7 DEF Fits, HandlerType, Settle
  <2>3. handler' \in [Handlers -> HandlerType] /\ Causes'
    <3>1. handler' = [handler EXCEPT !["timeout"] = r]
      BY <1>3, <1>7 DEF Settle, Moves
    <3> HIDE DEF r
    <3> QED
      BY <1>2, <2>2, <3>1, HandlerStep
  <2> QED
    BY <1>1, <2>1, <2>3, TypeParts
    DEF TypeInv, PlayType, BusType, EndType, Turns, play
<1> QED
  BY <1>4, <1>5, <1>6, <1>7 DEF OnTimeout

LEMMA WonIsReason ==
  ASSUME NEW h \in Handlers, Won(h) # None
  PROVE  Won(h) \in Natural
  BY DEF Won, Natural

\* The win conditions and what follows when one is met.
LEMMA TypeClosing ==
  ASSUME TypeInv, NEW h \in Handlers, Closing(h)
  PROVE  TypeInv'
<1>1. PlayType /\ BusType /\ EndType /\ Turns /\ Causes /\ mode \in Modes
  BY TypeParts DEF TypeInv
<1>2. Fits(handler[h], h) /\ handler \in [Handlers -> HandlerType]
  BY <1>1, HandlerFits DEF BusType
<1>3. UNCHANGED <<mode, play, queue, spent, timeouts, counter, eliminated, stopping>>
  BY DEF Closing, Ask, AskAgain, Terminate, Announce, Deliver
<1>4. SUFFICES ASSUME NEW r, Fits(r, h), handler' = [handler EXCEPT ![h] = r], EndType'
               PROVE  TypeInv'
  <2>1. ASSUME NEW at \in {"closed?", "rejected?"}, NEW met \in BOOLEAN,
               handler[h].at \in {"ask", "closed?"},
               handler' = [handler EXCEPT ![h].at = at, ![h].met = met]
        PROVE  \E r : Fits(r, h) /\ handler' = [handler EXCEPT ![h] = r]
    <3> DEFINE r == [handler[h] EXCEPT !.at = at, !.met = met]
    <3>1. Fits(r, h)
      BY <1>2, <2>1 DEF Fits, HandlerType
    <3>2. handler' = [handler EXCEPT ![h] = r]
      BY <1>2, <2>1
    <3> QED
      BY <3>1, <3>2
  <2>2. \A status : Query(status) \subseteq BOOLEAN
    BY DEF Query
  <2>3. CASE Ask(h)
    <3>1. EndType'
      BY <1>1, <2>3 DEF Ask, EndType, ending
    <3> QED
      BY <1>4, <2>1, <2>2, <2>3, <3>1 DEF Ask
  <2>4. CASE AskAgain(h)
    <3>1. EndType'
      BY <1>1, <2>4 DEF AskAgain, EndType, ending
    <3> QED
      BY <1>4, <2>1, <2>2, <2>4, <3>1 DEF AskAgain
  <2>5. CASE Terminate(h)
    <3> DEFINE r == [Idle EXCEPT !.at = "ending", !.why = Won(h)]
    <3>1. Won(h) \in Reasons /\ Won(h) # None
      BY <2>5, WonIsReason DEF Terminate, Reasons
    <3>2. Fits(r, h)
      BY <3>1, IdleFits DEF Fits, HandlerType
    <3>3. handler' = [handler EXCEPT ![h] = r] \/ handler' = [handler EXCEPT ![h] = Idle]
      BY <2>5 DEF Terminate, Returns
    <3>4. EndType'
      <4>1. timers' \subseteq Timers /\ UNCHANGED <<announced, result, stopping>>
        BY <1>1, <2>5 DEF Terminate, EndType, ending
      <4>2. terminated' \in BOOLEAN /\ gate' \in BOOLEAN
        BY <1>1, <2>5, Zenon DEF Terminate, EndType, ending
      <4> QED
        BY <1>1, <4>1, <4>2 DEF EndType
    <3> HIDE DEF r
    <3> QED
      BY <1>4, <3>2, <3>3, <3>4, IdleFits
  <2>6. CASE Announce(h)
    <3> DEFINE r == [handler[h] EXCEPT !.at = "told"]
    <3>1. Fits(r, h)
      BY <1>2, <2>6 DEF Fits, HandlerType, Announce
    <3>2. handler' = [handler EXCEPT ![h] = r]
      BY <1>2, <2>6 DEF Announce, Moves
    <3>3. handler[h].why \in Reasons
      BY <1>2, <2>6 DEF Fits, HandlerType, Announce
    <3>4. EndType'
      BY <1>1, <1>3, <2>6, <3>3 DEF Announce, EndType
    <3> HIDE DEF r
    <3> QED
      BY <1>4, <3>1, <3>2, <3>4
  <2>7. CASE Deliver(h)
    <3>1. handler[h].why \in Reasons
      BY <1>2, <2>7 DEF Fits, HandlerType, Deliver
    <3>2. EndType'
      BY <1>1, <1>3, <2>7, <3>1 DEF Deliver, EndType
    <3> QED
      BY <1>4, <2>7, <3>2, IdleFits DEF Deliver, Returns
  <2> QED
    BY <2>3, <2>4, <2>5, <2>6, <2>7 DEF Closing
<1>5. handler' \in [Handlers -> HandlerType] /\ Causes'
  BY <1>4, HandlerStep
<1> QED
  BY <1>1, <1>3, <1>4, <1>5, TypeParts DEF TypeInv, PlayType, BusType, Turns, play

\* Timers, and the stop of the engine.
LEMMA TypeTimers ==
  ASSUME TypeInv, (\E w \in Timers : Fire(w)) \/ Stop \/ StopDone
  PROVE  TypeInv'
<1>1. PlayType /\ BusType /\ EndType /\ Turns /\ Causes /\ mode \in Modes
  BY TypeParts DEF TypeInv
<1>2. UNCHANGED <<mode, queue, spent, handler, counter, eliminated>>
  BY DEF Fire, Stop, StopDone
<1>3. CASE \E w \in Timers : Fire(w)
  <2>1. PICK w \in Timers : Fire(w)
    BY <1>3
  <2>2. w \in Timeouts
    BY DEF Timeouts
  <2>3. timeouts' \in Seq(Timeouts)
    BY <1>1, <2>1, <2>2 DEF Fire, BusType
  <2>4. EndType'
    BY <1>1, <2>1 DEF Fire, EndType
  <2>5. UNCHANGED play
    BY <2>1 DEF Fire
  <2> QED
    BY <1>1, <1>2, <2>3, <2>4, <2>5, TypeParts
    DEF TypeInv, PlayType, BusType, Turns, Causes, play
<1>4. CASE Stop
  <2>1. /\ agent' = [p \in Players |-> Resting] /\ lane' = Free
        /\ UNCHANGED <<gate, announced, result, left, deal, late, moves, timeouts>>
        /\ timers' = {} /\ terminated' = TRUE /\ stopping' = "draining"
    BY <1>4 DEF Stop
  <2>2. PlayType'
    BY <1>1, <2>1, RestingType DEF PlayType, LaneType
  <2>3. Turns'
    BY <2>1, RestingType DEF Turns
  <2>4. EndType'
    <3>1. terminated' \in BOOLEAN
      BY <2>1, Zenon
    <3> QED
      BY <1>1, <2>1, <3>1 DEF EndType
  <2> QED
    BY <1>1, <1>2, <2>1, <2>2, <2>3, <2>4, TypeParts DEF TypeInv, BusType, Causes
<1>5. CASE StopDone
  <2>1. EndType'
    BY <1>1, <1>5 DEF StopDone, EndType
  <2> QED
    BY <1>1, <1>2, <1>5, <2>1, TypeParts
    DEF StopDone, TypeInv, PlayType, BusType, Turns, Causes, play
<1> QED
  BY <1>3, <1>4, <1>5

LEMMA TypeNext == TypeInv /\ [Next]_vars => TypeInv'
<1> SUFFICES ASSUME TypeInv, [Next]_vars PROVE TypeInv'
  OBVIOUS
<1>1. CASE Next
  BY <1>1, TypePlayer, TypePipeline, TypeOnMove, TypeOnTimeout, TypeClosing, TypeTimers DEF Next
<1>2. CASE UNCHANGED vars
  BY <1>2, TypeParts
  DEF vars, play, ending, TypeInv, PlayType, BusType, EndType, Turns, Causes
<1> QED
  BY <1>1, <1>2

\* Every variable keeps its type: budgets never fall below zero, an activation
\* makes no more calls than it may, every announcement has a reason.
THEOREM GameTypeCorrect == Spec => []TypeOK
<1>1. TypeInv => TypeOK
  BY DEF TypeInv
<1> QED
  BY TypeInit, TypeNext, <1>1, PTL DEF Spec

-----------------------------------------------------------------------------
(* The end of the game: one handler ends it, and only once.                *)

Ends(h) == handler[h].at \in {"settling", "ending", "told"}

\* Whoever ends the game has marked it as terminated before anything was said.
Over ==
  /\ ~gate => terminated
  /\ stopping # "no" => terminated
  /\ ~terminated => announced = <<>> /\ result = None
  /\ result \in Reasons => ~gate /\ announced = <<result>>
  /\ \A h, k \in Handlers : Ends(h) /\ Ends(k) => h = k
  /\ \A h \in Handlers : Ends(h) => terminated /\ result \in {None, "stopped"}
  /\ \A h \in Handlers : handler[h].at \in {"ending", "told"} => ~gate
  /\ \A h \in Handlers : handler[h].at \in {"settling", "ending"} => announced = <<>>
  /\ \A h \in Handlers : handler[h].at = "told" => announced = <<handler[h].why>>

OverInv == TypeInv /\ Over

LEMMA NoReason == None \notin Reasons /\ "stopped" \notin Reasons
  BY GameAssumption DEF None, Reasons, Natural, Timeouts

LEMMA OverInit == Init => OverInv
<1> SUFFICES ASSUME Init PROVE Over
  BY TypeInit DEF OverInv
<1>1. \A h \in Handlers : handler[h].at = "idle"
  BY DEF Init, Idle
<1> QED
  BY <1>1, NoReason DEF Init, Over, Ends

\* Nobody begins to end the game, and nothing is said.
LEMMA OverQuiet ==
  ASSUME Over, UNCHANGED <<ending, stopping>> \/ UNCHANGED <<gate, terminated, announced, result, stopping>>,
         \A h \in Handlers : Ends(h)' => handler'[h] = handler[h]
  PROVE  Over'
<1>1. UNCHANGED <<gate, terminated, announced, result, stopping>>
  BY DEF ending
<1>2. \A h \in Handlers : Ends(h)' => Ends(h)
  BY DEF Ends
<1> QED
  BY <1>1, <1>2 DEF Over, Ends

LEMMA OverOnMove ==
  ASSUME OverInv, NEW t \in Topics, OnMove(t)
  PROVE  Over'
<1>1. t \in Handlers /\ handler \in [Handlers -> HandlerType]
  BY TypeParts DEF OverInv, TypeInv, BusType, Handlers
<1>2. UNCHANGED <<ending, stopping>>
  BY DEF OnMove, Hear, Scored, Pass, Activate
<1>3. ~Ends(t)'
  <2>1. CASE Hear(t)
    BY <1>1, <2>1 DEF Hear, Ends, Idle
  <2>2. CASE Scored(t)
    BY <1>1, <2>2 DEF Scored, Ends, HandlerType
  <2>3. CASE Pass(t)
    <3>1. handler'[t].at \in {"idle", "summary"}
      BY <1>1, <2>3 DEF Pass, Idle
    <3> QED
      BY <3>1 DEF Ends
  <2>4. CASE Activate(t)
    BY <1>1, <2>4 DEF Activate, Returns, Ends, Idle
  <2> QED
    BY <2>1, <2>2, <2>3, <2>4 DEF OnMove
<1>4. \A h \in Handlers \ {t} : handler'[h] = handler[h]
  BY <1>1 DEF OnMove, Hear, Scored, Pass, Activate, Returns
<1> QED
  BY <1>2, <1>3, <1>4, OverQuiet DEF OverInv

LEMMA OverOnTimeout ==
  ASSUME OverInv, OnTimeout
  PROVE  Over'
<1> DEFINE T == "timeout"
<1>1. T \in Handlers /\ handler \in [Handlers -> HandlerType]
  BY TypeParts DEF OverInv, TypeInv, BusType, Handlers
<1>2. \A h \in Handlers \ {T} : handler'[h] = handler[h]
  BY <1>1 DEF OnTimeout, HearTimeout, TimeOut, Settle, Returns, Moves
<1>3. CASE HearTimeout
  <2>1. handler'[T] = handler[T] \/ handler'[T].at = "ask"
    BY <1>1, <1>3 DEF HearTimeout, Idle
  <2>2. \A h \in Handlers : Ends(h)' => handler'[h] = handler[h]
    BY <1>2, <2>1 DEF Ends
  <2> QED
    BY <1>3, <2>2, OverQuiet DEF OverInv, HearTimeout
<1>4. CASE TimeOut /\ terminated
  <2>1. handler'[T].at = "idle"
    BY <1>1, <1>4 DEF TimeOut, Returns, Idle
  <2>2. \A h \in Handlers : Ends(h)' => handler'[h] = handler[h]
    BY <1>2, <2>1 DEF Ends
  <2> QED
    BY <1>4, <2>2, OverQuiet DEF OverInv, TimeOut
<1>5. CASE TimeOut /\ ~terminated
  <2>1. handler'[T].at = "settling" /\ terminated' = TRUE
        /\ UNCHANGED <<gate, announced, result, stopping>>
    BY <1>1, <1>5 DEF TimeOut, Moves, HandlerType
  <2>2. \A h \in Handlers : ~Ends(h)
    BY <1>5 DEF OverInv, Over
  <2>3. announced = <<>> /\ result = None /\ result \notin Reasons
    BY <1>5, NoReason DEF OverInv, Over
  <2>4. \A h \in Handlers : Ends(h)' => h = T
    BY <1>2, <2>2 DEF Ends
  <2>5. \A h \in Handlers : handler'[h].at \notin {"ending", "told"}
    BY <1>2, <2>1, <2>2 DEF Ends
  <2> QED
    BY <2>1, <2>3, <2>4, <2>5 DEF Over
<1>6. CASE Settle
  <2>1. handler'[T].at = "ending" /\ gate' = FALSE
        /\ UNCHANGED <<terminated, announced, result, stopping>>
    BY <1>1, <1>6 DEF Settle, Moves, HandlerType
  <2>2. Ends(T) /\ handler[T].at = "settling"
    BY <1>6 DEF Settle, Ends
  <2>3. \A h \in Handlers : Ends(h)' => h = T
    BY <1>1, <1>2, <2>2 DEF Ends, OverInv, Over
  <2>4. announced = <<>> /\ terminated /\ result \in {None, "stopped"}
    BY <1>1, <2>2 DEF OverInv, Over
  <2>5. result \notin Reasons
    BY <2>4, NoReason
  <2> QED
    BY <1>1, <2>1, <2>3, <2>4, <2>5 DEF Over, Ends
<1> QED
  BY <1>3, <1>4, <1>5, <1>6 DEF OnTimeout

\* The handler that meets a condition takes over, announces it and delivers it.
LEMMA OverClosing ==
  ASSUME OverInv, NEW h \in Handlers, Closing(h)
  PROVE  Over'
<1>1. handler \in [Handlers -> HandlerType] /\ announced \in Seq(Reasons)
  BY TypeParts DEF OverInv, TypeInv, BusType, EndType
<1>2. \A k \in Handlers \ {h} : handler'[k] = handler[k]
  BY <1>1 DEF Closing, Ask, AskAgain, Terminate, Announce, Deliver, Returns, Moves
<1>3. ASSUME handler'[h].at \notin {"settling", "ending", "told"},
             UNCHANGED <<ending, stopping>>
      PROVE  Over'
  BY <1>2, <1>3, OverQuiet DEF OverInv, Ends
<1>4. CASE Ask(h) \/ AskAgain(h)
  <2>1. handler'[h].at \in {"closed?", "rejected?"}
    BY <1>1, <1>4 DEF Ask, AskAgain, HandlerType
  <2> QED
    BY <1>3, <1>4, <2>1 DEF Ask, AskAgain
<1>5. CASE Terminate(h) /\ terminated
  <2>1. handler'[h].at = "idle"
    BY <1>1, <1>5 DEF Terminate, Returns, Idle
  <2> QED
    BY <1>3, <1>5, <2>1 DEF Terminate
<1>6. CASE Terminate(h) /\ ~terminated
  <2>1. handler'[h].at = "ending" /\ terminated' = TRUE /\ gate' = FALSE
        /\ UNCHANGED <<announced, result, stopping>>
    BY <1>1, <1>6 DEF Terminate, Idle
  <2>2. \A k \in Handlers : ~Ends(k)
    BY <1>6 DEF OverInv, Over
  <2>3. announced = <<>> /\ result = None /\ result \notin Reasons
    BY <1>6, NoReason DEF OverInv, Over
  <2>4. \A k \in Handlers : Ends(k)' => k = h
    BY <1>2, <2>2 DEF Ends
  <2> QED
    BY <2>1, <2>3, <2>4 DEF Over, Ends
<1>7. CASE Announce(h)
  <2>1. handler'[h].at = "told" /\ handler'[h].why = handler[h].why
        /\ announced' = Append(announced, handler[h].why)
        /\ UNCHANGED <<gate, terminated, result, stopping>>
    BY <1>1, <1>7 DEF Announce, Moves, HandlerType
  <2>2. Ends(h) /\ handler[h].at = "ending"
    BY <1>7 DEF Announce, Ends
  <2>3. announced = <<>> /\ ~gate /\ terminated /\ result \in {None, "stopped"}
    BY <2>2 DEF OverInv, Over
  <2>4. announced' = <<handler[h].why>>
    BY <2>1, <2>3
  <2>5. \A k \in Handlers : Ends(k)' => k = h
    BY <1>2, <2>2 DEF Ends, OverInv, Over
  <2>6. result \notin Reasons
    BY <2>3, NoReason
  <2> QED
    BY <2>1, <2>3, <2>4, <2>5, <2>6 DEF Over, Ends, OverInv
<1>8. CASE Deliver(h)
  <2>1. handler'[h].at = "idle" /\ UNCHANGED <<gate, terminated, announced, stopping>>
        /\ result' = IF result = None THEN handler[h].why ELSE result
    BY <1>1, <1>8 DEF Deliver, Returns, Idle
  <2>2. Ends(h) /\ handler[h].at = "told"
    BY <1>8 DEF Deliver, Ends
  <2>3. announced = <<handler[h].why>> /\ ~gate /\ terminated
    BY <2>2 DEF OverInv, Over
  <2>4. \A k \in Handlers : ~Ends(k)'
    BY <1>2, <2>1, <2>2 DEF Ends, OverInv, Over
  <2>5. result' \in Reasons => announced = <<result'>>
    BY <2>1, <2>3 DEF OverInv, Over
  <2> QED
    BY <2>1, <2>3, <2>4, <2>5 DEF Over, Ends, OverInv
<1> QED
  BY <1>4, <1>5, <1>6, <1>7, <1>8 DEF Closing

LEMMA OverNext == OverInv /\ [Next]_vars => OverInv'
<1> SUFFICES ASSUME OverInv, [Next]_vars PROVE Over'
  BY TypeNext DEF OverInv
<1>1. ASSUME UNCHANGED handler, UNCHANGED <<gate, terminated, announced, result, stopping>>
      PROVE  Over'
  BY <1>1, OverQuiet DEF OverInv
<1>2. CASE \E p \in Players : Player(p)
  BY <1>1, <1>2 DEF Player, Decline, Answer, NextCall, Finish, Enters, ending
<1>3. CASE Pipeline
  BY <1>1, <1>3 DEF Pipeline, Policy, Charge, Commit, Publish, ending
<1>4. CASE HearExhausted
  BY <1>1, <1>4 DEF HearExhausted, ending
<1>5. CASE \E w \in Timers : Fire(w)
  BY <1>1, <1>5 DEF Fire
<1>6. CASE Stop
  <2>1. terminated' = TRUE /\ stopping' = "draining" /\ UNCHANGED <<gate, announced, result, handler>>
    BY <1>6 DEF Stop
  <2> QED
    BY <2>1 DEF OverInv, Over, Ends
<1>7. CASE StopDone
  <2>1. /\ stopping = "draining" /\ stopping' = "done"
        /\ result' = IF result = None THEN "stopped" ELSE result
        /\ UNCHANGED <<gate, terminated, announced, handler>>
    BY <1>7 DEF StopDone
  <2>2. terminated
    BY <2>1 DEF OverInv, Over
  <2> QED
    BY <2>1, <2>2, NoReason DEF OverInv, Over, Ends
<1>8. CASE UNCHANGED vars
  BY <1>1, <1>8 DEF vars, ending
<1> QED
  BY <1>2, <1>3, <1>4, <1>5, <1>6, <1>7, <1>8, OverOnMove, OverOnTimeout, OverClosing DEF Next

LEMMA OverAlways == Spec => []OverInv
  BY OverInit, OverNext, PTL DEF Spec

\* Nobody learns the result of a game whose gate is still open.
THEOREM GameGate == Spec => []GateFollowsGame
<1>1. OverInv => GateFollowsGame
  <2>1. EndType => result \in Reasons \union {None, "stopped"}
    BY DEF EndType
  <2> QED
    BY <2>1, TypeParts DEF OverInv, TypeInv, Over, GateFollowsGame
<1> QED
  BY OverAlways, <1>1, PTL

-----------------------------------------------------------------------------
(* Moves committed after the end.                                          *)

\* The one late move was past the gate when it closed; nothing follows it.
LateInv ==
  \/ late = 0
  \/ late = 1 /\ ~gate /\ lane.at \notin {"budget", "commit"}

LEMMA LateNext == LateInv /\ OverInv /\ [Next]_vars => LateInv'
<1> SUFFICES ASSUME LateInv, OverInv, [Next]_vars PROVE LateInv'
  OBVIOUS
<1>1. lane \in LaneType
  BY TypeParts DEF OverInv, TypeInv, PlayType
<1>2. ASSUME UNCHANGED <<lane, late>>, UNCHANGED gate \/ gate' = FALSE
      PROVE  LateInv'
  BY <1>2 DEF LateInv
<1>3. ASSUME UNCHANGED <<late, gate>>, lane'.at \notin {"budget", "commit"}
      PROVE  LateInv'
  BY <1>3 DEF LateInv
<1>4. CASE \E p \in Players : Player(p)
  <2>1. PICK p \in Players : Player(p)
    BY <1>4
  <2>2. UNCHANGED <<late, gate>> /\ (UNCHANGED lane \/ lane'.at = "policy")
    BY <2>1 DEF Player, Decline, Answer, NextCall, Finish, Enters, ending
  <2> QED
    BY <1>2, <1>3, <2>2
<1>5. CASE Policy
  <2>1. CASE gate
    <3>1. late = 0
      BY <2>1 DEF LateInv
    <3>2. UNCHANGED late
      BY <1>5 DEF Policy
    <3> QED
      BY <3>1, <3>2 DEF LateInv
  <2>2. CASE ~gate
    <3>1. UNCHANGED <<late, gate>>
      BY <1>5 DEF Policy, ending
    <3>2. lane' = Free
      BY <1>5, <2>2, Zenon DEF Policy, Blocked
    <3>3. Free.at = "free"
      BY DEF Free
    <3> QED
      BY <1>3, <3>1, <3>2, <3>3
  <2> QED
    BY <2>1, <2>2
<1>6. CASE Charge
  <2>1. UNCHANGED <<late, gate>> /\ lane.at = "budget"
    BY <1>6 DEF Charge, ending
  <2> QED
    BY <2>1 DEF LateInv
<1>7. CASE Commit
  <2>1. lane'.at = "publish" /\ lane.at = "commit" /\ UNCHANGED gate
        /\ late' = IF gate THEN late ELSE late + 1
    BY <1>1, <1>7 DEF Commit, LaneType, ending, Free
  <2> QED
    BY <2>1 DEF LateInv
<1>8. CASE Publish
  <2>1. UNCHANGED <<late, gate>> /\ lane'.at = "free"
    BY <1>8 DEF Publish, Free, ending
  <2> QED
    BY <1>3, <2>1
<1>9. CASE Stop
  BY <1>3, <1>9 DEF Stop, Free
<1>10. CASE \E t \in Topics : OnMove(t)
  BY <1>2, <1>10 DEF OnMove, Hear, Scored, Pass, Activate, play, ending
<1>11. CASE OnTimeout \/ HearExhausted
  BY <1>2, <1>11 DEF OnTimeout, HearTimeout, TimeOut, Settle, HearExhausted, play, ending
<1>12. CASE \E h \in Handlers : Closing(h)
  BY <1>2, <1>12 DEF Closing, Ask, AskAgain, Terminate, Announce, Deliver, play, ending
<1>13. CASE (\E w \in Timers : Fire(w)) \/ StopDone \/ UNCHANGED vars
  BY <1>2, <1>13 DEF Fire, StopDone, vars, play, ending
<1> QED
  BY <1>4, <1>5, <1>6, <1>7, <1>8, <1>9, <1>10, <1>11, <1>12, <1>13 DEF Next, Pipeline

\* However many players act at the same time, the pipeline lets at most one
\* move change the deal after the end.
THEOREM GameOneLateMove == Spec => []OneLateMove
<1>1. Init => LateInv
  BY DEF Init, LateInv
<1>2. LateInv => OneLateMove
  BY DEF LateInv, OneLateMove
<1> QED
  BY OverAlways, <1>1, LateNext, <1>2, PTL DEF Spec

-----------------------------------------------------------------------------
(* What the game promises, and the end that is always coming.              *)

\* The initial states are those of GameOutcome and every step is a step of it
\* or none: announced once, answered once, for the reason announced.
THEOREM GameImplementsOutcome == Spec => Outcome!Init /\ [][Outcome!Next]_Outcome!vars
<1>1. Init => Outcome!Init
  BY DEF Init, Outcome!Init
<1>2. ASSUME OverInv, [Next]_vars PROVE [Outcome!Next]_Outcome!vars
  <2>1. ASSUME UNCHANGED <<announced, result>> PROVE [Outcome!Next]_Outcome!vars
    BY <2>1 DEF Outcome!vars
  <2>2. handler \in [Handlers -> HandlerType] /\ result \in Reasons \union {None, "stopped"}
    BY <1>2, TypeParts DEF OverInv, TypeInv, BusType, EndType
  <2>3. ASSUME NEW h \in Handlers, Announce(h) PROVE Outcome!Announce
    <3>1. handler[h].at = "ending" /\ announced' = Append(announced, handler[h].why) /\ UNCHANGED result
      BY <2>3 DEF Announce
    <3>2. announced = <<>> /\ handler[h].why \in Reasons
      BY <1>2, <2>2, <3>1 DEF OverInv, TypeInv, Over, Causes, HandlerType
    <3>3. announced' = <<handler[h].why>>
      BY <3>1, <3>2
    <3> QED
      BY <3>1, <3>2, <3>3 DEF Outcome!Announce
  <2>4. ASSUME NEW h \in Handlers, Deliver(h) PROVE [Outcome!Next]_Outcome!vars
    <3>1. handler[h].at = "told" /\ UNCHANGED announced
          /\ result' = IF result = None THEN handler[h].why ELSE result
      BY <2>4 DEF Deliver
    <3>2. announced = <<handler[h].why>>
      BY <1>2, <3>1 DEF OverInv, Over
    <3>3. CASE result = None
      BY <3>1, <3>2, <3>3 DEF Outcome!Next, Outcome!Deliver
    <3>4. CASE result # None
      BY <2>1, <3>1, <3>4
    <3> QED
      BY <3>3, <3>4
  <2>5. ASSUME StopDone PROVE [Outcome!Next]_Outcome!vars
    <3>1. UNCHANGED announced /\ result' = IF result = None THEN "stopped" ELSE result
      BY <2>5 DEF StopDone
    <3>2. CASE result = None
      BY <3>1, <3>2 DEF Outcome!Next, Outcome!Stop
    <3>3. CASE result # None
      BY <2>1, <3>1, <3>3
    <3> QED
      BY <3>2, <3>3
  <2>6. CASE \E h \in Handlers : Closing(h)
    <3>1. PICK h \in Handlers : Closing(h)
      BY <2>6
    <3>2. CASE Ask(h) \/ AskAgain(h) \/ Terminate(h)
      BY <2>1, <3>2 DEF Ask, AskAgain, Terminate, ending
    <3> QED
      BY <2>3, <2>4, <3>1, <3>2 DEF Closing, Outcome!Next
  <2>7. CASE \E p \in Players : Player(p)
    BY <2>1, <2>7 DEF Player, Decline, Answer, NextCall, Finish, Enters, ending
  <2>8. CASE Pipeline \/ Stop
    BY <2>1, <2>8 DEF Pipeline, Policy, Charge, Commit, Publish, Stop, ending
  <2>9. CASE \E t \in Topics : OnMove(t)
    BY <2>1, <2>9 DEF OnMove, Hear, Scored, Pass, Activate, ending
  <2>10. CASE OnTimeout \/ HearExhausted \/ (\E w \in Timers : Fire(w)) \/ UNCHANGED vars
    BY <2>1, <2>10
    DEF OnTimeout, HearTimeout, TimeOut, Settle, HearExhausted, Fire, vars, ending
  <2> QED
    BY <1>2, <2>5, <2>6, <2>7, <2>8, <2>9, <2>10 DEF Next
<1> QED
  BY OverAlways, <1>1, <1>2, PTL DEF Spec

\* A game that is on always has something under way that ends it.
LEMMA TerminatedStays == [Next]_vars /\ terminated => terminated'
<1> SUFFICES ASSUME [Next]_vars, terminated PROVE UNCHANGED terminated \/ terminated' = TRUE
  OBVIOUS
<1>1. CASE (\E p \in Players : Player(p)) \/ UNCHANGED vars
  BY <1>1 DEF vars, Player, Decline, Answer, NextCall, Finish, Enters, ending
<1>2. CASE Pipeline
  BY <1>2 DEF Pipeline, Policy, Charge, Commit, Publish, ending
<1>3. CASE \E t \in Topics : OnMove(t)
  BY <1>3 DEF OnMove, Hear, Scored, Pass, Activate, ending
<1>4. CASE OnTimeout \/ HearExhausted
  BY <1>4 DEF OnTimeout, HearTimeout, TimeOut, Settle, HearExhausted, ending
<1>5. CASE \E h \in Handlers : Closing(h)
  BY <1>5 DEF Closing, Ask, AskAgain, Terminate, Announce, Deliver, ending
<1>6. CASE (\E w \in Timers : Fire(w)) \/ Stop \/ StopDone
  BY <1>6 DEF Fire, Stop, StopDone
<1> QED
  BY <1>1, <1>2, <1>3, <1>4, <1>5, <1>6 DEF Next

LEMMA ComingNext == EndIsComing /\ OverInv /\ [Next]_vars => EndIsComing'
<1> SUFFICES ASSUME EndIsComing, OverInv, [Next]_vars, ~terminated PROVE EndIsComing'
  BY TerminatedStays DEF EndIsComing
<1>1. handler \in [Handlers -> HandlerType] /\ timeouts \in Seq(Timeouts) /\ "timeout" \in Handlers
  BY TypeParts DEF OverInv, TypeInv, BusType, Handlers
<1>2. ASSUME timers' = timers, timeouts' = timeouts, handler'["timeout"] = handler["timeout"]
      PROVE  EndIsComing'
  BY <1>2 DEF EndIsComing
<1>3. ASSUME terminated' = TRUE PROVE EndIsComing'
  BY <1>3 DEF EndIsComing
<1>4. CASE \E p \in Players : Player(p)
  BY <1>2, <1>4 DEF Player, Decline, Answer, NextCall, Finish, Enters, ending
<1>5. CASE Pipeline
  BY <1>2, <1>5 DEF Pipeline, Policy, Charge, Commit, Publish, ending
<1>6. CASE \E t \in Topics : OnMove(t)
  <2>1. PICK t \in Topics : OnMove(t)
    BY <1>6
  <2>2. t # "timeout" /\ t \in Handlers
    BY DEF Topics, Handlers
  <2> QED
    BY <1>1, <1>2, <2>1, <2>2 DEF OnMove, Hear, Scored, Pass, Activate, Returns, ending
<1>7. CASE HearTimeout
  <2>1. handler'["timeout"].at = "ask"
    BY <1>1, <1>7 DEF HearTimeout, Idle
  <2> QED
    BY <2>1 DEF EndIsComing
<1>8. CASE TimeOut
  BY <1>3, <1>8 DEF TimeOut
<1>9. CASE Settle
  BY <1>1, <1>9 DEF Settle, OverInv, Over, Ends
<1>10. CASE HearExhausted
  <2>1. timers' = timers /\ handler' = handler
    BY <1>10 DEF HearExhausted, ending
  <2>2. timeouts' = timeouts \/ timeouts' = Append(timeouts, "all_budgets")
    BY <1>10 DEF HearExhausted
  <2>3. Append(timeouts, "all_budgets") # <<>>
    BY <1>1
  <2> QED
    BY <2>1, <2>2, <2>3 DEF EndIsComing
<1>11. CASE \E h \in Handlers : Closing(h)
  <2>1. PICK h \in Handlers : Closing(h)
    BY <1>11
  <2>2. CASE Ask(h) \/ AskAgain(h)
    <3>1. timers' = timers /\ timeouts' = timeouts
      BY <2>2 DEF Ask, AskAgain, ending
    <3>2. handler'[h].at \in {"closed?", "rejected?"}
          /\ \A k \in Handlers \ {h} : handler'[k] = handler[k]
      BY <1>1, <2>2 DEF Ask, AskAgain, HandlerType
    <3> QED
      BY <1>1, <3>1, <3>2 DEF EndIsComing
  <2>3. CASE Terminate(h)
    BY <1>3, <2>3 DEF Terminate
  <2>4. CASE Announce(h) \/ Deliver(h)
    BY <2>1, <2>4 DEF Announce, Deliver, OverInv, Over, Ends
  <2> QED
    BY <2>1, <2>2, <2>3, <2>4 DEF Closing
<1>12. CASE \E w \in Timers : Fire(w)
  <2>1. PICK w \in Timers : Fire(w)
    BY <1>12
  <2>2. timeouts' = Append(timeouts, w)
    BY <2>1 DEF Fire
  <2>3. w \in Timeouts
    BY DEF Timeouts
  <2>4. timeouts' # <<>>
    BY <1>1, <2>2, <2>3
  <2> QED
    BY <2>4 DEF EndIsComing
<1>13. CASE Stop
  BY <1>3, <1>13 DEF Stop
<1>14. CASE StopDone
  BY <1>14 DEF StopDone, OverInv, Over
<1>15. CASE UNCHANGED vars
  BY <1>2, <1>15 DEF vars, ending
<1> QED
  BY <1>4, <1>5, <1>6, <1>7, <1>8, <1>9, <1>10, <1>11, <1>12, <1>13, <1>14, <1>15
  DEF Next, OnTimeout

\* Unless it is over, the wall clock runs, a timeout waits or one is handled:
\* this is what GameEnds rests on.
THEOREM GameEndIsComing == Spec => []EndIsComing
<1>1. Init => EndIsComing
  BY GameAssumption DEF Init, EndIsComing
<1> QED
  BY OverAlways, <1>1, ComingNext, PTL DEF Spec
==============================================================================
