---------------------------- MODULE EngineProofs ----------------------------
(***************************************************************************)
(* The engine of EngineAlone, for any sizes, margins, timeouts of arms and *)
(* answers, and an inbox of any length: its types, the orders it sends,    *)
(* what its events tell, and the answers of its strategies.                *)
(*                                                                         *)
(* None of the properties is inductive as it stands.  What the inbox holds *)
(* must be typed by sender (a margin is one the bot assigns), an order     *)
(* nobody answered must show in the state, the view of a listener must be  *)
(* followed through the handler of a price, whose begun is the state it    *)
(* knows, and a follower's memory of a fall of the trend must be one of    *)
(* the last look.                                                          *)
(***************************************************************************)
EXTENDS EngineAlone, SignalEngineProofs

MemoryTypes ==
  /\ strat \in Shipped \cup {"Any"}
  /\ prev \in BOOLEAN \cup {None} /\ long \in BOOLEAN
  /\ trend \in BOOLEAN \cup {None}

\* Everything but the strategy's answers, which are shown from it.
TypeInv == EngineTypes /\ MemoryTypes /\ seen \in Kind
             /\ asked \in {"none", "Open", "Close"}

\* As long as nothing answered an order the engine waits for it, and believes
\* of the position what it did when the order was taken.
AskedInv ==
  /\ OneOrderAtATime
  /\ asked = "Open"  => state.kind = "Opening" /\ openPos = None
  /\ asked = "Close" => state.kind = "Closing" /\ openPos # None

\* In the handler of a price the listener knows begun; a state that is still
\* busy at the strategy is begun itself.
ViewInv ==
  /\ outbox # <<>> => pc = "recv" /\ outbox = <<state.kind>>
  /\ ViewFollows
  /\ pc \in {"forcing", "tick", "sending"} => seen = begun.kind
  /\ pc = "tick" /\ Busy => state = begun

\* A follower that remembers the trend down looked at it last when it was.
TurnInv == strat \in Followers /\ prev = FALSE => trend = FALSE

Enters(o) == o.intent # None /\ o.intent.op = "Open"

-----------------------------------------------------------------------------
\* What a strategy answers is an intent and a memory of the right kind.

LEMMA SharesType ==
  ASSUME EngineTypes, NEW p \in Nat
  PROVE  [op |-> "Open", arg |-> (FreeMargin * p) \div 100] \in Intent
<1>1. FreeMargin * p \in Nat
  BY FreeMarginType
<1>2. \A n \in Nat : n \div 100 \in Nat
  OBVIOUS
<1> QED
  BY <1>1, <1>2 DEF Intent

LEMMA AnswersType ==
  ASSUME EngineTypes, MemoryTypes
  PROVE  /\ Nothing \in Outcome
         /\ \A p \in {50, 90, 95} : Enter(p) \in Intent /\ Answers(Enter(p)) \in Outcome
         /\ {Arm, Disarm, Flatten} \subseteq Intent
         /\ {Answers(Arm), Answers(Disarm), Answers(Flatten)} \subseteq Outcome
<1>1. \A i \in Intent \cup {None} : Answers(i) \in Outcome
  BY DEF Answers, Outcome, MemoryTypes
<1>2. \A p \in {50, 90, 95} : Enter(p) \in Intent
  BY SharesType DEF Enter
<1>3. {Arm, Disarm, Flatten} \subseteq Intent
  BY WaitAssumption DEF Arm, Disarm, Flatten, Intent
<1> QED
  BY <1>1, <1>2, <1>3 DEF Nothing

LEMMA SeenType ==
  ASSUME EngineTypes, MemoryTypes, NEW i \in Intent \cup {None}, NEW up \in BOOLEAN,
         NEW p \in BOOLEAN \cup {None}
  PROVE  Seen(i, up, p) \in Outcome
BY DEF Seen, Answers, Outcome, MemoryTypes

LEMMA OutcomesType ==
  ASSUME EngineTypes, MemoryTypes, strat # "Any"
  PROVE  Outcomes \subseteq Outcome
<1> USE AnswersType, SeenType
<1>1. RsiClassicIdle \subseteq Outcome /\ ElderTripleScreenIdle \subseteq Outcome
      /\ RsiChopSwingIdle \subseteq Outcome
  BY DEF RsiClassicIdle, ElderTripleScreenIdle, RsiChopSwingIdle
<1>2. /\ Enter(50) \in Intent /\ Enter(95) \in Intent /\ Arm \in Intent
      /\ prev \in BOOLEAN \cup {None}
  BY DEF MemoryTypes
<1>3. RsiEmaScalpIdle \subseteq Outcome
  BY <1>2 DEF RsiEmaScalpIdle
<1>4. SrsiAdxScalpIdle \subseteq Outcome
  BY <1>2 DEF SrsiAdxScalpIdle
<1>5. SmaRsiScalpTestIdle \subseteq Outcome
  <2>1. \A o \in Outcome, b \in BOOLEAN : [o EXCEPT !.long = b] \in Outcome
    BY DEF Outcome
  <2> QED
    BY <2>1 DEF SmaRsiScalpTestIdle
<1>6. OnIdle \subseteq Outcome
  BY <1>1, <1>3, <1>4, <1>5 DEF OnIdle, MemoryTypes, Shipped, Plains, Followers
<1>7. OnOpen \subseteq Outcome
  BY DEF OnOpen
<1>8. OnBusy \subseteq Outcome
  BY DEF OnBusy, MARKET_ORDER_TIMEOUT
<1> QED
  BY <1>6, <1>7, <1>8 DEF Outcomes, EngineTypes, State, Kind

-----------------------------------------------------------------------------
\* Types.

LEMMA InitTypes == Init => TypeInv
<1> SUFFICES ASSUME Init PROVE TypeInv
  OBVIOUS
<1>1. EngineTypes
  BY IdleIsState, EmptySeq DEF Init, EngineInit, EngineTypes, NoOrder, Order
<1> QED
  BY <1>1 DEF Init, StratInit, TypeInv, MemoryTypes, Kind

\* A strategy, shipped or free, answers nothing or an intent.
LEMMA TickAnswers ==
  ASSUME EngineTypes, MemoryTypes, StratTick
  PROVE  StratQuiet \/ \E i \in Intent : Answer(i)
<1>1. CASE strat = "Any" /\ Strat
  BY <1>1, StratAnswers
<1>2. CASE strat # "Any" /\ Consulted
  <2>1. PICK o \in Outcomes : IF o.intent = None THEN StratQuiet ELSE Answer(o.intent)
    BY <1>2 DEF Consulted
  <2>2. o.intent \in Intent \cup {None}
    BY <1>2, OutcomesType DEF Outcome
  <2> QED
    BY <2>1, <2>2
<1> QED
  BY <1>1, <1>2 DEF StratTick

LEMMA FreshTypes == ASSUME NEW x \in Shipped \cup {"Any"}, Fresh(x) PROVE MemoryTypes'
BY DEF Fresh, MemoryTypes

LEMMA TickMemory ==
  ASSUME EngineTypes, MemoryTypes, StratTick
  PROVE  MemoryTypes'
<1>1. CASE UNCHANGED memory
  BY <1>1 DEF memory, MemoryTypes
<1>2. CASE strat # "Any" /\ Consulted
  <2>1. PICK o \in Outcomes :
          /\ prev' = o.prev /\ long' = o.long /\ strat' = strat
          /\ trend' \in {trend, o.up}
    BY <1>2 DEF Consulted
  <2>2. /\ o.prev \in BOOLEAN \cup {None} /\ o.long \in BOOLEAN
        /\ o.up \in BOOLEAN \cup {None}
    BY <1>2, OutcomesType DEF Outcome
  <2> QED
    BY <2>1, <2>2 DEF MemoryTypes
<1> QED
  BY <1>1, <1>2 DEF StratTick

LEMMA NextTypes ==
  ASSUME TypeInv, [Next]_vars
  PROVE  TypeInv'
<1> USE DEF TypeInv
<1>1. ASSUME NEW c \in Inputs, Feed(c) PROVE TypeInv'
  <2>1. inbox' \in Seq(Inputs)
    BY <1>1 DEF Feed, EngineTypes
  <2> QED
    BY <1>1, <2>1 DEF Feed, EngineTypes, MemoryTypes, memory, tellVars
<1>2. CASE TaskStep
  <2>1. seen' \in Kind /\ asked' \in {"none", "Open", "Close"}
    BY <1>2 DEF TaskStep, Kind
  <2>2. CASE EngineHears /\ UNCHANGED memory
    BY <2>1, <2>2, HearsTypes DEF memory, MemoryTypes
  <2>3. CASE StratTick
    <3>1. EngineTypes'
      BY <2>3, TickAnswers, QuietTypes, AnswerTypes
    <3> QED
      BY <2>1, <2>3, <3>1, TickMemory
  <2>4. CASE StratPanics
    BY <2>1, <2>4 DEF StratPanics, EngineTypes, memory, MemoryTypes
  <2>5. CASE StratChanged
    BY <2>1, <2>5, HearsTypes, FreshTypes DEF StratChanged
  <2> QED
    BY <1>2, <2>2, <2>3, <2>4, <2>5 DEF TaskStep
<1>3. CASE OrderTaken
  <2>1. UNCHANGED <<memory, seen>> /\ asked' \in {"none", "Open", "Close"}
    BY <1>3 DEF OrderTaken
  <2> QED
    BY <1>3, <2>1, SentTypes DEF OrderTaken, memory, MemoryTypes
<1>4. CASE EventTaken
  <2>1. Head(outbox) \in Kind /\ Tail(outbox) \in Seq(Kind)
    BY <1>4 DEF EventTaken, EngineTypes
  <2> QED
    BY <1>4, <2>1 DEF EventTaken, EngineTypes, memory, MemoryTypes
<1>5. CASE UNCHANGED vars
  BY <1>5 DEF vars, engineVars, memory, tellVars, EngineTypes, MemoryTypes
<1> QED
  BY <1>1, <1>2, <1>3, <1>4, <1>5 DEF Next

LEMMA TypesHold == Spec => []TypeInv
BY InitTypes, NextTypes, PTL DEF Spec

\* Every variable of the engine has its type, and so has every answer.
THEOREM TypeCorrect == Spec => []TypeOK
<1>1. TypeInv => TypeOK
  <2> SUFFICES ASSUME TypeInv PROVE TypeOK
    OBVIOUS
  <2>1. inbox \in Seq(Command)
    BY InputsTyped, SeqMonotonic DEF TypeInv, EngineTypes
  <2> QED
    BY <2>1, OutcomesType DEF TypeInv, EngineTypes, TypeOK
<1> QED
  BY <1>1, TypesHold, PTL

-----------------------------------------------------------------------------
\* Orders.

\* An order is sent where the strategy answers, and an engine that is busy
\* then ends nothing.
LEMMA TickSends ==
  ASSUME TypeInv, StratTick
  PROVE  /\ UNCHANGED <<inbox, openPos, margin>>
         /\ Busy => state' = state
         /\ pc' = "sending" =>
              \/ want' = NoOrder
              \/ ~Busy /\ \E i \in Intent : want' \in Orders(i)
<1>1. CASE StratQuiet
  BY <1>1 DEF StratQuiet, Finish, Return
<1>2. ASSUME NEW i \in Intent, StratIgnored(i) \/ StratArm(i) \/ StratRejected(i)
      PROVE  /\ UNCHANGED <<inbox, openPos, margin>> /\ pc' # "sending"
             /\ Busy => state' = state
  BY <1>2 DEF StratIgnored, StratArm, StratRejected, Finish, Return
<1>3. ASSUME NEW i \in Intent, StratOrder(i)
      PROVE  /\ UNCHANGED <<inbox, openPos, margin>>
             /\ ~Busy /\ want' \in Orders(i)
  BY <1>3 DEF StratOrder, Send
<1>4. ASSUME NEW i \in Intent, StratAbort(i)
      PROVE  UNCHANGED <<inbox, openPos, margin, state>> /\ want' = NoOrder
  BY <1>4 DEF StratAbort, Send
<1>5. StratQuiet \/ \E i \in Intent : Answer(i)
  BY TickAnswers DEF TypeInv
<1> QED
  BY <1>1, <1>2, <1>3, <1>4, <1>5 DEF Answer

\* A command is heard between two prices, and settles what was asked or
\* leaves the engine waiting for it.
LEMMA HearsAsked ==
  ASSUME TypeInv, AskedInv, EngineHears \/ RecvUpdateStrategy,
         asked' = IF Answered THEN "none" ELSE asked
  PROVE  AskedInv'
<1> USE DEF AskedInv, OneOrderAtATime
<1> DEFINE c == Head(inbox)
<1>1. c \in Inputs /\ pc' # "sending" /\ inbox' # inbox
  <2>1. \E T : Take(T)
    BY DEF EngineHears, RecvPrice, RecvParams, RecvOpenFailed, RecvIndicators,
           RecvToggle, RecvStop, RecvUpdateStrategy
  <2>2. c \in Inputs /\ pc = "recv"
    BY <2>1, TakeType DEF TypeInv
  <2>3. inbox' # inbox
    <3>1. inbox \in Seq(Inputs) /\ inbox # <<>> /\ inbox' = Tail(inbox)
      BY <2>1 DEF Take, TypeInv, EngineTypes
    <3>2. Len(inbox') = Len(inbox) - 1 /\ Len(inbox) \in Nat
      BY <3>1, HeadTailProperties, LenProperties
    <3> QED
      BY <3>2
  <2> QED
    BY <2>2, <2>3 DEF EngineHears, RecvPrice, RecvParams, RecvOpenFailed,
                      RecvIndicators, RecvToggle, RecvStop, RecvUpdateStrategy
<1>2. asked' = IF Settles(c) THEN "none" ELSE asked
  BY <1>1 DEF Answered
<1> HIDE DEF c
<1>3. CASE RecvPrice
  <2>1. c.type = "Price" /\ UNCHANGED openPos
    BY <1>3 DEF RecvPrice, Take, c
  <2>2. asked' = asked
    BY <1>2, <2>1 DEF Settles
  <2>3. c.arg \in Nat
    BY <1>1, <2>1, InputsAre, EngineAssumption
  <2>4. Aged(c.arg) \in State /\ Aged(c.arg).kind = state.kind
    BY <2>3, AgedState DEF TypeInv
  <2>5. asked # "none" => Refreshed(Aged(c.arg)) = Aged(c.arg)
    BY <2>4 DEF TypeInv, Refreshed
  <2>6. state' = state \/ state' \in {Aged(c.arg), Refreshed(Aged(c.arg))}
    BY <1>3 DEF RecvPrice, c
  <2> QED
    BY <1>1, <2>1, <2>2, <2>4, <2>5, <2>6
<1>4. CASE RecvParams
  <2>1. c.type \in {"Margin", "Position"} /\ UNCHANGED state
        /\ openPos' = IF c.type = "Position" THEN c.arg ELSE openPos
    BY <1>4 DEF RecvParams, Take, c
  <2> QED
    BY <1>1, <1>2, <2>1 DEF Settles, TypeInv
<1>5. CASE RecvOpenFailed \/ RecvUpdateStrategy \/ RecvToggle
  <2>1. c.type \in {"OpenFailed", "UpdateStrategy", "ExecToggle"}
    BY <1>5 DEF RecvOpenFailed, RecvUpdateStrategy, RecvToggle, Take, c
  <2> QED
    BY <1>1, <1>2, <2>1 DEF Settles
<1>6. CASE RecvIndicators \/ RecvStop
  <2>1. c.type \in {"Bulk", "EditIndicators", "Stop"} /\ UNCHANGED <<state, openPos>>
    BY <1>6 DEF RecvIndicators, RecvStop, Take, c
  <2> QED
    BY <1>1, <1>2, <2>1 DEF Settles
<1> QED
  BY <1>3, <1>4, <1>5, <1>6 DEF EngineHears

LEMMA AskedNext ==
  ASSUME TypeInv, OrdersStayCovered, AskedInv, [Next]_vars
  PROVE  AskedInv'
<1> USE DEF AskedInv, OneOrderAtATime
<1>1. CASE UNCHANGED <<state, openPos, pc, want, asked>>
  BY <1>1
<1>2. CASE TaskStep
  <2>1. asked' = IF Answered THEN "none" ELSE asked
    BY <1>2 DEF TaskStep
  <2>2. CASE EngineHears \/ StratChanged
    BY <2>1, <2>2, HearsAsked DEF StratChanged
  <2>3. CASE StratTick
    <3>1. asked' = asked /\ UNCHANGED openPos /\ (asked # "none" => UNCHANGED state)
      BY <2>1, <2>3, TickSends DEF Answered, Busy, TypeInv
    <3>2. asked = "none" => OneOrderAtATime'
      BY <3>1
    <3>3. asked # "none" => OneOrderAtATime'
      BY <2>3, TickSends DEF Busy, NoOrder, TypeInv
    <3> QED
      BY <3>1, <3>2, <3>3 DEF TypeInv
  <2>4. CASE StratPanics
    BY <2>1, <2>4 DEF StratPanics, Answered
  <2> QED
    BY <1>2, <2>2, <2>3, <2>4 DEF TaskStep
<1>3. CASE OrderTaken
  <2>1. pc' # "sending" /\ openPos' = openPos
    BY <1>3 DEF OrderTaken, Forced, Sent, Finish, Return
  <2>2. CASE asked' = "none"
    BY <2>1, <2>2
  <2>3. CASE asked' # "none"
    <3>1. /\ pc = "sending" /\ asked' = want.op
          /\ want.op = "Close" \/ (want.op = "Open" /\ openPos = None)
      BY <1>3, <2>3 DEF OrderTaken
    <3>2. state' = IF want.op = "Open" THEN Opening ELSE Closing
      BY <1>3, <3>1 DEF OrderTaken, Forced, Sent, Finish
    <3>3. want.op = "Close" => openPos # None
      BY <3>1 DEF OrdersStayCovered
    <3> QED
      BY <2>1, <3>1, <3>2, <3>3 DEF Opening, Closing
  <2> QED
    BY <2>2, <2>3
<1> QED
  BY <1>1, <1>2, <1>3
  DEF Next, Feed, EventTaken, vars, engineVars, tellVars

\* No step but those of the strategy begins or changes an order.
LEMMA CoveredNext ==
  ASSUME TypeInv, OrdersStayCovered, [Next]_vars
  PROVE  OrdersStayCovered'
<1> USE DEF OrdersStayCovered, FreeMargin
<1>1. CASE pc' # "sending"
  BY <1>1
<1>2. CASE UNCHANGED <<openPos, margin, pc, want>>
  BY <1>2
<1>3. CASE StratTick /\ pc' = "sending"
  <2>1. CASE want' = NoOrder
    BY <2>1 DEF NoOrder
  <2>2. ASSUME NEW i \in Intent, want' \in Orders(i) PROVE OrdersStayCovered'
    <3>1. PICK o \in Orders(i) : o = want'
      BY <2>2
    <3>2. /\ o.op = "Open" => o.size >= MIN_ORDER_VALUE /\ o.size <= FreeMargin
          /\ o.op = "Close" =>
               openPos # None /\ (o.size >= openPos \/ o.size >= MIN_ORDER_VALUE)
      BY OrdersCovered DEF TypeInv
    <3>3. UNCHANGED <<openPos, margin>>
      BY <1>3, TickSends
    <3> QED
      BY <3>1, <3>2, <3>3
  <2> QED
    BY <1>3, <2>1, <2>2, TickSends
<1>4. CASE TaskStep
  <2>1. CASE EngineHears \/ RecvUpdateStrategy
    BY <2>1, <1>1 DEF EngineHears, RecvPrice, RecvParams, RecvOpenFailed, RecvIndicators,
                      RecvToggle, RecvStop, RecvUpdateStrategy, Take
  <2> QED
    BY <1>1, <1>3, <1>4, <2>1 DEF TaskStep, StratPanics, StratChanged
<1> QED
  BY <1>1, <1>2, <1>4 DEF Next, Feed, OrderTaken, Forced, Sent, Finish, Return, EventTaken,
                          vars, engineVars

LEMMA OrdersHold == Spec => [](OrdersStayCovered /\ AskedInv)
<1>1. Init => OrdersStayCovered /\ AskedInv
  BY DEF Init, EngineInit, OrdersStayCovered, AskedInv, OneOrderAtATime
<1> QED
  BY <1>1, CoveredNext, AskedNext, TypesHold, PTL DEF Spec

\* A second order is sent only after the first was answered, given up with a
\* ForceClose or dropped by a reset.
THEOREM OneOrder == Spec => []OneOrderAtATime
BY OrdersHold, PTL DEF AskedInv

\* An order on its way is one the engine would still let pass when it is taken.
THEOREM OrdersCoveredTillTaken == Spec => []OrdersStayCovered
BY OrdersHold, PTL

-----------------------------------------------------------------------------
\* Events.

\* The handler of a price ends in state x, and tells it if it differs from begun.
LEMMA FinishView ==
  ASSUME TypeInv, ViewInv, NEW x \in State, Finish(x), UNCHANGED seen,
         pc \in {"forcing", "tick", "sending"}
  PROVE  ViewInv'
<1>1. pc' = "recv" /\ state' = x
  BY DEF Finish, Return
<1>2. CASE x = begun
  BY <1>1, <1>2 DEF Finish, ViewInv, ViewFollows
<1>3. CASE x # begun
  BY <1>1, <1>3 DEF Finish, ViewInv, ViewFollows
<1> QED
  BY <1>2, <1>3

LEMMA HearsView ==
  ASSUME TypeInv, ViewInv, EngineHears, UNCHANGED seen
  PROVE  ViewInv'
<1> USE DEF ViewInv, ViewFollows
<1>1. CASE RecvPrice
  <2> DEFINE c == Head(inbox)
             s == Aged(c.arg)
  <2>1. c \in Inputs /\ c.type = "Price" /\ pc = "recv" /\ outbox = <<>> /\ outbox' = <<>>
    BY <1>1, TakeType DEF RecvPrice, TypeInv
  <2>2. c.arg \in Nat
    BY <2>1, InputsAre, EngineAssumption
  <2>3. s \in State /\ s.kind = state.kind /\ (state = Idle => s = Idle)
    BY <2>2, AgedState DEF TypeInv
  <2>4. Refreshed(s).kind \in {"Opening", "Closing"} => Refreshed(s) = s
    BY <2>3, RefreshedState DEF TypeInv
  <2>5. CASE paused
    BY <1>1, <2>1, <2>5 DEF RecvPrice
  <2>6. CASE ~paused
    <3>1. begun' = s /\ state' \in {s, Refreshed(s)} /\ pc' \in {"forcing", "tick"}
      BY <1>1, <2>6 DEF RecvPrice
    <3> QED
      BY <2>1, <2>3, <2>4, <3>1 DEF Busy
  <2> QED
    BY <2>5, <2>6
<1>2. CASE RecvOpenFailed \/ RecvToggle
  <2>1. pc' = "recv" /\ pc = "recv" /\ outbox = <<>>
    BY <1>2 DEF RecvOpenFailed, RecvToggle, Take
  <2>2. Idle.kind = "Idle"
    BY DEF Idle
  <2> QED
    BY <1>2, <2>1, <2>2 DEF RecvOpenFailed, RecvToggle
<1>3. CASE RecvParams \/ RecvIndicators \/ RecvStop
  BY <1>3 DEF RecvParams, RecvIndicators, RecvStop, Take
<1> QED
  BY <1>1, <1>2, <1>3 DEF EngineHears

LEMMA AnswerView ==
  ASSUME TypeInv, ViewInv, NEW i \in Intent, Answer(i), UNCHANGED seen
  PROVE  ViewInv'
<1>1. CASE StratIgnored(i)
  BY <1>1 DEF StratIgnored, Return, ViewInv, ViewFollows
<1>2. CASE StratArm(i)
  <2>1. i.arg \in Nat /\ state \in State
    BY DEF Intent, TypeInv, EngineTypes
  <2> QED
    BY <1>2, <2>1, FinishView, IdleIsState, ArmedIsState DEF StratArm
<1>3. CASE StratRejected(i)
  BY <1>3, FinishView DEF StratRejected, TypeInv, EngineTypes
<1>4. CASE StratOrder(i) \/ StratAbort(i)
  BY <1>4 DEF StratOrder, StratAbort, Send, ViewInv, ViewFollows
<1> QED
  BY <1>1, <1>2, <1>3, <1>4 DEF Answer

LEMMA ViewNext ==
  ASSUME TypeInv, ViewInv, [Next]_vars
  PROVE  ViewInv'
<1>1. ASSUME UNCHANGED <<outbox, state, pc, begun, seen>> PROVE ViewInv'
  BY <1>1 DEF ViewInv, ViewFollows, Busy
<1>2. CASE TaskStep
  <2>1. CASE EngineHears /\ UNCHANGED seen
    BY <2>1, HearsView
  <2>2. CASE StratChanged /\ seen' = "Idle"
    BY <2>2 DEF StratChanged, RecvUpdateStrategy, Take, Idle, ViewInv, ViewFollows
  <2>3. CASE StratQuiet /\ UNCHANGED seen
    BY <2>3, FinishView DEF StratQuiet, TypeInv, EngineTypes
  <2>4. CASE StratTick /\ UNCHANGED seen
    BY <2>3, <2>4, TickAnswers, AnswerView DEF TypeInv
  <2>5. CASE StratPanics /\ UNCHANGED seen
    BY <2>5 DEF StratPanics, ViewInv, ViewFollows
  <2> QED
    BY <1>2, <2>1, <2>2, <2>4, <2>5 DEF TaskStep
<1>3. CASE OrderTaken
  <2>1. seen' = seen
    BY <1>3 DEF OrderTaken
  <2>2. CASE Forced
    BY <2>1, <2>2 DEF Forced, ViewInv, ViewFollows, Busy, Idle
  <2>3. CASE Sent
    <3>1. want.op \in {"Open", "Close", "ForceClose"}
      BY DEF TypeInv, EngineTypes, Order
    <3>2. PICK s \in State : Finish(s)
      BY <2>3, <3>1, IdleIsState DEF Sent
    <3> QED
      BY <2>1, <2>3, <3>2, FinishView DEF Sent
  <2> QED
    BY <1>3, <2>2, <2>3 DEF OrderTaken
<1>4. CASE EventTaken
  <2>1. outbox = <<state.kind>> /\ pc = "recv"
    BY <1>4 DEF EventTaken, ViewInv
  <2> QED
    BY <1>4, <2>1 DEF EventTaken, ViewInv, ViewFollows
<1> QED
  BY <1>1, <1>2, <1>3, <1>4 DEF Next, Feed, vars, engineVars, tellVars

\* Between two commands who listens to the events, and is told when a strategy
\* is changed, knows the state.
THEOREM ViewsFollow == Spec => []ViewFollows
<1>1. Init => ViewInv
  BY DEF Init, EngineInit, Idle, ViewInv, ViewFollows
<1>2. ViewInv => ViewFollows
  BY DEF ViewInv
<1> QED
  BY <1>1, <1>2, ViewNext, TypesHold, PTL DEF Spec

-----------------------------------------------------------------------------
\* Strategies.

\* What an answer holds.
LEMMA AnswerParts ==
  /\ Nothing.intent = None /\ Nothing.up = None /\ Nothing.prev = prev
  /\ \A i : Answers(i).intent = i /\ Answers(i).up = None /\ Answers(i).prev = prev
  /\ \A i, up, p : /\ Seen(i, up, p).intent = i
                  /\ Seen(i, up, p).prev = p /\ Seen(i, up, p).up = up
BY DEF Nothing, Answers, Seen

\* What a strategy does while flat: it enters, arms or disarms by its state.
LEMMA IdleAnswers ==
  ASSUME TypeInv, strat # "Any", NEW o \in OnIdle, o.intent # None
  PROVE  /\ o.intent.op \in {"Open", "Arm"} \/ (IsArmed /\ o.intent.op = "Disarm")
         /\ strat \in Plains => o.intent.op = "Open"
<1> USE AnswerParts DEF Enter, Arm, Disarm
<1>1. CASE strat = "RsiClassic" /\ o \in RsiClassicIdle
  BY <1>1 DEF RsiClassicIdle
<1>2. CASE strat = "ElderTripleScreen" /\ o \in ElderTripleScreenIdle
  BY <1>2 DEF ElderTripleScreenIdle
<1>3. CASE strat = "RsiChopSwing" /\ o \in RsiChopSwingIdle
  BY <1>3 DEF RsiChopSwingIdle, Plains
<1>4. CASE strat = "RsiEmaScalp" /\ o \in RsiEmaScalpIdle
  BY <1>4 DEF RsiEmaScalpIdle, Plains
<1>5. CASE strat = "SrsiAdxScalp" /\ o \in SrsiAdxScalpIdle
  BY <1>5 DEF SrsiAdxScalpIdle, Plains
<1>6. CASE strat = "SmaRsiScalpTest" /\ o \in SmaRsiScalpTestIdle
  <2> HIDE DEF Enter, Arm, Disarm
  <2>1. o.intent \in {None, Arm, Enter(95)} \/ (IsArmed /\ o.intent = Disarm)
    BY <1>6 DEF SmaRsiScalpTestIdle, Nothing, Answers
  <2> QED
    BY <1>6, <2>1 DEF Plains, Enter, Arm, Disarm
<1> QED
  BY <1>1, <1>2, <1>3, <1>4, <1>5, <1>6
  DEF OnIdle, TypeInv, MemoryTypes, Shipped, Plains, Followers

\* No shipped strategy answers what the market does not reckon with.
THEOREM Answering == Spec => []AnswersAsAssumed
<1>1. TypeInv => AnswersAsAssumed
  <2> SUFFICES ASSUME TypeInv, strat # "Any", NEW o \in Outcomes, o.intent # None
               PROVE  /\ o.intent.op \in MayAnswer[state.kind]
                      /\ strat \in Plains => o.intent.op # "Arm"
    BY DEF AnswersAsAssumed
  <2>1. state.kind \in Kind
    BY DEF TypeInv, EngineTypes, State
  <2>2. CASE state.kind \in {"Idle", "Armed"}
    BY <2>2, IdleAnswers DEF Outcomes, MayAnswer, Kind, IsArmed
  <2>3. CASE state.kind = "Open"
    BY <2>3, AnswerParts DEF Outcomes, OnOpen, Flatten, MayAnswer, Kind
  <2>4. CASE state.kind \in {"Opening", "Closing"}
    BY <2>4, AnswerParts DEF Outcomes, OnBusy, MARKET_ORDER_TIMEOUT
  <2> QED
    BY <2>1, <2>2, <2>3, <2>4 DEF Kind
<1> QED
  BY <1>1, TypesHold, PTL

\* How a follower looks at the trend: it enters if it remembers it down and
\* finds it up, and remembers it down if it finds it so or did before.
LEMMA FollowerLooks ==
  ASSUME TypeInv, strat \in Followers, NEW o \in Outcomes
  PROVE  /\ Enters(o) => prev = FALSE /\ o.up = TRUE
         /\ o.prev = FALSE => \/ o.up = FALSE
                              \/ prev = FALSE /\ (o.up = None \/ Enters(o))
<1> DEFINE Goal == /\ Enters(o) => prev = FALSE /\ o.up = TRUE
                   /\ o.prev = FALSE => \/ o.up = FALSE
                                        \/ prev = FALSE /\ (o.up = None \/ Enters(o))
<1> SUFFICES Goal
  OBVIOUS
<1>1. Arm.op = "Arm" /\ Flatten.op = "Flatten" /\ \A p : Enter(p).op = "Open"
  BY DEF Arm, Flatten, Enter
<1>2. o = Nothing \/ o = Answers(Flatten) => Goal
  BY <1>1, AnswerParts DEF Enters
<1>3. \A up \in BOOLEAN : o = Seen(None, up, up) => Goal
  BY AnswerParts DEF Enters
<1>4. o = Seen(Arm, FALSE, prev) => Goal
  <2> SUFFICES ASSUME o = Seen(Arm, FALSE, prev) PROVE Goal
    BY Zenon
  <2>1. o.intent = Arm /\ o.up = FALSE
    BY DEF Seen, Answers
  <2> QED
    BY <1>1, <2>1 DEF Enters
<1>5. \A p \in {50, 95} : \A x : prev = FALSE /\ o = Seen(Enter(p), TRUE, x) => Goal
  <2> SUFFICES ASSUME NEW p \in {50, 95}, NEW x, prev = FALSE, o = Seen(Enter(p), TRUE, x) PROVE Goal
    BY Zenon
  <2>1. o.intent = Enter(p) /\ o.up = TRUE
    BY DEF Seen, Answers
  <2>2. Enters(o)
    <3>1. Enter(p) \in Intent
      BY AnswersType DEF TypeInv
    <3>2. Enter(p) # None
      BY <3>1, NoneAssumption
    <3>3. Enter(p).op = "Open"
      BY <1>1
    <3>4. o.intent = Enter(p)
      BY <2>1
    <3> QED
      BY <3>2, <3>3, <3>4 DEF Enters
  <2> QED
    BY <2>1, <2>2
<1> HIDE DEF Goal
<1>6. CASE o \in RsiEmaScalpIdle
  <2>1. ASSUME NEW up \in BOOLEAN, NEW low \in BOOLEAN,
               o = IF IsArmed /\ prev # None
                   THEN IF ~prev /\ up THEN Seen(Enter(50), up, None) ELSE Seen(None, up, up)
                   ELSE IF low /\ ~up THEN Seen(Arm, up, prev) ELSE Seen(None, up, up)
        PROVE  Goal
    <3>1. ~prev /\ prev # None => prev = FALSE
      BY DEF TypeInv, MemoryTypes
    <3>2. (up => up = TRUE) /\ (~up => up = FALSE)
      OBVIOUS
    <3> QED
      BY <1>3, <1>4, <1>5, <2>1, <3>1, <3>2
  <2> QED
    BY <1>2, <1>6, <2>1 DEF RsiEmaScalpIdle
<1>7. CASE o \in SrsiAdxScalpIdle
  <2>1. ASSUME NEW up \in BOOLEAN, NEW strong \in BOOLEAN,
               o = IF IsArmed /\ prev = FALSE /\ up THEN Seen(Enter(95), up, prev)
                   ELSE IF ~IsArmed /\ strong /\ ~up THEN Seen(Arm, up, prev)
                   ELSE Seen(None, up, up)
        PROVE  Goal
    <3>1. (up => up = TRUE) /\ (~up => up = FALSE)
      OBVIOUS
    <3> QED
      BY <1>3, <1>4, <1>5, <2>1, <3>1
  <2>2. o = Nothing \/ \E up \in BOOLEAN, strong \in BOOLEAN :
               o = IF IsArmed /\ prev = FALSE /\ up THEN Seen(Enter(95), up, prev)
                   ELSE IF ~IsArmed /\ strong /\ ~up THEN Seen(Arm, up, prev)
                   ELSE Seen(None, up, up)
    BY <1>7 DEF SrsiAdxScalpIdle
  <2> QED
    BY <1>2, <2>1, <2>2, Zenon
<1>8. CASE o \in OnOpen \/ o \in OnBusy
  BY <1>2, <1>3, <1>8 DEF OnOpen, OnBusy, MARKET_ORDER_TIMEOUT
<1> QED
  BY <1>6, <1>7, <1>8 DEF Outcomes, OnIdle, Followers

LEMMA TurnNext ==
  ASSUME TypeInv, TurnInv, [Next]_vars
  PROVE  TurnInv'
<1> USE DEF TurnInv
<1>1. CASE UNCHANGED memory
  BY <1>1 DEF memory
<1>2. CASE StratChanged
  <2>1. prev' = None
    BY <1>2 DEF StratChanged, Fresh
  <2>2. None # FALSE
    BY NoneAssumption
  <2> QED
    BY <2>1, <2>2
<1>3. CASE strat # "Any" /\ Consulted
  <2>1. PICK o \in Outcomes :
          /\ prev' = o.prev /\ strat' = strat
          /\ trend' = IF o.up = None \/ Enters(o) THEN trend ELSE o.up
    BY <1>3 DEF Consulted, Enters
  <2>2. SUFFICES ASSUME strat \in Followers, o.prev = FALSE PROVE trend' = FALSE
    BY <2>1
  <2>3. o.up = FALSE \/ (prev = FALSE /\ (o.up = None \/ Enters(o)))
    BY <2>2, FollowerLooks
  <2>4. o.up = FALSE => ~Enters(o) /\ o.up # None
    BY <2>2, FollowerLooks, NoneAssumption
  <2>5. prev = FALSE => trend = FALSE
    BY <2>2
  <2> QED
    BY <2>1, <2>3, <2>4, <2>5
<1> QED
  BY <1>1, <1>2, <1>3 DEF Next, Feed, OrderTaken, EventTaken, TaskStep, StratTick,
                          StratPanics, vars, memory, tellVars

\* A trend follower enters only on a turn: it saw the trend down, then up.
THEOREM EntersOnlyOnTurn == Spec => []EntersOnTurn
<1>1. Init => TurnInv
  BY NoneAssumption DEF Init, StratInit, TurnInv
<1>2. TypeInv /\ TurnInv => EntersOnTurn
  BY FollowerLooks DEF TurnInv, EntersOnTurn, Enters
<1> QED
  BY <1>1, <1>2, TurnNext, TypesHold, PTL DEF Spec

=============================================================================
