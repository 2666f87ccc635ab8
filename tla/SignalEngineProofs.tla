------------------------- MODULE SignalEngineProofs -------------------------
(***************************************************************************)
(* What holds of the engine wherever it is composed: the types of its      *)
(* variables through each of its actions, and what its operators return.   *)
(***************************************************************************)
EXTENDS SignalEngine, SequenceTheorems, TLAPS

EngineTypes ==
  /\ inbox \in Seq(Inputs)
  /\ state \in State /\ begun \in State
  /\ openPos \in Positions \cup {None}
  /\ margin \in Margins
  /\ paused \in BOOLEAN
  /\ pc \in {"recv", "forcing", "tick", "sending", "stopped"}
  /\ want \in Order
  /\ outbox \in Seq(Kind)

-----------------------------------------------------------------------------
\* The operators of the engine.

LEMMA IdleIsState == Idle \in State /\ Opening \in State /\ Closing \in State
BY DEF Idle, Opening, Closing, State, Kind, MARKET_ORDER_TIMEOUT

LEMMA ToldIdle == <<>> \in Seq(Kind) /\ <<"Idle">> \in Seq(Kind)
BY DEF Kind

LEMMA ArmedIsState == ASSUME NEW n \in Nat PROVE Armed(n) \in State
BY DEF Armed, State, Kind

LEMMA FreeMarginType == ASSUME EngineTypes PROVE FreeMargin \in Nat
BY EngineAssumption DEF EngineTypes, FreeMargin

\* Time changes what is left of a state, and nothing of Idle.
LEMMA AgedState ==
  ASSUME EngineTypes, NEW n \in Nat
  PROVE  /\ Aged(n) \in State
         /\ Aged(n).kind = state.kind
         /\ state = Idle => Aged(n) = Idle
BY DEF EngineTypes, Aged, State, Idle

\* A refresh leaves a state that waits for an order, or finds another.
LEMMA RefreshedState ==
  ASSUME EngineTypes, NEW s \in State
  PROVE  /\ Refreshed(s) \in State
         /\ Refreshed(s).kind \in {"Opening", "Closing"} => Refreshed(s) = s
<1>1. s.kind \in Kind
  BY DEF State
<1>2. CASE s.kind \in {"Idle", "Opening"} /\ openPos # None
  BY <1>2 DEF EngineTypes, Refreshed, Open, State, Kind
<1>3. CASE s.kind = "Open"
  BY <1>3 DEF EngineTypes, Refreshed, Open, Idle, State, Kind
<1>4. CASE s.kind = "Closing" /\ openPos = None
  BY <1>4, IdleIsState DEF EngineTypes, Refreshed, Idle
<1>5. CASE s.kind = "Armed" /\ s.left = 0
  BY <1>5, IdleIsState DEF EngineTypes, Refreshed, Idle
<1>6. CASE /\ ~(s.kind \in {"Idle", "Opening"} /\ openPos # None) /\ s.kind # "Open"
           /\ ~(s.kind = "Closing" /\ openPos = None)
           /\ ~(s.kind = "Armed" /\ s.left = 0)
  BY <1>6 DEF Refreshed
<1> QED
  BY <1>1, <1>2, <1>3, <1>4, <1>5, <1>6

\* Orders that reach the channel are covered.
LEMMA OrdersCovered ==
  ASSUME EngineTypes, NEW i \in Intent, NEW o \in Orders(i)
  PROVE  /\ o \in Order
         /\ o.op = "Open" => o.size >= MIN_ORDER_VALUE /\ o.size <= FreeMargin
         /\ o.op = "Close" =>
              openPos # None /\ (o.size >= openPos \/ o.size >= MIN_ORDER_VALUE)
<1>1. i.arg \in Nat
  BY DEF Intent
<1>2. CASE o \in OpenOrder(i)
  BY <1>1, <1>2 DEF OpenOrder, Order
<1>3. CASE o \in CloseOrder(i)
  BY <1>1, <1>3, EngineAssumption DEF CloseOrder, Order, EngineTypes
<1> QED
  BY <1>2, <1>3 DEF Orders

\* A command taken from the inbox is one that was sent there.
LEMMA TakeType ==
  ASSUME EngineTypes, NEW T, Take(T)
  PROVE  /\ inbox' \in Seq(Inputs) /\ Head(inbox) \in Inputs /\ Head(inbox).type \in T
         /\ pc = "recv" /\ outbox = <<>>
<1>1. inbox \in Seq(Inputs) /\ inbox # <<>> /\ inbox' = Tail(inbox)
  BY DEF EngineTypes, Take
<1>2. Head(inbox) \in Inputs /\ Tail(inbox) \in Seq(Inputs)
  BY <1>1, HeadTailProperties
<1> QED
  BY <1>1, <1>2 DEF Take

LEMMA InputsTyped == Inputs \subseteq Command
<1>1. Margins \subseteq Nat /\ Jumps \subseteq Nat /\ Positions \subseteq Nat
  BY EngineAssumption
<1>2. [type : {"Price"}, arg : Jumps] \subseteq Command
  BY <1>1 DEF Command
<1>3. [type : {"Margin"}, arg : Margins] \subseteq Command
  BY <1>1 DEF Command
<1>4. [type : {"Position"}, arg : Positions \cup {None}] \subseteq Command
  BY <1>1 DEF Command
<1>5. {Cmd(t) : t \in {"Bulk", "OpenFailed", "UpdateStrategy", "EditIndicators",
                       "ExecToggle", "Stop"}} \subseteq Command
  BY DEF Command, Cmd
<1> QED
  BY <1>2, <1>3, <1>4, <1>5 DEF Inputs

LEMMA InputsAre ==
  ASSUME NEW c \in Inputs
  PROVE  /\ c.type = "Price" => c.arg \in Jumps
         /\ c.type = "Margin" => c.arg \in Margins
         /\ c.type = "Position" => c.arg \in Positions \cup {None}
BY DEF Inputs, Cmd

-----------------------------------------------------------------------------
\* Types.

LEMMA FinishTypes ==
  ASSUME EngineTypes, NEW s \in State, Finish(s)
  PROVE  EngineTypes'
<1>1. s.kind \in Kind
  BY DEF State
<1>2. outbox' \in Seq(Kind)
  BY <1>1 DEF Finish
<1> QED
  BY <1>2, IdleIsState DEF EngineTypes, Finish, Return, NoOrder, Order

LEMMA HearsTypes ==
  ASSUME EngineTypes, EngineHears \/ RecvUpdateStrategy
  PROVE  EngineTypes'
<1>1. CASE RecvPrice
  <2> DEFINE c == Head(inbox)
  <2>1. inbox' \in Seq(Inputs) /\ c \in Inputs /\ c.type = "Price"
    BY <1>1, TakeType DEF RecvPrice
  <2>2. c.arg \in Nat
    BY <2>1, InputsAre, EngineAssumption
  <2>3. Aged(c.arg) \in State
    BY <2>2, AgedState
  <2>4. Refreshed(Aged(c.arg)) \in State
    BY <2>3, RefreshedState
  <2> QED
    BY <1>1, <2>1, <2>3, <2>4 DEF RecvPrice, EngineTypes, NoOrder, Order
<1>2. CASE RecvParams
  <2>1. /\ inbox' \in Seq(Inputs)
        /\ Head(inbox).type \in {"Margin", "Position"}
        /\ Head(inbox).type = "Margin" => Head(inbox).arg \in Margins
        /\ Head(inbox).type = "Position" => Head(inbox).arg \in Positions \cup {None}
    BY <1>2, TakeType, InputsAre DEF RecvParams
  <2> QED
    BY <1>2, <2>1 DEF RecvParams, EngineTypes
<1>3. CASE RecvOpenFailed
  <2>1. inbox' \in Seq(Inputs)
    BY <1>3, TakeType DEF RecvOpenFailed
  <2>2. outbox' \in Seq(Kind)
    BY <1>3, ToldIdle DEF RecvOpenFailed, EngineTypes
  <2> QED
    BY <1>3, <2>1, <2>2, IdleIsState DEF RecvOpenFailed, EngineTypes
<1>4. CASE RecvIndicators
  BY <1>4, TakeType DEF RecvIndicators, EngineTypes
<1>5. CASE RecvToggle
  <2>1. inbox' \in Seq(Inputs)
    BY <1>5, TakeType DEF RecvToggle
  <2>2. outbox' \in Seq(Kind)
    BY <1>5, ToldIdle DEF RecvToggle, EngineTypes
  <2> QED
    BY <1>5, <2>1, <2>2, IdleIsState DEF RecvToggle, EngineTypes
<1>6. CASE RecvStop
  BY <1>6, TakeType DEF RecvStop, EngineTypes
<1>7. CASE RecvUpdateStrategy
  BY <1>7, TakeType, IdleIsState DEF RecvUpdateStrategy, EngineTypes
<1> QED
  BY <1>1, <1>2, <1>3, <1>4, <1>5, <1>6, <1>7 DEF EngineHears

LEMMA AnswerTypes ==
  ASSUME EngineTypes, NEW i \in Intent, Answer(i)
  PROVE  EngineTypes'
<1>1. CASE StratIgnored(i)
  BY <1>1, IdleIsState DEF StratIgnored, Return, EngineTypes, NoOrder, Order
<1>2. CASE StratArm(i)
  <2>1. i.arg \in Nat /\ state \in State
    BY DEF Intent, EngineTypes
  <2> QED
    BY <1>2, <2>1, FinishTypes, IdleIsState, ArmedIsState DEF StratArm
<1>3. CASE StratRejected(i)
  BY <1>3, FinishTypes DEF StratRejected, EngineTypes
<1>4. CASE StratOrder(i)
  BY <1>4, OrdersCovered DEF StratOrder, Send, EngineTypes
<1>5. CASE StratAbort(i)
  BY <1>5 DEF StratAbort, Send, EngineTypes, NoOrder, Order
<1> QED
  BY <1>1, <1>2, <1>3, <1>4, <1>5 DEF Answer

\* A free strategy answers nothing or an intent.
LEMMA StratAnswers ==
  ASSUME EngineTypes, Strat
  PROVE  StratQuiet \/ \E i \in Intent : Answer(i)
<1>1. Strategy[state.kind] \subseteq Intent
  BY EngineAssumption DEF EngineTypes, State
<1> QED
  BY <1>1 DEF Strat

LEMMA QuietTypes == ASSUME EngineTypes, StratQuiet PROVE EngineTypes'
BY FinishTypes DEF StratQuiet, EngineTypes

LEMMA SentTypes ==
  ASSUME EngineTypes, Forced \/ Sent
  PROVE  EngineTypes'
<1>1. CASE Forced
  BY <1>1, IdleIsState DEF Forced, EngineTypes, NoOrder, Order
<1>2. CASE Sent
  <2>1. want.op \in {"Open", "Close", "ForceClose"}
    BY DEF EngineTypes, Order
  <2>2. PICK s \in State : Finish(s)
    BY <1>2, <2>1, IdleIsState DEF Sent
  <2> QED
    BY <2>2, FinishTypes
<1> QED
  BY <1>1, <1>2

=============================================================================
