---------------------------- MODULE SignalEngine ----------------------------
(***************************************************************************)
(* The SignalEngine task of one market (src/signal/engine.rs): it takes    *)
(* prices and executor news from its inbox, asks the strategy what to do,  *)
(* and sends orders on the trade channel.                                  *)
(*                                                                         *)
(* The trade channel has no buffer and its send blocks, so the handler of  *)
(* a price stops at each order until the executor takes it.  One price can *)
(* need two sends: the ForceClose of a timeout, then the strategy's order. *)
(*   "recv"     waiting for a command                                      *)
(*   "forcing"  refresh_state is sending ForceClose                        *)
(*   "tick"     the state is fresh, the strategy comes next                *)
(*   "sending"  an order, or the ForceClose of Abort, is being sent        *)
(*   "stopped"  the task returned                                          *)
(*                                                                         *)
(* Time is price.open_time, in candles of one minute: a price says how     *)
(* many candles it is past the one before, and a state with an expiry      *)
(* counts those it has left.  Amounts are whole numbers valued at a price  *)
(* of one, and a position is its size.  Indicators are not modelled: what  *)
(* a strategy answers is a choice.                                         *)
(***************************************************************************)
EXTENDS Integers, Sequences

CONSTANTS
  None,        \* Option::None
  Positions,   \* sizes of the positions the executor may announce
  Margins,     \* margins the bot may assign
  Jumps,       \* candles a price may be past the one before
  Strategy     \* Strategy[k]: the intents it may have in a state of kind k

MIN_ORDER_VALUE      == 1
MARKET_ORDER_TIMEOUT == 1      \* one candle of a minute

Kind == {"Idle", "Armed", "Opening", "Open", "Closing"}

\* arg is the notional of Open, the size of Close, the candles of Arm.
Intent ==
  [op : {"Open", "Close", "Flatten", "Arm", "Disarm", "Abort"}, arg : Nat]

\* The intents of the strategies in strats/: none while the engine is busy.
MayAnswer == [k \in Kind |-> CASE k = "Idle"  -> {"Open", "Arm"}
                              [] k = "Armed" -> {"Open", "Arm", "Disarm"}
                              [] k = "Open"  -> {"Flatten"}
                              [] OTHER -> {}]

ASSUME EngineAssumption ==
  /\ None \notin Nat
  /\ Positions \subseteq Nat \ {0}
  /\ Margins \subseteq Nat
  /\ Jumps \subseteq Nat
  /\ Strategy \in [Kind -> SUBSET Intent]

VARIABLES
  inbox,    \* engine_rv, unbounded
  state,    \* SignalEngine.state
  openPos,  \* exec_params.open_pos
  margin,   \* exec_params.margin
  paused,   \* SignalEngine.paused
  pc,       \* where the task is
  begun,    \* init_state of the price being handled
  want,     \* the command being sent on the trade channel
  outbox    \* the view being sent to the market channel, at most one

engineVars == <<inbox, state, openPos, margin, paused, pc, begun, want, outbox>>

-----------------------------------------------------------------------------
\* EngineState.  left: candles to the expiry; pos: the position of Open.

State == [kind : Kind, left : Nat, pos : Positions \cup {None}]

Idle     == [kind |-> "Idle", left |-> 0, pos |-> None]
Armed(n) == [kind |-> "Armed", left |-> n, pos |-> None]
Open(p)  == [kind |-> "Open", left |-> 0, pos |-> p]
Opening  == [kind |-> "Opening", left |-> MARKET_ORDER_TIMEOUT, pos |-> None]
Closing  == [kind |-> "Closing", left |-> MARKET_ORDER_TIMEOUT, pos |-> None]

Busy == state.kind \in {"Opening", "Closing"}

Order   == [op : {"Open", "Close", "ForceClose"}, size : Nat]
NoOrder == [op |-> "ForceClose", size |-> 0]

Command == [type : {"Price", "Bulk", "Margin", "Position", "OpenFailed",
                    "UpdateStrategy", "EditIndicators", "ExecToggle", "Stop"},
            arg : Nat \cup {None}]

Cmd(t) == [type |-> t, arg |-> None]

\* Commands carry what their senders put in them.
Inputs == [type : {"Price"}, arg : Jumps]
            \cup [type : {"Margin"}, arg : Margins]
            \cup [type : {"Position"}, arg : Positions \cup {None}]
            \cup {Cmd(t) : t \in {"Bulk", "OpenFailed", "UpdateStrategy",
                                  "EditIndicators", "ExecToggle", "Stop"}}

FreeMargin ==
  IF openPos = None THEN margin
  ELSE IF openPos > margin THEN 0 ELSE margin - openPos

\* The state once n candles have gone by.
Aged(n) == [state EXCEPT !.left = IF n > @ THEN 0 ELSE @ - n]

-----------------------------------------------------------------------------
\* refresh_state.  An expired order is force closed on the way to Idle.

Expired(s) ==
  /\ s.left = 0
  /\ \/ s.kind = "Opening" /\ openPos = None
     \/ s.kind = "Closing" /\ openPos # None

\* Mutant: an expired arm is kept.
RefreshedForever(s) ==
  CASE s.kind \in {"Idle", "Opening"} /\ openPos # None -> Open(openPos)
    [] s.kind = "Open" -> IF openPos = None THEN Idle ELSE Open(openPos)
    [] s.kind = "Closing" /\ openPos = None -> Idle
    [] OTHER -> s

\* Mutant: a position is adopted from Opening only.
RefreshedOpening(s) ==
  CASE s.kind = "Opening" /\ openPos # None -> Open(openPos)
    [] s.kind = "Open" -> IF openPos = None THEN Idle ELSE Open(openPos)
    [] s.kind = "Closing" /\ openPos = None -> Idle
    [] s.kind = "Armed" /\ s.left = 0 -> Idle
    [] OTHER -> s

\* Mutant: a position is adopted while it is being closed, too.
RefreshedClosing(s) ==
  CASE s.kind # "Armed" /\ openPos # None -> Open(openPos)
    [] s.kind \in {"Open", "Closing"} /\ openPos = None -> Idle
    [] s.kind = "Armed" /\ s.left = 0 -> Idle
    [] OTHER -> s

Refreshed(s) ==
  CASE s.kind \in {"Idle", "Opening"} /\ openPos # None -> Open(openPos)
    [] s.kind = "Open" -> IF openPos = None THEN Idle ELSE Open(openPos)
    [] s.kind = "Closing" /\ openPos = None -> Idle
    [] s.kind = "Armed" /\ s.left = 0 -> Idle
    [] OTHER -> s

-----------------------------------------------------------------------------
\* translate_intent and validate_trade: the orders that reach the channel.

\* Mutant: the free margin is not looked at.
OpenOrderUnchecked(i) ==
  {o \in {[op |-> "Open", size |-> i.arg]} :
     i.op = "Open" /\ o.size >= MIN_ORDER_VALUE}

OpenOrder(i) ==
  {o \in {[op |-> "Open", size |-> i.arg]} :
     /\ i.op = "Open"
     /\ o.size <= FreeMargin
     /\ o.size >= MIN_ORDER_VALUE}

\* Mutant: a close is not compared with the position and the minimum.
CloseOrderUnchecked(i) ==
  {o \in {[op |-> "Close", size |-> IF i.op = "Close" THEN i.arg ELSE openPos]} :
     i.op \in {"Close", "Flatten"} /\ openPos # None}

CloseOrder(i) ==
  {o \in {[op |-> "Close", size |-> IF i.op = "Close" THEN i.arg ELSE openPos]} :
     /\ i.op \in {"Close", "Flatten"}
     /\ openPos # None
     /\ o.size >= openPos \/ o.size >= MIN_ORDER_VALUE}

Orders(i) == OpenOrder(i) \cup CloseOrder(i)

-----------------------------------------------------------------------------
\* The commands.

Take(types) ==
  /\ pc = "recv" /\ outbox = <<>>
  /\ inbox # <<>> /\ Head(inbox).type \in types
  /\ inbox' = Tail(inbox)

\* The handler of a price returns, and its locals are gone.
Return == pc' = "recv" /\ begun' = Idle /\ want' = NoOrder

\* It ends in state s: the change is told, if any.
Finish(s) ==
  /\ Return
  /\ state' = s
  /\ outbox' = IF s = begun THEN <<>> ELSE <<s.kind>>
  /\ UNCHANGED <<inbox, openPos, margin, paused>>

\* Mutant: init_state is saved after refresh_state.
RecvPriceSavedLate ==
  /\ Take({"Price"})
  /\ IF paused
     THEN UNCHANGED <<state, pc, begun, want>>
     ELSE LET s == Aged(Head(inbox).arg)
          IN  /\ begun' = IF Expired(s) THEN s ELSE Refreshed(s)
              /\ state' = IF Expired(s) THEN s ELSE Refreshed(s)
              /\ pc' = IF Expired(s) THEN "forcing" ELSE "tick"
              /\ want' = NoOrder
  /\ UNCHANGED <<openPos, margin, paused, outbox>>

RecvPrice ==
  /\ Take({"Price"})
  /\ IF paused
     THEN UNCHANGED <<state, pc, begun, want>>
     ELSE LET s == Aged(Head(inbox).arg)
          IN  /\ begun' = s
              /\ state' = IF Expired(s) THEN s ELSE Refreshed(s)
              /\ pc' = IF Expired(s) THEN "forcing" ELSE "tick"
              /\ want' = NoOrder
  /\ UNCHANGED <<openPos, margin, paused, outbox>>

\* The ForceClose of a timeout was taken.
Forced ==
  /\ pc = "forcing"
  /\ state' = Idle
  /\ pc' = "tick" /\ want' = NoOrder
  /\ UNCHANGED <<inbox, openPos, margin, paused, begun, outbox>>

StratQuiet ==
  /\ pc = "tick"
  /\ Finish(state)

\* An intent other than Abort while busy: continue, without the event.
StratIgnored(i) ==
  /\ pc = "tick" /\ Busy /\ i.op # "Abort"
  /\ Return
  /\ UNCHANGED <<inbox, state, openPos, margin, paused, outbox>>

StratArm(i) ==
  /\ pc = "tick" /\ ~Busy
  /\ \/ i.op = "Arm" /\ Finish(IF state = Idle THEN Armed(i.arg) ELSE state)
     \/ i.op = "Disarm" /\ Finish(IF state.kind = "Armed" THEN Idle ELSE state)

\* A rejected trade changes nothing; the handler still ends normally.
StratRejected(i) ==
  /\ pc = "tick" /\ ~Busy
  /\ i.op \in {"Open", "Close", "Flatten"} /\ Orders(i) = {}
  /\ Finish(state)

Send(o) ==
  /\ want' = o
  /\ pc' = "sending"
  /\ UNCHANGED <<inbox, state, openPos, margin, paused, begun, outbox>>

StratOrder(i) ==
  /\ pc = "tick" /\ ~Busy
  /\ \E o \in Orders(i) : Send(o)

StratAbort(i) ==
  /\ pc = "tick" /\ i.op = "Abort"
  /\ Send(NoOrder)

\* The order was taken, or the ForceClose of Abort.
Sent ==
  /\ pc = "sending"
  /\ Finish(CASE want.op = "Open" -> Opening
              [] want.op = "Close" -> Closing
              [] want.op = "ForceClose" -> Idle)

Answer(i) == \/ StratIgnored(i) \/ StratArm(i) \/ StratRejected(i)
             \/ StratOrder(i) \/ StratAbort(i)

Strat == StratQuiet \/ \E i \in Strategy[state.kind] : Answer(i)

\* Mutant: the two parameters are swapped.
RecvParamsSwapped ==
  /\ Take({"Margin", "Position"})
  /\ LET c == Head(inbox)
     IN  IF c.type = "Position"
         THEN margin' = c.arg /\ UNCHANGED openPos
         ELSE openPos' = c.arg /\ UNCHANGED margin
  /\ UNCHANGED <<state, paused, pc, begun, want, outbox>>

\* UpdateExecParams
RecvParams ==
  /\ Take({"Margin", "Position"})
  /\ LET c == Head(inbox)
     IN  IF c.type = "Margin"
         THEN margin' = c.arg /\ UNCHANGED openPos
         ELSE openPos' = c.arg /\ UNCHANGED margin
  /\ UNCHANGED <<state, paused, pc, begun, want, outbox>>

\* Mutant: nobody is told.
RecvOpenFailedUntold ==
  /\ Take({"OpenFailed"})
  /\ openPos' = None
  /\ state' = Idle
  /\ UNCHANGED <<margin, paused, pc, begun, want, outbox>>

RecvOpenFailed ==
  /\ Take({"OpenFailed"})
  /\ openPos' = None
  /\ state' = Idle
  /\ outbox' = IF state = Idle THEN <<>> ELSE <<"Idle">>
  /\ UNCHANGED <<margin, paused, pc, begun, want>>

\* The new strategy starts from Idle; nobody is told.
RecvUpdateStrategy ==
  /\ Take({"UpdateStrategy"})
  /\ state' = Idle
  /\ UNCHANGED <<openPos, margin, paused, pc, begun, want, outbox>>

\* These change indicators only.
RecvIndicators ==
  /\ Take({"Bulk", "EditIndicators"})
  /\ UNCHANGED <<state, openPos, margin, paused, pc, begun, want, outbox>>

RecvToggle ==
  /\ Take({"ExecToggle"})
  /\ paused' = ~paused
  /\ IF paused
     THEN UNCHANGED <<state, outbox>>
     ELSE state' = Idle /\ outbox' = <<"Idle">>
  /\ UNCHANGED <<openPos, margin, pc, begun, want>>

RecvStop ==
  /\ Take({"Stop"})
  /\ pc' = "stopped"
  /\ UNCHANGED <<state, openPos, margin, paused, begun, want, outbox>>

\* Every command but a change of the strategy.
EngineHears == RecvPrice \/ RecvParams \/ RecvOpenFailed \/ RecvIndicators
                 \/ RecvToggle \/ RecvStop

\* A step of the task that needs no other.
EngineStep == EngineHears \/ Strat \/ RecvUpdateStrategy

EngineInit ==
  /\ inbox = <<>> /\ state = Idle /\ openPos = None
  /\ margin \in Margins
  /\ paused = FALSE /\ pc = "recv" /\ begun = Idle /\ want = NoOrder
  /\ outbox = <<>>
=============================================================================
