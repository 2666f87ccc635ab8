------------------------------- MODULE Market -------------------------------
(***************************************************************************)
(* One market (src/market.rs): its engine, its executor, the relay between *)
(* them and the bot, the candle stream, and what the bot (src/bot.rs)      *)
(* keeps of it and does to it, from spawn to the abort of its tasks.       *)
(*                                                                         *)
(*   engine  --trade channel, no buffer-->  executor  <--same--  bot       *)
(*   engine, executor  --market channel, bounded-->  relay                 *)
(*   relay  --inbox, unbounded-->  engine;  relay  --events-->  bot        *)
(*                                                                         *)
(* The engine is SignalEngine; the executor is the TradeCycle it is proved *)
(* to implement, joined to the guards under which it takes a command.      *)
(* IndicatorData, SwapFill and the prices of MarketEvent change at most    *)
(* what is displayed and are left out of the channels.                     *)
(***************************************************************************)
EXTENDS SignalEngine

CONSTANTS
  MarketCap,   \* capacity of the market channel (256)
  Backlog,     \* bound: with as many messages waiting, candles, the chain
               \* and the user wait too
  Controls     \* what the user may ask for, see MarketAssumption

ASSUME MarketAssumption ==
  /\ MarketCap \in Nat \ {0} /\ Backlog \in Nat \ {0}
  /\ Controls \subseteq {"Pause", "Resume", "Remove", "Margin"}

VARIABLES
  mode, told,    \* the executor's trade cycle
  execOut,       \* the commands it is sending to the market channel
  execPaused,    \* Executor.is_paused
  retried,       \* the buy in flight is the second, OPEN_MAX_ATTEMPTS
  marketQ,       \* the market channel
  events,        \* market_event_rx of the bot, unbounded
  session,       \* the bot's MarketState
  plan,          \* the controls the bot is sending, one after the other
  phase          \* "spawning", "running", "removing" or "gone"

execVars == <<mode, told, execOut, execPaused, retried>>
botVars  == <<session, plan, phase>>
vars     == <<engineVars, execVars, marketQ, events, botVars>>

Cycle == INSTANCE TradeCycle WITH emitted <- execOut

Holding == Cycle!Holding

\* An EngineState(view) travels as the view itself.
Message(t, a) == [type |-> t, arg |-> a]

-----------------------------------------------------------------------------
\* The executor.

\* A close that is not ignored: submitted, or failed and synced.
StartsClosing ==
  Cycle!Sell \/ Cycle!Keep \/ Cycle!Leave \/ Cycle!Quiet

Pauses(p) ==
  /\ execPaused' = p /\ UNCHANGED retried
  /\ Cycle!Step(mode, {IF p THEN <<"Paused">> ELSE <<"Resumed">>}, told)

\* Mutant: the executor waits in the handler until its swap is decided.
TakesUndisturbed(op) ==
  /\ execOut = <<>> /\ mode \in {"flat", "holding"}
  /\ CASE op = "Open" /\ ~execPaused /\ mode = "flat" ->
            (Cycle!Start \/ Cycle!Refuse) /\ retried' = FALSE /\ UNCHANGED execPaused
       [] op \in {"Close", "ForceClose", "Kill"} /\ mode = "holding" ->
            StartsClosing /\ UNCHANGED <<execPaused, retried>>
       [] op \in {"Pause", "Resume"} -> Pauses(op = "Pause")
       [] OTHER -> UNCHANGED execVars

\* The executor at its select! takes a command; what it ignores changes
\* nothing.
Takes(op) ==
  /\ execOut = <<>>
  /\ CASE op = "Open" /\ ~execPaused /\ mode = "flat" ->
            (Cycle!Start \/ Cycle!Refuse) /\ retried' = FALSE /\ UNCHANGED execPaused
       [] op = "Close" /\ ~execPaused /\ mode = "holding" ->
            StartsClosing /\ UNCHANGED <<execPaused, retried>>
       [] op \in {"ForceClose", "Kill"} /\ mode = "holding" ->
            StartsClosing /\ UNCHANGED <<execPaused, retried>>
       [] op = "Pause"  -> Pauses(TRUE)
       [] op = "Resume" -> Pauses(FALSE)
       [] OTHER -> UNCHANGED execVars

Room == Len(inbox) + Len(marketQ) + Len(events) < Backlog

\* poll_pending decides what is in flight.
BuyDecided ==
  /\ Room /\ execOut = <<>> /\ (Cycle!Buy \/ Cycle!GiveUp) /\ retried' = FALSE
  /\ UNCHANGED <<engineVars, execPaused, marketQ, events, botVars>>

PollsOn ==
  /\ Room /\ execOut = <<>>
  /\ \/ ~retried /\ Cycle!Miss /\ retried' = TRUE
     \/ mode = "selling" /\ (Cycle!Keep \/ Cycle!Leave) /\ UNCHANGED retried
  /\ UNCHANGED <<engineVars, execPaused, marketQ, events, botVars>>

\* market_tx.send of the executor and of the engine.
ExecSends ==
  /\ execOut # <<>> /\ Len(marketQ) < MarketCap
  /\ IF Head(execOut) = "SwapFill"
     THEN UNCHANGED marketQ
     ELSE \E p \in IF Head(execOut) = "OpenPosition" THEN Positions ELSE {None} :
            marketQ' = Append(marketQ, Message(Head(execOut), p))
  /\ execOut' = Tail(execOut)
  /\ UNCHANGED <<engineVars, mode, told, execPaused, retried, events, botVars>>

EngineSends ==
  /\ outbox # <<>> /\ Len(marketQ) < MarketCap
  /\ marketQ' = Append(marketQ, Message(Head(outbox), None))
  /\ outbox' = Tail(outbox)
  /\ UNCHANGED <<inbox, state, openPos, margin, paused, pc, begun, want,
                 execVars, events, botVars>>

-----------------------------------------------------------------------------
\* The trade channel: a send and a receive are one step.

EngineOrders ==
  /\ Forced \/ Sent
  /\ Takes(want.op)
  /\ UNCHANGED <<marketQ, events, botVars>>

BotControls ==
  /\ plan # <<>>
  /\ Takes(Head(plan))
  /\ plan' = Tail(plan)
  /\ UNCHANGED <<engineVars, marketQ, events, session, phase>>

-----------------------------------------------------------------------------
\* relay_task: news of the position goes to the engine, everything to the bot.

\* Mutant: OpenFailed is not forwarded, and a None is not news.
EngineNewsOfFills(m) ==
  IF m.type = "OpenPosition" THEN <<[type |-> "Position", arg |-> m.arg]>>
                             ELSE <<>>

EngineNews(m) ==
  CASE m.type \in {"OpenPosition", "NoPosition"} ->
         <<[type |-> "Position", arg |-> m.arg]>>
    [] m.type = "OpenFailed" -> <<Cmd("OpenFailed")>>
    [] OTHER -> <<>>

Relay ==
  /\ marketQ # <<>>
  /\ marketQ' = Tail(marketQ)
  /\ inbox' = inbox \o EngineNews(Head(marketQ))
  /\ events' = Append(events, Head(marketQ))
  /\ UNCHANGED <<state, openPos, margin, paused, pc, begun, want, outbox,
                 execVars, botVars>>

\* stream_task: a candle, or the same candle again.
Candle(j) ==
  /\ Room
  /\ inbox' = Append(inbox, [type |-> "Price", arg |-> j])
  /\ UNCHANGED <<state, openPos, margin, paused, pc, begun, want, outbox,
                 execVars, marketQ, events, botVars>>

-----------------------------------------------------------------------------
\* The bot.  While it sends controls, and through the whole of add_market and
\* remove_market, it handles no events.

NoSession == [view |-> "Idle", pos |-> None, margin |-> None, isPaused |-> FALSE]

ToEngine(c) == inbox' = Append(inbox, c)

MarginCmd(m) == [type |-> "Margin", arg |-> m]

BotOnly == UNCHANGED <<state, openPos, margin, paused, pc, begun, want, outbox,
                       execVars, marketQ>>

AtSelect == phase = "running" /\ plan = <<>>

\* Mutant: the engine is sent the margin before the session has one.
AdoptUnassigned(m) ==
  /\ phase = "spawning"
  /\ session' = [NoSession EXCEPT !.margin = m]
  /\ ToEngine(MarginCmd(session.margin))
  /\ phase' = "running"
  /\ BotOnly /\ UNCHANGED <<events, plan>>

\* add_market once spawn has returned: the engine gets its margin.
Adopt(m) ==
  /\ phase = "spawning"
  /\ session' = [NoSession EXCEPT !.margin = m]
  /\ ToEngine(MarginCmd(m))
  /\ phase' = "running"
  /\ BotOnly /\ UNCHANGED <<events, plan>>

\* Mutant: OpenPosition(None) leaves the position shown.
AppliedWithoutNone(m) ==
  CASE m.type = "OpenPosition" -> [session EXCEPT !.pos = m.arg]
    [] m.type \in Kind ->
         [session EXCEPT !.view = m.type,
                         !.pos = IF m.type = "Idle" THEN None ELSE @]
    [] m.type = "Trade" -> [session EXCEPT !.view = "Idle"]
    [] m.type = "OpenFailed" -> [session EXCEPT !.view = "Idle", !.pos = None]
    [] m.type \in {"Paused", "Resumed"} ->
         [session EXCEPT !.isPaused = m.type = "Paused"]
    [] OTHER -> session

\* handle_market_event on the MarketState.
Applied(m) ==
  CASE m.type \in {"OpenPosition", "NoPosition"} -> [session EXCEPT !.pos = m.arg]
    [] m.type \in Kind ->
         [session EXCEPT !.view = m.type,
                         !.pos = IF m.type = "Idle" THEN None ELSE @]
    [] m.type \in {"OpenFailed", "Trade"} ->
         [session EXCEPT !.view = "Idle", !.pos = None]
    [] m.type \in {"Paused", "Resumed"} ->
         [session EXCEPT !.isPaused = m.type = "Paused"]
    [] OTHER -> session

\* A Trade also compounds: the margin moves, or stays when the profit rounds
\* to nothing or the Trade was counted before.
Handle ==
  /\ AtSelect /\ events # <<>>
  /\ events' = Tail(events)
  /\ \E m \in IF Head(events).type = "Trade" THEN Margins ELSE {session.margin} :
       /\ session' = [Applied(Head(events)) EXCEPT !.margin = m]
       /\ IF m = session.margin THEN UNCHANGED inbox ELSE ToEngine(MarginCmd(m))
  /\ BotOnly /\ UNCHANGED <<plan, phase>>

\* Mutant: the session is updated, the engine is not told.
UpdateMarginBookOnly(m) ==
  /\ "Margin" \in Controls /\ AtSelect /\ Room
  /\ session.view \notin {"Open", "Opening", "Closing"}
  /\ session' = [session EXCEPT !.margin = m]
  /\ BotOnly /\ UNCHANGED <<inbox, events, plan, phase>>

\* update_margin, refused while the session shows a position or an order.
UpdateMargin(m) ==
  /\ "Margin" \in Controls /\ AtSelect /\ Room
  /\ session.view \notin {"Open", "Opening", "Closing"}
  /\ m # session.margin
  /\ session' = [session EXCEPT !.margin = m]
  /\ ToEngine(MarginCmd(m))
  /\ BotOnly /\ UNCHANGED <<events, plan, phase>>

Control(c, controls, next) ==
  /\ c \in Controls
  /\ AtSelect /\ Room
  /\ plan' = controls
  /\ phase' = next
  /\ UNCHANGED <<engineVars, execVars, marketQ, events, session>>

\* PauseMarket and ResumeMarket; remove_market and close_all.
UserControls ==
  \/ Control("Pause", <<"Pause">>, "running")
  \/ Control("Resume", <<"Resume">>, "running")
  \/ Control("Remove", <<"Pause", "ForceClose", "Kill">>, "removing")

\* CLOSE_GRACE_SECS later stop aborts every task, wherever it is.
Abort ==
  /\ phase = "removing" /\ plan = <<>>
  /\ phase' = "gone"
  /\ session' = NoSession
  /\ UNCHANGED <<engineVars, execVars, marketQ, events, plan>>

-----------------------------------------------------------------------------
Init ==
  /\ EngineInit
  /\ mode = "flat" /\ told = FALSE /\ execOut = <<>> /\ execPaused = FALSE
  /\ retried = FALSE
  /\ marketQ = <<>> /\ events = <<>>
  /\ session = NoSession /\ plan = <<>> /\ phase = "spawning"

EngineAlone == EngineStep /\ UNCHANGED <<execVars, marketQ, events, botVars>>

Tasks == EngineAlone \/ EngineOrders \/ EngineSends \/ Relay
           \/ BuyDecided \/ PollsOn \/ ExecSends

Bot == \/ \E m \in Margins : Adopt(m) \/ UpdateMargin(m)
       \/ Handle \/ UserControls \/ BotControls \/ Abort

Gone == phase = "gone" /\ UNCHANGED vars

Next == \/ phase # "gone" /\ (Tasks \/ Bot \/ \E j \in Jumps : Candle(j))
        \/ Gone

Spec == Init /\ [][Next]_vars

(***************************************************************************)
(* Fairness: the tasks run, a sender waiting on the trade channel has its  *)
(* turn (flume serves them in order), a buy is decided (TradeCycleFair of  *)
(* Executor), the bot returns to its select!, and later candles keep       *)
(* coming.  Nobody has to command anything.                                *)
(***************************************************************************)
Alive(A) == phase # "gone" /\ A

FairSpec ==
  /\ Spec
  /\ WF_vars(Alive(EngineAlone)) /\ SF_vars(Alive(EngineOrders))
  /\ WF_vars(Alive(EngineSends)) /\ WF_vars(Alive(Relay))
  /\ SF_vars(Alive(BuyDecided)) /\ WF_vars(Alive(ExecSends))
  /\ SF_vars(Alive(BotControls)) /\ WF_vars(Alive(Handle))
  /\ WF_vars(\E m \in Margins : Adopt(m)) /\ WF_vars(Abort)
  /\ SF_vars(Alive(\E j \in Jumps \ {0} : Candle(j)))

-----------------------------------------------------------------------------
TypeOK ==
  /\ inbox \in Seq(Command) /\ state \in State
  /\ openPos \in Positions \cup {None} /\ margin \in Margins
  /\ pc \in {"recv", "forcing", "tick", "sending"}
  /\ mode \in Cycle!Modes
  /\ plan \in Seq({"Pause", "Resume", "ForceClose", "Kill"})
  /\ session.view \in Kind /\ session.pos \in Positions \cup {None}
  /\ phase \in {"spawning", "running", "removing", "gone"}

\* No news of the position is on its way to the engine.
NoNews == /\ execOut = <<>> /\ marketQ = <<>>
          /\ \A i \in DOMAIN inbox : inbox[i].type \notin {"Position", "OpenFailed"}

\* Through the two channels of the relay, with orders, timeouts and retries
\* crossing the news, the engine ends up knowing whether there is a position.
EngineKnows == NoNews => (openPos # None <=> Holding)

\* The bot never shows a position that is gone once it has heard all: there
\* is no order of events that leaves one standing.
ShownIsHeld == NoNews /\ events = <<>> => (session.pos # None => Holding)

\* Once all events are handled (AllTold) the session shows the engine's state, or the
\* Idle that a Trade or an OpenFailed made of it.
AllTold == /\ phase = "running" /\ NoNews /\ events = <<>>
           /\ outbox = <<>> /\ pc = "recv"

ViewFollows == AllTold => session.view \in {state.kind, "Idle"}

\* v is the last thing that queue q says, by the function says from news to
\* what they say, or what was known before if nothing in q is news.
Heard(q, says, before, v) ==
  \/ v = before /\ \A i \in DOMAIN q : q[i] \notin DOMAIN says
  \/ \E i \in DOMAIN q :
       /\ q[i] \in DOMAIN says /\ v = says[q[i]]
       /\ \A j \in DOMAIN q : j > i => q[j] \notin DOMAIN says

MarginSays == [c \in [type : {"Margin"}, arg : Margins] |-> c.arg]

\* The engine and the session agree on the margin but for messages in the
\* inbox, whoever changed it last, and once all is told the market is shown as
\* paused if and only if its executor is: a p on a screen that is fresh does
\* what it says.
SessionAgrees ==
  phase = "running" => /\ Heard(inbox, MarginSays, margin, session.margin)
                       /\ AllTold => session.isPaused = execPaused

\* Every position comes under the strategy's exit rule: the engine is Open at
\* some time while it is held.  (Not for a strategy that arms: see README.)
PositionManaged == Holding ~> state.kind = "Open" \/ ~Holding \/ phase = "gone"

\* Nobody waits for ever on the trade channel, though the engine, the bot and
\* the executor wait on each other through it and the market channel: the
\* engine's order is taken, and so are the controls of the bot, which handles
\* no event until then.
TradeChannelServed ==
  /\ pc \in {"forcing", "sending"} ~> pc \in {"recv", "tick"} \/ phase = "gone"
  /\ plan # <<>> ~> plan = <<>>

(***************************************************************************)
(* Statements of the repository that the code does not keep.               *)
(***************************************************************************)
\* README.md, "live UPNL when a position is open": once all is told, a position
\* that the executor holds and the engine manages is shown.
OpenIsShown == AllTold /\ state.kind = "Open" /\ mode = "holding" => session.pos # None
=============================================================================
