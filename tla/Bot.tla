-------------------------------- MODULE Bot --------------------------------
(***************************************************************************)
(* The Bot task (src/bot.rs) and its MarginBook (src/margin.rs): several   *)
(* markets share one wallet, each with a margin that three places keep -   *)
(* the book, the session the console sees, and the market's own engine.    *)
(*                                                                         *)
(* add_market, remove_market and close_all await (a spawn that fetches     *)
(* candles, controls, two seconds of grace): the bot handles nothing else  *)
(* meanwhile, but markets, their channels and the wallet go on.  Events    *)
(* carry only the mint, so those of a removed market are still there when  *)
(* the same mint is added again.                                           *)
(*                                                                         *)
(* Market models one market in full; here a market is the events it may    *)
(* send.  Amounts are whole units of lamports; a pnl is the lamports       *)
(* sol_to_lamports_delta makes of it.                                      *)
(***************************************************************************)
EXTENDS Integers, Sequences, FiniteSets, Functions

CONSTANTS
  Mints,      \* token mints, keys of 32 bytes
  Wallets,    \* balances the wallet may have
  Allocs,     \* the allocations the user asks for, see Allocation
  Updates,    \* the margins the user asks for
  Gains,      \* pnl of a Trade
  Reason,     \* the key "sync:.." of a position found closed by a sync
  MaxTx,      \* bound: signatures of closes
  MaxEvents,  \* bound: events waiting, the markets wait then
  Panics      \* whether an engine task may die (src/strats/rsi_ema_scalp.rs)

Allocation == [kind : {"Alloc", "AmountLamports"}, n : Nat]

ASSUME BotAssumption ==
  /\ Wallets \subseteq Nat /\ Wallets # {}
  /\ Allocs \subseteq Allocation /\ Updates \subseteq Nat /\ Gains \subseteq Int
  /\ MaxTx \in Nat /\ MaxEvents \in Nat /\ Panics \in BOOLEAN
  /\ Reason \notin Nat /\ IsFiniteSet(Mints)

VARIABLES
  wallet,   \* the balance on chain
  total,    \* margin_book.total_on_chain_lamports
  book,     \* margin_book.map
  markets,  \* the keys of Bot.markets
  session,  \* Bot.session: the figures of each MarketState
  tasks,    \* markets whose tasks run: the last margin sent to the engine,
            \* and whether the engine's receiver is gone
  events,   \* market_event_rx, unbounded in the code
  signed,   \* how many closes have a signature
  doing     \* what the bot is in the middle of

vars == <<wallet, total, book, markets, session, tasks, events, signed, doing>>

Views   == {"Idle", "Armed", "Opening", "Open", "Closing"}
Blocked == {"Open", "Opening", "Closing"}
Key     == 1 .. MaxTx \cup {Reason}

MarketState == [margin : Nat, view : Views, pnl : Int, trades : SUBSET Key]

View(m, v) == [type |-> "EngineState", mint |-> m, view |-> v]
Trade(m, k, g) == [type |-> "Trade", mint |-> m, key |-> k, pnl |-> g]

Select      == [op |-> "select"]
Adding(m)   == [op |-> "adding", mint |-> m]
Removing(m) == [op |-> "removing", mint |-> m]
Closing(ms, kill) == [op |-> "closing", left |-> ms, kill |-> kill]
Stopped     == [op |-> "stopped"]

-----------------------------------------------------------------------------
\* MarginBook

Used(b) == FoldFunction(LAMBDA x, y : x + y, 0, b)

\* total.saturating_sub(used), after a sync that finds t.
Free(t) == IF Used(book) > t THEN 0 ELSE t - Used(book)

With(f, m, v) == [x \in DOMAIN f \cup {m} |-> IF x = m THEN v ELSE f[x]]
Without(f, m) == [x \in DOMAIN f \ {m} |-> f[x]]

\* What allocate makes of a request, 0 when it is invalid.
Requested(a) ==
  IF a.kind = "AmountLamports" THEN a.n
  ELSE IF a.n \in 1 .. 100 THEN (Free(wallet) * a.n) \div 100 ELSE 0

Allocates(a) == Requested(a) \in 1 .. Free(wallet)

\* Mutant: the whole of total is taken to be free.
UpdatableOfTotal(m, n) == n <= total' + book[m]

\* update_asset's test, on the total just read.
Updatable(m, n) == n <= Free(total') + book[m]

\* sync, at the start of allocate and update_asset, by the clock, or failing.
Synced == total' = wallet

Sync ==
  /\ doing = Select
  /\ Synced
  /\ UNCHANGED <<wallet, book, markets, session, tasks, events, signed, doing>>

-----------------------------------------------------------------------------
\* add_market, in two parts around Market::spawn.

AddMarket(m, a) ==
  /\ doing = Select /\ m \notin markets
  /\ Synced
  /\ IF Allocates(a)
     THEN book' = With(book, m, Requested(a)) /\ doing' = Adding(m)
     ELSE UNCHANGED <<book, doing>>
  /\ UNCHANGED <<wallet, markets, session, tasks, events, signed>>

NewState(n) == [margin |-> n, view |-> "Idle", pnl |-> 0, trades |-> {}]

AddDone(m) ==
  /\ doing = Adding(m)
  /\ session' = With(session, m, NewState(book[m]))
  /\ tasks' = With(tasks, m, [margin |-> book[m], dead |-> FALSE])
  /\ markets' = markets \cup {m}
  /\ doing' = Select
  /\ UNCHANGED <<wallet, total, book, events, signed>>

\* Mutant: a failed spawn keeps its allocation.
AddFailedKept(m) ==
  /\ doing = Adding(m)
  /\ doing' = Select
  /\ UNCHANGED <<wallet, total, book, markets, session, tasks, events, signed>>

\* The spawn fails, or the engine is gone before it is sent its margin.
AddFailed(m) ==
  /\ doing = Adding(m)
  /\ book' = Without(book, m)
  /\ doing' = Select
  /\ UNCHANGED <<wallet, total, markets, session, tasks, events, signed>>

-----------------------------------------------------------------------------
\* remove_market; the second part follows the controls and the grace.

RemoveMarket(m) ==
  /\ doing = Select /\ m \in markets
  /\ markets' = markets \ {m}
  /\ doing' = Removing(m)
  /\ UNCHANGED <<wallet, total, book, session, tasks, events, signed>>

RemoveDone(m) ==
  /\ doing = Removing(m)
  /\ tasks' = Without(tasks, m)
  /\ book' = Without(book, m)
  /\ session' = Without(session, m)
  /\ doing' = Select
  /\ UNCHANGED <<wallet, total, markets, events, signed>>

\* close_all: one market after the other, for CloseAll and for Kill.

CloseAll(kill) ==
  /\ doing = Select
  /\ markets' = {}
  /\ doing' = Closing(markets, kill)
  /\ UNCHANGED <<wallet, total, book, session, tasks, events, signed>>

CloseNext(m) ==
  /\ doing.op = "closing" /\ m \in doing.left
  /\ tasks' = Without(tasks, m)
  /\ book' = Without(book, m)
  /\ doing' = [doing EXCEPT !.left = @ \ {m}]
  /\ UNCHANGED <<wallet, total, markets, session, events, signed>>

CloseDone ==
  /\ doing.op = "closing" /\ doing.left = {}
  /\ session' = <<>> /\ book' = <<>>
  /\ doing' = IF doing.kill THEN Stopped ELSE Select
  /\ UNCHANGED <<wallet, total, markets, tasks, events, signed>>

-----------------------------------------------------------------------------
\* Market::update_margin fails when the engine's receiver is gone.

Told(m, n) == tasks' = [tasks EXCEPT ![m].margin = n]

\* Mutant: the session is left as it was.
UpdateMarginUnseen(m, n) ==
  /\ doing = Select /\ m \in DOMAIN session
  /\ session[m].view \notin Blocked
  /\ Synced
  /\ book' = IF Updatable(m, n) THEN With(book, m, n) ELSE book
  /\ IF Updatable(m, n) /\ ~tasks[m].dead THEN Told(m, n) ELSE UNCHANGED tasks
  /\ UNCHANGED <<wallet, markets, session, events, signed, doing>>

\* update_margin: the book is changed first and not changed back.
UpdateMargin(m, n) ==
  /\ doing = Select /\ m \in DOMAIN session
  /\ session[m].view \notin Blocked
  /\ Synced
  /\ book' = IF Updatable(m, n) THEN With(book, m, n) ELSE book
  /\ IF Updatable(m, n) /\ ~tasks[m].dead
     THEN Told(m, n) /\ session' = [session EXCEPT ![m].margin = n]
     ELSE UNCHANGED <<tasks, session>>
  /\ UNCHANGED <<wallet, markets, events, signed, doing>>

\* Mutant: a plain sum.
CompoundedPlain(n, g) == n + g

\* apply_lamports_delta
Compounded(n, g) == IF n + g < 0 THEN 0 ELSE n + g

\* Mutant: without the change back.
CompoundKept(m, g, s) ==
  LET n == Compounded(session[m].margin, g)
  IN  /\ book' = With(book, m, n)
      /\ IF tasks[m].dead
         THEN UNCHANGED tasks /\ session' = [session EXCEPT ![m] = s]
         ELSE Told(m, n) /\ session' = [session EXCEPT ![m] = [s EXCEPT !.margin = n]]

\* compound_margin_from_trade_pnl on a session that becomes s: the book is
\* changed without a look at what is free, and changed back to the margin of
\* the session when the engine cannot be told.
Compound(m, g, s) ==
  LET n == Compounded(session[m].margin, g)
  IN  IF n = session[m].margin
      THEN session' = [session EXCEPT ![m] = s] /\ UNCHANGED <<book, tasks>>
      ELSE IF tasks[m].dead
      THEN /\ book' = With(book, m, session[m].margin)
           /\ session' = [session EXCEPT ![m] = s]
           /\ UNCHANGED tasks
      ELSE /\ book' = With(book, m, n)
           /\ Told(m, n)
           /\ session' = [session EXCEPT ![m] = [s EXCEPT !.margin = n]]

\* The session a Trade leaves, before its margin is compounded.
Recorded(e) ==
  [session[e.mint] EXCEPT !.view = "Idle", !.trades = @ \cup {e.key},
                          !.pnl = @ + e.pnl]

HandleTrade(e) ==
  IF e.key \in session[e.mint].trades
  THEN /\ session' = [session EXCEPT ![e.mint].view = "Idle"]
       /\ UNCHANGED <<book, tasks>>
  ELSE Compound(e.mint, e.pnl, Recorded(e))

\* handle_market_event
Handle ==
  /\ doing = Select /\ events # <<>>
  /\ events' = Tail(events)
  /\ LET e == Head(events)
     IN  CASE e.mint \notin DOMAIN session -> UNCHANGED <<session, book, tasks>>
           [] e.type = "EngineState" /\ e.mint \in DOMAIN session ->
                /\ session' = [session EXCEPT ![e.mint].view = e.view]
                /\ UNCHANGED <<book, tasks>>
           [] OTHER -> HandleTrade(e)
  /\ UNCHANGED <<wallet, total, markets, signed, doing>>

-----------------------------------------------------------------------------
\* The markets and the wallet, whatever the bot is doing.

Running == doing # Stopped

\* An EngineState, Open for the three that block; the executor's OpenFailed
\* shows Idle, too.
MarketTells(m, v) ==
  /\ Running /\ m \in DOMAIN tasks
  /\ v = "Idle" \/ ~tasks[m].dead
  /\ Len(events) < MaxEvents
  /\ events' = Append(events, View(m, v))
  /\ UNCHANGED <<wallet, total, book, markets, session, tasks, signed, doing>>

\* A close by swap has its own key, a close found by a sync the reason's.
Traded(m, g) ==
  /\ Running /\ m \in DOMAIN tasks
  /\ Len(events) < MaxEvents
  /\ \/ /\ signed < MaxTx
        /\ signed' = signed + 1
        /\ events' = Append(events, Trade(m, signed + 1, g))
     \/ /\ events' = Append(events, Trade(m, Reason, g))
        /\ UNCHANGED signed
  /\ UNCHANGED <<wallet, total, book, markets, session, tasks, doing>>

EngineDies(m) ==
  /\ Panics /\ Running /\ m \in DOMAIN tasks /\ ~tasks[m].dead
  /\ tasks' = [tasks EXCEPT ![m].dead = TRUE]
  /\ UNCHANGED <<wallet, total, book, markets, session, events, signed, doing>>

WalletMoves(w) ==
  /\ Running
  /\ wallet' = w
  /\ UNCHANGED <<total, book, markets, session, tasks, events, signed, doing>>

-----------------------------------------------------------------------------
Init ==
  /\ wallet \in Wallets /\ total \in {0, wallet}
  /\ book = <<>> /\ markets = {} /\ session = <<>> /\ tasks = <<>>
  /\ events = <<>> /\ signed = 0 /\ doing = Select

Commands ==
  \/ \E m \in Mints : \/ \E a \in Allocs : AddMarket(m, a)
                      \/ RemoveMarket(m)
                      \/ \E n \in Updates : UpdateMargin(m, n)
  \/ \E kill \in BOOLEAN : CloseAll(kill)

Continues ==
  \/ \E m \in Mints : AddDone(m) \/ AddFailed(m) \/ RemoveDone(m) \/ CloseNext(m)
  \/ CloseDone

Outside ==
  \/ \E m \in Mints : \/ \E v \in {"Idle", "Open"} : MarketTells(m, v)
                      \/ \E g \in Gains : Traded(m, g)
                      \/ EngineDies(m)
  \/ \E w \in Wallets : WalletMoves(w)

Next == Commands \/ Continues \/ Handle \/ Sync \/ Outside
          \/ (doing = Stopped /\ UNCHANGED vars)

Spec == Init /\ [][Next]_vars

-----------------------------------------------------------------------------
TypeOK ==
  /\ wallet \in Nat /\ total \in Nat /\ signed \in 0 .. MaxTx
  /\ DOMAIN book \subseteq Mints /\ \A m \in DOMAIN book : book[m] \in Nat
  /\ DOMAIN session \subseteq Mints
  /\ \A m \in DOMAIN session : session[m] \in MarketState
  /\ DOMAIN tasks \subseteq Mints
  /\ \A m \in DOMAIN tasks : tasks[m] \in [margin : Nat, dead : BOOLEAN]
  /\ markets \subseteq Mints

\* At its select! the bot has the same markets in the book, the session, the
\* handles and the tasks that run: no failure or cancelled add or removal
\* leaves a margin reserved, a session shown or a task running for nobody.
SameMarkets ==
  doing = Select =>
    /\ DOMAIN book = markets /\ DOMAIN session = markets
    /\ DOMAIN tasks = markets

\* For a market whose engine lives, the three margins are one, through updates,
\* compounding, rollbacks and events of an earlier market of the mint.
OneMargin ==
  \A m \in markets :
    ~tasks[m].dead => book[m] = session[m].margin /\ book[m] = tasks[m].margin

Raises == \E m \in DOMAIN book' : m \notin DOMAIN book \/ book'[m] > book[m]

\* No command raises a margin beyond what the wallet was just found to hold,
\* also when compounding and open positions have overdrawn the book: free
\* saturates at 0, and what a market gives back never covers more than itself.
RaisesCovered == [][Raises /\ events' = events => Used(book') <= total']_vars

\* The margin of m moves by what its pnl does, and the book stays with it.
MovesWithPnl(m) ==
  LET moved == session'[m].pnl - session[m].pnl
  IN  /\ session'[m].margin = IF tasks[m].dead THEN session[m].margin
                              ELSE Compounded(session[m].margin, moved)
      /\ book[m] = session[m].margin => book'[m] = session'[m].margin

\* An event moves a margin exactly when it moves the session's pnl, and by as
\* much: a Trade that was counted before moves neither, one the engine cannot
\* be told of moves only the pnl, and no event parts the book from the session.
CompoundsWhatItCounts ==
  [][\A m \in markets \cap markets' : events' # events => MovesWithPnl(m)]_vars

(***************************************************************************)
(* A statement of the repository that the code does not keep.              *)
(***************************************************************************)
\* README.md, "realized session PnL": a Trade of a market the bot still has
\* moves its pnl by the Trade's.
EveryTradeCounted ==
  [][\A m \in markets \cap markets' :
       events' # events /\ events # <<>> /\ events' = Tail(events)
         /\ Head(events).type = "Trade" /\ Head(events).mint = m
       => session'[m].pnl = session[m].pnl + Head(events).pnl]_vars
=============================================================================
