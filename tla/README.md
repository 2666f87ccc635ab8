# Verification of the trading bot

This directory holds TLA+ models of the bot in `src/`, the TLC runs that check
them and the proofs about them. The main program is `src/src/bin/bot.rs`: a
terminal UI over a `Bot` that runs any number of markets on one Solana wallet.
Paths below are relative to `src/src/`.

## 1. Inventory

### How the parts interact

```
 bin/bot.rs --BotCommand (64)---> Bot (bot.rs, margin.rs)
                                   |  ^
      spawn, controls, margin, stop|  |MarketEvent (unbounded, keyed by mint)
                                   v  |
 +------------------------------ Market (market.rs) -------------------------+
 |  stream_task (info.rs)                relay_task <--market channel (256)--+
 |      | candles                          | news of the position            |
 |      +-----------> inbox (unbounded) <--+                                 |
 |                      |                                                    |
 |                SignalEngine (signal/engine.rs) --EngineState, prices----->|
 |                      | orders: trade channel, no buffer, blocking send    |
 |                      v      (the bot's controls use it too)               |
 |                  Executor (exec/executor.rs) --OpenPosition, Trade, ...-->|
 +----------------------|----------------------------------------------------+
                        v
           Jupiter, RPC node, chain (exec/jupiter.rs)
```

| Component | State | Operations | What is hard | What makes it correct |
|---|---|---|---|---|
| **Executor** `exec/executor.rs`, `exec/jupiter.rs` | `is_paused`, `pending` by signature, `position` | orders `Open`/`Close`; controls `Pause`, `Resume`, `ForceClose`, `Kill`; a poll every 800 ms; fills; `sync_position_from_chain`; `handle_open_failure` with one retry | transactions that land late or never, a send that fails though forwarded, balances read at another commitment than statuses, reads that fail half way | one swap in flight, buys only when flat, at most two buys per order, what it announces is what it holds, each swap counted in one Trade, everything pending is resolved |
| **SignalEngine** `signal/engine.rs` | `state` (Idle, Armed, Opening, Open, Closing), `exec_params` (margin, position), `paused` | `UpdatePrice` (refresh of the state, timeouts, strategy, order), `UpdateExecParams`, `OpenFailed`, `UpdateStrategy`, `ExecToggle`, `Stop` | timeouts by candle time that race the executor's news; a blocking send inside the handler; `continue` past the sending of events | no order while it waits for one, orders within margin and position, its events tell its state, every wait ends |
| **Market** `market.rs` | the channels and task handles | `spawn`, relay, stream with resubscription, `update_margin`, controls, `stop` | three tasks and the bot on four channels, one unbuffered and one bounded; removal aborts tasks anywhere | engine and bot learn what the executor holds, every position comes under the exit rule, nobody waits for ever |
| **Bot, MarginBook** `bot.rs`, `margin.rs` | `markets`, `session`, `margin_book`, at most one command at work | add, remove, close all, kill, pause, resume, update margin, snapshot; events by mint; wallet sync | commands that await for seconds, spawns that fail, dead engines, events of a removed market, a wallet that moves by itself | book, session and engines agree, no command allocates what is not there, each Trade compounds once |
| **Candles** `birdeye.rs`, `info.rs`, `Tracker` of `signal/types.rs` | the attempt and delay of a fetch, the global pacer, running minute, known vaults, next boundary | history with its retries, its gaps filled; candles from vault notifications; closing of periods | a server that refuses and delays, slots of two subscriptions cross, their times are estimates, streams break | fetches end and never hurry, contiguous minutes, nothing sent is taken back, each boundary closed once |
| **Terminal UI** `bin/bot.rs` | mode, snapshot, selection, form | keys, snapshot polling, `AddMarket` with a reply, quit | stale snapshots, timeouts shorter than the bot's work, sends without a timeout in the task that draws, a bot that waits for executors, threads that engines block | a key concerns the market it was pressed on, the screen catches up, the UI always comes back, quitting asks every market to close |
| **Strategies** `strats/` | trend seen last, side of the arm | `on_idle`, `on_open`, `on_busy` | memory beside the engine's state, answers the engine rejects or times out | what they answer is what the market relies on; entries on a turn of the trend |
| indicators of `signal/types.rs`, `sol_price.rs`, `helpers.rs`, other binaries, `build.rs` | - | display, plumbing, development tools | - | - |

`PROJECT.json` lists every component with its status, and under `hazards` what
is hard to test at the line where it bites, with the properties that cover it.

## 2. Modules

| Module | Models | Notes |
|---|---|---|
| `TradeCycle` | what an executor promises its market: flat, buying, holding, selling, and the events each change emits | abstract specification |
| `Executor` | `executor.rs` against the chain | implements `TradeCycle` |
| `ExecutorProofs`, `ExecutorRefines` | theorems about `Executor` | |
| `SignalEngine` | `engine.rs`: actions only, no `Next` of its own | composed by `EngineAlone` and `Market` |
| `Strategies` | `strats/`: what each shipped strategy answers and remembers | actions of `SignalEngine` with the answers of one strategy |
| `EngineAlone` | `Strategies` fed any command in any order | |
| `SignalEngineProofs` | lemmas about the engine's types and operators | for the next and `MarketProofs` |
| `EngineProofs` | theorems about `EngineAlone` | |
| `Market` | `market.rs`: `SignalEngine`, `TradeCycle` for the executor, relay, stream, and the bot's side of one market | |
| `MarketProofs` | theorems about `Market` | |
| `Bot` | `bot.rs`, `margin.rs`: many markets, one wallet | markets are the events they may send |
| `BotProofs` | theorems about `Bot` | |
| `Birdeye` | `birdeye.rs`: one fetch with its retries, delays and the shared pacer | actions only, composed by `Candles` |
| `Candles` | the fetches of `Market::spawn`, gap filling, `info.rs`, `Tracker` | |
| `CandlesProofs` | theorems about `Candles` | |
| `Console` | `bin/bot.rs` against the command queue and task of `bot.rs`, the executors it tells, and the runtime's threads | markets are what the bot may wait for |
| `ConsoleProofs` | theorems about `Console` | |
| `MC*` | small constant values for TLC | no behaviour of their own |

Definitions called *Mutant* stand before the definition they vary and are used
by no specification: they are plausible bugs, listed in `PROJECT.json` with the
property that catches each.

### State and actions

**Executor.** `pending`, `position`, `isPaused` are the struct's fields (`aged`
is the set of pending swaps past `OPEN_TIMEOUT_SECS`), `pc` and `job` are where
a handler is between two RPC calls and its locals, `todo`, `snap`, `done` the
locals of `poll_pending`, `emitted` the events of the last step, `announced` and
`realized` accumulate them, `tx`, `wallet`, `settled`, `cash` are the chain.
The task is sequential, so a step is cut only where the code waits for the
network: the chain's own actions interleave exactly there. A transaction is
sent, processed, confirmed, finalized, failed or expired. What may go wrong
outside is switched by the constant `Faults`, so that a run says which faults
its property survives. Sizes are in raw units as the decimals of a transaction's
metadata make them; `Unit` is a token in raw units, and `assetUnit` the same by
`asset_decimals`, which is 1 for an executor whose `get_token_supply` failed
(`executor.rs:230`). `Ui` is the conversion with `asset_decimals` that syncs,
residues and fallback fills make; with an unread supply it yields `Unit` times what
a fill would.

| Fault | Meaning |
|---|---|
| `late` | a buy lands, or its status is seen, after its 20 s timeout |
| `lag` | a balance is read as of the finalized block, a status as of the confirmed one (`RpcClient::new` in `market.rs:116` and its default commitment, external) |
| `ambiguous` | `send_transaction` fails though the transaction was forwarded |
| `rpc` | the read of the mint's decimals, balance and transaction reads fail |
| `fallback` | the transaction's metadata lacks the balances, the quote is used |
| `drop` | a sell expires without a trace (a buy always may) |

**SignalEngine.** Time is `price.open_time` in candles of a minute; a price says
how many candles it is past the one before, 0 for the same minute again. The
handler of one price is cut at each blocking send (`pc`). A strategy answers any
intent of `Strategy[k]` in a state of kind `k`; `MayAnswer` is what the shipped
ones use of it, from which `Market` takes its strategies. Sizes keep what validation
compares (minimum value, free margin, held size). The commands that nothing in
the repository sends (`UpdateStrategy`, `ExecToggle`, `EditIndicators`, `Stop`,
bulk prices) are handled in `EngineAlone` all the same. There `seen` is what the
last event said, and `asked` the order the executor took that nothing has answered
yet: news of the position, `OpenFailed`, a ForceClose that gives it up, or a reset.

**Strategies.** An outcome of `on_idle`, `on_open` or `on_busy` is an intent (or
none) and what the strategy remembers after it. A comparison of indicators may go
either way, a missing indicator answers nothing; thresholds are not modelled.
`prev` is `prev_fast_above` of `RsiEmaScalp` and `prev_rsi_above_sma` of
`SrsiAdxScalp`, `long` is `armed_long` of `SmaRsiScalpTest`, `trend` is ours: the
trend found last, kept to say what a turn is. `EngineAlone` runs with each of the
six strategies or with `"Any"`, which answers all that `Strategy` allows.

**Market.** A send and its receive on the unbuffered trade channel are one step
(`EngineOrders`, `BotControls`). `phase` is the life of the market: `spawning`
(the tasks run, the bot is still in `add_market`), `running`, `removing` (its
controls sent, the grace running), `gone` (tasks aborted, in any state). The
session is the bot's `MarketState`. While the bot sends controls it handles no
events. What carries no decision - indicator data, prices of events, `SwapFill`
- takes no place in the channels of the model.

**Bot.** `doing` says which awaiting command the bot is in; events, wallet and
engines go on meanwhile. A market is the events it may send: `EngineState` and
`Trade`. `AmountSol` of the UI is converted to `AmountLamports`; a negative or
non-finite one is as invalid as 0. The mints are interchangeable, which the run
uses as symmetry. `EngineDies` is the arithmetic of `RsiEmaScalp::on_open`
(`strats/rsi_ema_scalp.rs:101`): a `u64` subtraction that underflows when the
position's time, taken from the clock, is past the candle's, and panics in the
profile of `cargo run`, which is how the repository's README starts the bot.

**Birdeye.** `fetch` is where `fetch_candles` is, `attempt` its loop variable,
`since` the time since the pacer's last slot, `sleep` the delay it is in, and
`owed`, which is ours, what is left of the time the server asked for. A failure is
retried or given up, whatever its kind; only one with a status carries a
Retry-After.

**Candles.** `Market::spawn` fetches one history for each timeframe of the
strategy, then loads the engine and starts the stream; time passes meanwhile. The
tracker followed is that of one timeframe, fetched at any place among them. A
minute has two units of time. A notification comes from either
vault with an estimated time up to `Skew` off; the state of a stream dies with
its subscription. Prices are ranks. A live candle closes one millisecond (here:
one unit) before the boundary, a candle of the history on it, as in the code.

**Console.** `ui` is where the UI's only task is: at its `select!`, at a send that
waits for room, at a reply, in the 5 s of the end. `work` is where the bot's task
is: at its `select!`, in a spawn (`adding`), at a control it sends
(`telling`), in a removal (`closing`: three controls, then the grace). A bot at its
`select!` answers faster than any of the UI's timeouts, so those pass only while it
is `Busy`; a second is counted only where 5 s and 2 s race. `away` and `sends` are
what holds the bot up: an executor in its handler does not take a control, and an
engine in its blocking send holds a thread. `KeysHitTheirMarket` needs `key.on`
and `ui.on`, the market that was selected when the key was pressed; `held` says
that the bot had to wait while the process was ending.

## 3. Runs

All passing runs explore their instance completely.

| Run | Checks | Bounds and why they are enough |
|---|---|---|
| `exec_faults` | types; `OneSwapInFlight`, `SwapFitsPosition`, `AnnouncedIsHeld`, `BuysBounded`; `TradeCycleSpec`, the refinement; `SwapsResolve`, and `TradeCycleFair`, the fairness `Market` assumes of a buy | every fault but `drop`: a sell without a status is polled for ever; tokens of an earlier run in the wallet (`WalletStart`); `MaxTx = 3`: a buy, its retry and a swap after them. The theorems lift the bound |
| `exec_accounts` | `HoldingsTracked`, `RealizedIsCashButFees`: at rest the position is the wallet's tokens (as the decimals the executor read make them), and flat the Trades add up to the wallet's gain but for fees no Trade reports | faults `rpc`, `drop`, `ambiguous` (with any of the others neither holds, see below); `MaxTx = 4`: a retried buy, a failed and a repeated sell; two fill amounts each; `Unit = 10`, so that an unread supply tells syncs from fills and a sold position from a residue |
| `exec_pnl_fees` | **violated**: `RealizedIsCash` | finding 1 |
| `exec_lagging_balance` | **violated**: `FullSellFlattens` | finding 2 |
| `engine_any` | types; `OneOrderAtATime`, `OrdersStayCovered`, `ViewFollows`, `AnswersAsAssumed`, `EntersOnTurn`, `WaitsEnd` | any command, each shipped strategy or one that answers anything; two commands waiting, so that one is overtaken by a timeout; margins below and above the position; orders below the minimum, within and beyond the margin; an arm of one candle |
| `market_knows` | types; `EngineKnows`, `ShownIsHeld`, `ViewFollows`, `SessionAgrees` (on the margin, and on who is paused) | an arming strategy, all controls; one candle, chain decision or command more may enter while one message waits (`Backlog`), messages those cause are not bounded; `MarketCap = 1` of 256 makes the senders wait |
| `market_live` | `PositionManaged`, `TradeChannelServed` | a strategy that opens and does not arm, removal at any time, so that engine, bot, executor and relay all wait on each other |
| `market_shown` | **violated**: `OpenIsShown` | finding 3 |
| `bot_book` | types; `SameMarkets`, `OneMargin`, `RaisesCovered`, `CompoundsWhatItCounts` | two mints: sharing, re-adding and `close_all` over more than one; a wallet of 1 or 4 is overdrawn by one profit; one event waiting, so that a removed market's event meets its successor |
| `bot_trades` | **violated**: `EveryTradeCounted` | finding 4 |
| `candles` | types; `StreamContiguous`, `HistoryContiguous`, `NextIsNextBoundary`, `FetchEnds`, `Patience` | two fetches, so that the pacer of one is still running in the next; three retries, the last of which reaches the cap of the backoff; a Retry-After of 0, below and above the backoff. `Skew` of a minute and a half: minutes come back or are skipped; the time left after a history of up to three periods of one or two minutes is two minutes, which the estimates spread over five; notifications wait while two candles do |
| `console` | types; `KeysHitTheirMarket`, `QuitAsks`, `UiServed`, `ScreenCatchesUp` | two markets, so that one is added or removed above the other; a queue of 1 of 64 that a request nobody waits for fills; two keys, the second pressed before the first is done; a thread more than markets |

Deadlock is checked in `market_knows`, `market_live`, `market_shown`, `bot_book`,
`bot_trades` and `console`, where a market that is gone, a bot that was killed and a process that ended
stutter: no state leaves all tasks waiting. The executor stops when its transactions are
used up, the engine on `Stop`, and candles at the horizon, so their runs switch
the check off.

### Findings

1. `exec_pnl_fees`: the fees of the first fill are dropped (`executor.rs:612`,
   `PositionState::new`), so the "realized session PnL" of `README.md:63` is more
   than the wallet gained even when nothing fails.
2. `exec_lagging_balance`: after a confirmed sell of everything the balance is
   still the one before it at the finalized commitment; the executor keeps a
   position of tokens that are gone, and no Trade is sent at the full close.
3. `market_shown`: `EngineState(Idle)` erases the shown position
   (`bot.rs:354`) while the executor holds it: an opening times out in the engine
   while the buy fills, and the bot handles the `OpenPosition` before that Idle. The
   engine returns to Open, the position does not. A close that times out under a
   paused executor does the same.
4. `bot_trades`: a position closed by a sync has the same key for the same
   reason each time (`executor.rs:727`, `bot.rs:376`), so every such Trade but
   the first is dropped by the session.

### Limits the runs make visible

* `HoldingsTracked` and `RealizedIsCashButFees` fail with `late` (a buy that lands after
  it was given up is tracked by no position), with `lag` (finding 2) and with `fallback`
  (a fill without balances is taken to be the quote); `SwapsResolve` fails with
  `drop`. The runs leave these faults out and no document denies the behaviour.
* A failed `get_token_supply` (`executor.rs:230`) is in `exec_accounts`:
  `HoldingsTracked` grants that a sync then sizes the position `Unit` times what a fill
  does, and that a position may stay when its tokens are sold, as the rest of a fill's
  size until the next close reports it. Cash adds up all the same
  (`RealizedIsCashButFees`).
* `OneOrderAtATime` counts an order as given up with the ForceClose of its timeout,
  which the executor does not obey while a swap is pending, and as dropped by the
  resets of `UpdateStrategy` and `ExecToggle`; one to open beside a position the engine
  knows of is taken for answered by that position, as `refresh_state` does. The executor
  keeps to one swap at a time by itself (`OneSwapInFlight`).
* No event tells the reset of `UpdateStrategy` (`engine.rs:508`), which nothing in
  the repository sends; `ViewFollows` of `EngineAlone` grants it and no other.
* `PositionManaged` fails for a strategy that arms: `refresh_state` does not look
  at the position while Armed, and one that arms again when the arm expires never
  manages a position that filled meanwhile.
* A tracker that starts from an empty history closes every second period
  (`signal/types.rs:213-236`); `NextIsNextBoundary` is about the loaded ones.
* `ScreenCatchesUp` excepts a market added before the news of an earlier market of
  its mint was read. The `ExecutorPaused` that begins every removal carries only the
  mint (`bot.rs:363`); read after the mint was added again, it marks the new market
  as paused, and the next `p` resumes what runs. Without the exception the property
  is violated.
* `QuitAsks` holds for up to three markets and a bot that nothing holds up: with
  four, the last is asked to close 6 s after `Kill`, and the process ends after 5 s.
* `FetchEnds` needs every request to be answered or to fail. The client has no
  timeout (`birdeye.rs:92`), a Retry-After is not capped, and the bot does nothing
  else meanwhile.
* `UiServed` needs a thread more than markets (`ConsoleAssumption`), and assumes
  that any free worker runs a woken task. Where the runtime puts the receiver an
  engine's blocking send wakes into the slot of that engine's own worker, which
  others cannot take from, the wait is longer than modelled.
* `Market` is checked with the answers of `MayAnswer`, which leave out an `Abort`:
  one of a close under way would force close again and drop the engine to Idle
  beside a position. `AnswersAsAssumed` shows that no shipped strategy answers so.

### Fairness

* `Executor`: weak fairness of each step of its task (a tokio task with work is
  polled, the 800 ms tick keeps coming, a `get_signature_statuses` call keeps
  succeeding now and then), of the 20 s timeout, and of the chain deciding what
  it was sent. No order and no control is fair.
* `EngineAlone`: the task runs, its channels are drained, and later candles keep
  coming. The last is strong fairness, because the room in the inbox comes and
  goes; it is the assumption the code cannot discharge on an idle pool, where no
  vault notification means no candle.
* `Candles`: the steps of a spawn only: timers fire, and a request is answered or
  fails. No notification and no clock is fair.
* `Console`: the UI's and the bot's `select!` are fair to their branches (strong
  where the branch comes and goes), woken tasks run when a worker is free, timers
  fire, a handler of the executor and a spawn end, and a sender on the trade
  channel has its turn. No key is fair.
* `Market`: as for `EngineAlone`; strong fairness for the two senders on the trade channel,
  because flume serves waiting senders in order and the executor returns to its
  `select!` between two commands, and for the decision of a buy, which is
  `TradeCycleFair` of `Executor`.

## 4. Proofs

`tlapm` checks these for every value of the constants that satisfies the
modules' assumptions (which every run evaluates): any number of transactions,
sizes, fees, mints, margins, wallets.

| Theorem | States |
|---|---|
| `ExecutorProofs!TypeCorrect`, `OneSwap`, `SwapFits`, `Announced`, `Bounded` | the types and the four safety invariants of `exec_faults` |
| `ExecutorProofs!HoldingsAreTracked`, `AccountsAdd` | the two invariants of `exec_accounts`, under `Undisturbed` |
| `ExecutorRefines!Refines` | `Spec => TradeCycleSpec` |
| `EngineProofs!TypeCorrect`, `OneOrder`, `OrdersCoveredTillTaken`, `ViewsFollow`, `Answering`, `EntersOnlyOnTurn` | the types and the safety invariants of `engine_any` |
| `MarketProofs!MarketTypeCorrect`, `EngineLearns`, `ShownOnlyHeld`, `SessionAgreement`, `ViewIsFollowed` | the types and the safety invariants of `market_knows` |
| `BotProofs!BotTypeCorrect`, `MarketsAgree`, `MarginsAgree`, `Compounding`, `RaisesAreCovered` | the types, the invariants and the action properties of `bot_book` |
| `CandlesProofs!CandlesTypeCorrect`, `FetchesPatiently`, `StreamIsContiguous`, `HistoryIsContiguous`, `ClosesAtNextBoundary` | the types, the invariants and the action property of `candles` |
| `ConsoleProofs!ConsoleTypeCorrect`, `KeysHit`, `QuitAsksAll` | the types and the invariants of `console` |

*Executor.* None of the four invariants is inductive: that a second swap is
never sent follows from where the handlers are. `Control` adds
`PhaseInv` (what each `pc` knows: in the loop at most one swap is pending and
none done; on the way to a first swap none is pending and the intent fits the
position; on the way back from a failed one exactly the pending swap being
reconciled), `SigsUsed` (a pending signature was sent, so the next is new) and
`AttemptsCount` (the attempt of a swap counts the buys signed for the order).
`Control` is proved inductive beside `TypeOK`, one lemma for each group of
actions (receiving, submitting, polling, environment). The refinement maps `mode` to `Mode`: the
position, live swaps, and a swap about to be retried decide between flat,
buying, holding and selling; `told` is `announced # None`. Each action is shown
to be a step of `TradeCycle` or a stutter, using `TypeOK` and `Control` in the
state before the step.

The accounts need `Undisturbed`: none of the faults `late`, `lag` and `fallback` (with
each of them TLC finds both invariants violated), a wallet that starts without the
token, buys that yield more than dust and sells that yield at least their fee. A
swap forwarded although its submission failed (`ambiguous`) is covered as long as it
does not land, which is what `late` would let it do. Their invariant
`Accounts` is inductive beside `TypeOK` and `Control`. `LedgerInv` is what the executor
may conclude of the chain: a status it read is final, and a swap it is through with
(completed, or being reconciled) has failed, been dropped, will not land, or was
seen. So there is at most one swap that landed unseen, and
`TokensInv` and `MoneyInv` give the books in both cases: with nothing unseen the wallet
is the position (`WalletTracked`: at the decimals of the mint, or at the executor's,
or sold out by an executor that could not read them), and cash with the fees paid is
the pnl realized and unrealized; with a swap unseen they differ by what that swap did.
The proofs follow this through each action (`HandlerAccounts` for the handlers that
touch no swap); a sync may change the size of a position, to the executor's decimals,
or book one that was sold out, and moves no money. TLC
checked `Accounts` on the instance of `exec_accounts` first.

*Bot.* `SameMarkets` holds only at the `select!`, so `Domains` says for each
command in progress which map already has, or still has, which market (a market
being added is in the book only, one being closed is in book and tasks only);
`OneMargin` needs the domains to be defined and is inductive with them. `Shapes`
says that the maps are functions to records, which is what the updates of single
fields need. Updating, compounding and events are handled by two general lemmas,
one for a step that moves all margins of a market, one for a step that moves
none.

`RaisesCovered` compares sums of margins. `Used` is a fold over a set, and what the
proofs have of it is its defining equation: that the fold is defined on every finite
set, and that taking one market out takes its margin out, is shown once from that
equation (`SumExists`, `SumTakes`, `SumsAgree`), by the least number of markets that
could be a counterexample. `Mints` is assumed finite for it: a mint is a key of 32
bytes. A command raises one margin, and the guards of `allocate` and `update` give
the bound on what it becomes.

*Engine.* `EngineTypes` types the inbox by sender, so that a margin is one the bot
assigns. That the orders of a price fit the margin is shown where they are computed
and stays true while the send blocks, as commands wait. `OneOrderAtATime` needs
`AskedInv`: while an order to open is unanswered the engine is Opening and knows of no
position, while one to close is it is Closing and knows of one; only what answers or
drops the order leads out of there.
`ViewFollows` is followed through the handler: in the middle of a price the listener
knows `begun`, the state the price met. `EntersOnTurn` needs what a follower remembers to be a trend it saw,
through arms, expiries and positions it does not look at.

*Market.* Each property says that two parties agree when their channels are empty.
The invariants behind them follow the news through the channels in the order they are
read (`Heard`): what the reader knows, overruled by the last news of the inbox, then
of the market channel, then of the executor's output, is what the writer last made of
it. Every step moves one message from one of these to the next, adds one at the end
or takes one at the front, so one lemma for each of these does most of the proof. The
strengthened invariants were checked with TLC on the instance of `market_knows` before they were proved.

*Candles.* `StreamContiguous` is inductive with the running candle as the next of what
was sent. A gap filled is at most the minutes between two buckets, which is division
with remainder (`Quotient`, `QuotientIs`). `FillGaps` flattens a sequence of
sequences with a recursive operator of a library; as for the fold, only its
defining equation is used, and that its value is contiguous is shown by the least
prefix for which it would not be. `NextIsNextBoundary` follows the `loop` of `digest`:
`latest` and `next` move together, by whole periods.

*Console.* `KeysHitTheirMarket` has to know that a market that was gone when a snapshot
was answered cannot come back while a key waits. `Line` says that whatever somebody
waits for is the last of the queue or being worked on, so a snapshot is of the markets
there are and nothing is behind it; `KeyWaits` says of a waiting key that its
market is still selected or gone (`Gone`: not there, and no command that would add
it anywhere). The list is sorted by counting, so a place has one market
(`PlaceIsOne`) and every place below the length has one (`PlaceTaken`, pigeonholes).
`QuitAsks` is a count: while the process waits, the seconds left, two for each market
that is done with and what is over of the grace at hand are at least five (`InTime`).

The assumptions on constants are those named `...Assumption`: natural bounds, `None`
outside the values it stands beside, at least one price, finitely many mints, a
thread more than markets.

Checked by TLC only, as the prover has neither fairness nor `ENABLED`, is liveness, all of
it: `SwapsResolve`, `TradeCycleFair`, `WaitsEnd`, `PositionManaged`, `TradeChannelServed`,
`FetchEnds`, `UiServed`, `ScreenCatchesUp`.

## 5. What is not modelled

* Floating-point values: indicators, the thresholds of strategies, prices and
  sizes beyond the comparisons that decide. Conversions of SOL to lamports round;
  the models count in lamports.
* The estimator's arithmetic in `info.rs` 354-416 (only its error), and the
  reading of pool accounts.
* Of the UI, what sends nothing: rendering, the mouse, and the text of the form.
  (`h` picks the strategy in every field, `bin/bot.rs:544`, so a mint that holds the
  letter cannot be typed.)
* The wallet sync's blocking RPC call, which would make snapshots time out the way
  a busy bot does; in `Console` the `Kill` clears all sessions at its end.
* The death of an engine (`strats/rsi_ema_scalp.rs:101`) in `Market`; `EngineAlone`
  and `Bot` have it.
* Token metadata parsing, the SOL price stream, logging, key files, the other
  binaries and `build.rs`: input, output and display.

## 6. Plan

Done, in this order: `TradeCycle` and `Executor` with proofs; `SignalEngine` and
`EngineAlone`; `Market`; `Bot` with proofs; `Candles`; `Console`; `Strategies`;
`Birdeye`.

Every safety property a passing run checks is proved.

Next:

1. An abstract allocator that `Bot` implements.
2. Wallet and trades of `Bot` on one ledger, to state that no lamport backs two
   margins between a sell and its Trade (`margin.rs:63`).
3. The death of the engine in `Market`.
