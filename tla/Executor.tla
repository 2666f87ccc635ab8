------------------------------ MODULE Executor ------------------------------
(***************************************************************************)
(* The Executor task of one market (src/exec/executor.rs): it takes orders *)
(* and control commands from the trade channel, submits Jupiter swaps,     *)
(* polls their signatures every 800 ms, turns fills into a position and    *)
(* reports to the market task.                                             *)
(*                                                                         *)
(* The task is sequential, but the chain is not: a step of the model ends  *)
(* where the code waits for the network, so the ledger can move between    *)
(* any two RPC calls of one handler.  pc says which call comes next:       *)
(*   "loop"      the select! of run                                        *)
(*   "poll"      inside poll_pending, statuses already read                *)
(*   "swap"      about to call jupiter.swap                                *)
(*   "closeRead" submit_close is about to read the token balance           *)
(*   "syncRead"  sync_position_from_chain is about to read the balance     *)
(*                                                                         *)
(* An order or a control that the code ignores leaves every variable       *)
(* unchanged, as does a failing get_signature_statuses: these are          *)
(* stuttering steps.                                                       *)
(***************************************************************************)
EXTENDS Integers, Sequences, FiniteSets

CONSTANTS
  None,         \* Option::None
  MaxTx,        \* bound: transactions the wallet may sign
  Sizes,        \* order sizes in raw base units; 0 is an invalid size
  Quote,        \* Quote[i]: amount Jupiter quotes for a swap of intent i
  Fills,        \* Fills[i]: amounts a landed swap of intent i may yield
  BuyFee,       \* what a buy costs beyond its amount: network fee and rent
  TxFee,        \* network fee of a sell, or of a transaction that fails
  WalletStart,  \* tokens in the wallet before the executor starts
  Unit,         \* raw units in a token: ten to the decimals of the mint
  Faults        \* which of FaultKinds the environment may show

FaultKinds ==
  { "late",       \* a buy lands, or is noticed, after its 20 s timeout
    "lag",        \* balances are read at "finalized", statuses are not
    "ambiguous",  \* send_transaction fails but the transaction was forwarded
    "rpc",        \* supply, balance and transaction reads fail
    "fallback",   \* a transaction's metadata lacks the wallet's balances
    "drop" }      \* a sell expires without landing (a buy always may)

Intent == {"Open", "Close"}

ASSUME ConstantsAssumption ==
  /\ MaxTx \in Nat
  /\ Sizes \subseteq Nat
  /\ Quote \in [Intent -> Nat]
  /\ Fills \in [Intent -> SUBSET Nat]
  /\ BuyFee \in Nat /\ TxFee \in Nat /\ WalletStart \in Nat
  /\ Unit \in Nat \ {0}
  /\ Faults \subseteq FaultKinds
  /\ None \notin Int /\ None \notin [size : Nat, openBase : Nat,
                       closeAsset : Nat, closeGross : Nat, fees : Nat]

OPEN_MAX_ATTEMPTS  == 2
MIN_ASSET_DUST_RAW == 1

Sigs == 1 .. MaxTx
NoSig == 0

VARIABLES
  assetUnit,  \* ten to the field asset_decimals
  isPaused,   \* Executor.is_paused
  rxClosed,   \* trade_rx_closed
  pending,    \* Executor.pending, keyed by the field sig
  aged,       \* signatures submitted at least OPEN_PENDING_TIMEOUT_MS ago
  position,   \* Executor.position
  pc,         \* the next network call of the task
  job,        \* the locals of the handler in progress
  todo,       \* pending swaps poll_pending has still to visit
  snap,       \* the statuses poll_pending read
  done,       \* its vector completed
  emitted,    \* the MarketCommands the last step sent
  announced,  \* size in the last OpenPosition command, None for none
  realized,   \* sum of the pnl of the Trade commands
  orderBuys,  \* buys signed for the open order being worked on
  tx,         \* external: the ledger's view of each transaction
  wallet,     \* external: tokens the wallet holds
  settled,    \* external: tokens it holds at commitment "finalized"
  cash        \* external: base the wallet gained, fees included

execVars  == <<assetUnit, isPaused, rxClosed, pending, aged, position, pc, job,
               todo, snap, done, emitted, announced, realized, orderBuys>>
chainVars == <<tx, wallet, settled, cash>>
vars      == <<execVars, chainVars>>

-----------------------------------------------------------------------------
\* Types.

Position == [size : Nat, openBase : Nat, closeAsset : Nat,
             closeGross : Nat, fees : Nat]

PendingSwap == [sig : Sigs, intent : Intent, amount : Nat,
                expected : Nat, attempt : 0 .. OPEN_MAX_ATTEMPTS]

\* parent is the signature being polled, NoSig for a command from the channel.
Job == [intent : Intent, amount : Nat, attempt : 0 .. OPEN_MAX_ATTEMPTS,
        parent : Sigs \cup {NoSig}]

NoJob == [intent |-> "Open", amount |-> 0, attempt |-> 0,
          parent |-> NoSig]

Stage == {"unused", "sent", "processed", "confirmed", "finalized",
          "failed", "dropped"}

Tx == [intent : Intent, amount : Nat, out : Nat, stage : Stage]

Event == {"SwapFill", "OpenPosition", "NoPosition", "Trade", "OpenFailed",
          "Paused", "Resumed"}

-----------------------------------------------------------------------------
\* Helpers.

View(p) == IF p = None THEN None ELSE p.size

\* PositionState::pnl (mutant: the fees are not subtracted).
PnlWithoutFees(p) == p.closeGross - p.openBase
Pnl(p) == p.closeGross - p.openBase - p.fees

Abs(n) == IF n < 0 THEN -n ELSE n

\* f64::max(0.0) of a difference
Monus(a, b) == IF a > b THEN a - b ELSE 0

\* amount_to_ui with asset_decimals, which is 0 when the supply could not be
\* read.  Sizes are counted in raw units, as the decimals in the metadata of a
\* fill make them.
Ui(raw) == IF assetUnit = Unit THEN raw ELSE raw * Unit

\* What asset_balance_raw or token_balance may answer; None is an RPC error.
BalanceReads ==
  {IF "lag" \in Faults THEN settled ELSE wallet}
    \cup (IF "rpc" \in Faults THEN {None} ELSE {})

Tracked(s) == \E p \in pending : p.sig = s

\* What get_signature_statuses answers for a signature.
Status(s) ==
  CASE tx[s].stage \in {"unused", "sent", "dropped"} -> "none"
    [] tx[s].stage = "failed"                        -> "err"
    [] tx[s].stage = "processed"                     -> "processed"
    [] tx[s].stage \in {"confirmed", "finalized"}    -> "ok"

\* Mutant: the quoted amounts are taken for the filled ones.
FillAmountsQuoted(p) ==
  {IF p.intent = "Open"
   THEN [asset |-> p.expected, size |-> Ui(p.expected), base |-> p.amount,
         fee |-> 0]
   ELSE [asset |-> p.amount, size |-> Ui(p.amount), base |-> p.expected,
         fee |-> 0]}

\* extract_fill (or fallback_fill) and base_asset_amounts_with_fees, the base
\* being SOL: the asset amount, its size in the decimals of the metadata (or, in
\* fallback_fill, of the executor), the net base amount and the fee of a fill.
FillAmounts(p) ==
  LET swap == tx[p.sig]
      read == IF p.intent = "Open"
              THEN [asset |-> swap.out, size |-> swap.out, base |-> p.amount,
                    fee |-> BuyFee]
              ELSE [asset |-> p.amount, size |-> p.amount,
                    base |-> Abs(swap.out - TxFee), fee |-> TxFee]
      guess == IF p.intent = "Open"
               THEN [asset |-> p.expected, size |-> Ui(p.expected),
                     base |-> p.amount, fee |-> 0]
               ELSE [asset |-> p.amount, size |-> Ui(p.amount),
                     base |-> p.expected, fee |-> 0]
  IN  {read} \cup (IF "fallback" \in Faults THEN {guess} ELSE {})

\* The position a buy fill leaves: PositionState::new takes no fee,
\* apply_open_fill does.
OpenFilled(f) ==
  IF position = None
  THEN [size |-> f.size, openBase |-> f.base, closeAsset |-> 0,
        closeGross |-> 0, fees |-> 0]
  ELSE [position EXCEPT !.size = @ + f.size, !.openBase = @ + f.base,
                        !.fees = @ + f.fee]

\* PositionState::apply_close_fill
CloseFilled(f) ==
  [position EXCEPT !.size = Monus(@, f.size),
                   !.closeAsset = @ + f.asset,
                   !.closeGross = @ + f.base + f.fee,
                   !.fees = @ + f.fee]

\* The position sync_position_from_chain leaves for a balance above dust.
Resized(balance) ==
  IF position = None
  THEN [size |-> Ui(balance), openBase |-> 0, closeAsset |-> 0,
        closeGross |-> 0, fees |-> 0]
  ELSE [position EXCEPT !.size = Ui(balance)]

-----------------------------------------------------------------------------
\* Effects shared by the handlers.

Silent == emitted' = <<>> /\ UNCHANGED <<position, announced, realized>>

\* Keep position p and send OpenPosition(Some(p)) after the commands before.
Report(p, before) ==
  /\ position' = p
  /\ announced' = p.size
  /\ emitted' = before \o <<"OpenPosition">>
  /\ UNCHANGED realized

\* finalize_closed_position on p, then the commands after.  A Trade is sent
\* only when there was a position with close data.
Finalize(p, before, after) ==
  LET traded == p # None /\ p.closeAsset > 0
  IN  /\ position' = None
      /\ announced' = None
      /\ realized' = IF traded THEN realized + Pnl(p) ELSE realized
      /\ emitted' = before \o (IF traded THEN <<"Trade", "NoPosition">>
                                         ELSE <<"NoPosition">>) \o after

OpenFailed == <<"OpenFailed", "NoPosition">>

\* Mutant: OpenPosition(None) is not sent.
EmitOpenFailedOnly ==
  /\ emitted' = <<"OpenFailed">>
  /\ UNCHANGED <<announced, position, realized>>

\* emit_open_failed: the position is left as it is.
EmitOpenFailed ==
  /\ announced' = None
  /\ emitted' = OpenFailed
  /\ UNCHANGED <<position, realized>>

\* Mutant: the signature is not pushed to completed.
ReturnUncompleted ==
  /\ job' = NoJob
  /\ pc' = IF job.parent = NoSig THEN "loop" ELSE "poll"
  /\ UNCHANGED done

\* The handler in progress ends: back to poll_pending or to the select!.
Return ==
  /\ job' = NoJob
  /\ IF job.parent = NoSig
     THEN pc' = "loop" /\ UNCHANGED done
     ELSE pc' = "poll" /\ done' = done \cup {job.parent}

-----------------------------------------------------------------------------
\* Commands from the trade channel.

\* The guards of run and handle_control (mutants: one of the two checks).
FlatAndFreeUnheld == pending = {}
FlatAndFree == position = None /\ pending = {}

HeldAndFreeUnpending == position # None
HeldAndFree == position # None /\ pending = {}

\* An Open order that is not ignored.
RecvOpen(n) ==
  /\ pc = "loop" /\ ~rxClosed /\ ~isPaused
  /\ FlatAndFree
  /\ orderBuys' = 0
  /\ IF n = 0
     THEN EmitOpenFailed /\ UNCHANGED <<pc, job>>
     ELSE /\ pc' = "swap"
          /\ job' = [intent |-> "Open", amount |-> n, attempt |-> 1,
                     parent |-> NoSig]
          /\ Silent
  /\ UNCHANGED <<assetUnit, isPaused, rxClosed, pending, aged, todo, snap, done,
                 chainVars>>

\* submit_close starts with the balance read.
StartClose ==
  /\ pc = "loop" /\ ~rxClosed
  /\ HeldAndFree
  /\ pc' = "closeRead"
  /\ job' = [intent |-> "Close", amount |-> 0, attempt |-> 0,
             parent |-> NoSig]
  /\ Silent
  /\ UNCHANGED <<assetUnit, isPaused, rxClosed, pending, aged, todo, snap, done,
                 orderBuys, chainVars>>

\* A Close order that is not ignored; its size is not looked at.
RecvClose == ~isPaused /\ StartClose

\* ExecControl::ForceClose and ExecControl::Kill do the same, paused or not.
RecvForceClose == StartClose

\* ExecControl::Pause and ExecControl::Resume
RecvPause(paused) ==
  /\ pc = "loop" /\ ~rxClosed
  /\ isPaused' = paused
  /\ emitted' = IF paused THEN <<"Paused">> ELSE <<"Resumed">>
  /\ UNCHANGED <<assetUnit, rxClosed, pending, aged, position, pc, job, todo,
                 snap, done, announced, realized, orderBuys, chainVars>>

\* Every sender of the trade channel is gone.
ChannelClosed ==
  /\ pc = "loop" /\ ~rxClosed
  /\ rxClosed' = TRUE
  /\ Silent
  /\ UNCHANGED <<assetUnit, isPaused, pending, aged, pc, job, todo, snap, done,
                 orderBuys, chainVars>>

-----------------------------------------------------------------------------
\* Submitting.

\* submit_close reads the balance; an error or zero ends in a sync.
CloseRead ==
  /\ pc = "closeRead"
  /\ \E balance \in BalanceReads :
       IF balance = None \/ balance = 0
       THEN pc' = "syncRead" /\ UNCHANGED job
       ELSE pc' = "swap" /\ job' = [job EXCEPT !.amount = balance]
  /\ Silent
  /\ UNCHANGED <<assetUnit, isPaused, rxClosed, pending, aged, todo, snap, done,
                 orderBuys, chainVars>>

\* The transaction signed next; the ledger has it once it is sent.
Fresh(s) == \A r \in Sigs : tx[r].stage = "unused" <=> r >= s

Send(s) ==
  /\ Fresh(s)
  /\ tx' = [tx EXCEPT ![s] = [intent |-> job.intent, amount |-> job.amount,
                              out |-> 0, stage |-> "sent"]]
  /\ orderBuys' = IF job.intent = "Open" THEN orderBuys + 1 ELSE orderBuys

\* swap returned a signature.
SwapSent(s) ==
  /\ pc = "swap"
  /\ Send(s)
  /\ pending' = pending \cup
       {[sig |-> s, intent |-> job.intent, amount |-> job.amount,
         expected |-> Quote[job.intent], attempt |-> job.attempt]}
  /\ Return
  /\ Silent
  /\ UNCHANGED <<assetUnit, isPaused, rxClosed, aged, todo, snap, wallet,
                 settled, cash>>

\* swap returned an error: a failed buy is reported, a failed sell is synced.
SwapError ==
  /\ pc = "swap"
  /\ IF job.intent = "Open"
     THEN EmitOpenFailed /\ Return
     ELSE pc' = "syncRead" /\ Silent /\ UNCHANGED <<job, done>>
  /\ UNCHANGED <<assetUnit, isPaused, rxClosed, pending, aged, todo, snap>>

SwapRefused == SwapError /\ UNCHANGED <<orderBuys, chainVars>>

\* send_transaction failed after the node had forwarded the transaction.
SwapLost(s) ==
  /\ "ambiguous" \in Faults
  /\ Send(s)
  /\ SwapError
  /\ UNCHANGED <<wallet, settled, cash>>

-----------------------------------------------------------------------------
\* sync_position_from_chain, and handle_open_failure around it.

\* Mutant: one attempt too many.
AfterSyncOneMore(held) ==
  IF job.intent = "Open" /\ ~held /\ job.attempt <= OPEN_MAX_ATTEMPTS
  THEN pc' = "swap" /\ job' = [job EXCEPT !.attempt = @ + 1] /\ UNCHANGED done
  ELSE Return

\* What handle_open_failure does once it knows whether it holds anything.
AfterSync(held) ==
  IF job.intent = "Open" /\ ~held /\ job.attempt < OPEN_MAX_ATTEMPTS
  THEN /\ pc' = "swap"
       /\ job' = [job EXCEPT !.attempt = @ + 1]
       /\ UNCHANGED done
  ELSE Return

\* The attempts are used up: OpenFailed follows the sync.
GivesUp(held) ==
  job.intent = "Open" /\ ~held /\ job.attempt >= OPEN_MAX_ATTEMPTS

SyncRead ==
  /\ pc = "syncRead"
  /\ \E balance \in BalanceReads :
       \/ /\ balance = None
          /\ IF GivesUp(position # None) THEN EmitOpenFailed ELSE Silent
          /\ AfterSync(position # None)
       \/ /\ balance # None /\ balance <= MIN_ASSET_DUST_RAW
          /\ Finalize(position, <<>>,
                      IF GivesUp(FALSE) THEN OpenFailed ELSE <<>>)
          /\ AfterSync(FALSE)
       \/ /\ balance # None /\ balance > MIN_ASSET_DUST_RAW
          /\ Report(Resized(balance), <<>>)
          /\ AfterSync(TRUE)
  /\ UNCHANGED <<assetUnit, isPaused, rxClosed, pending, aged, todo, snap, orderBuys,
                 chainVars>>

-----------------------------------------------------------------------------
\* poll_pending

PollStatuses ==
  /\ pc = "loop" /\ pending # {}
  /\ pc' = "poll"
  /\ todo' = pending
  /\ snap' = [s \in Sigs |-> IF Tracked(s) THEN Status(s) ELSE "none"]
  /\ Silent
  /\ UNCHANGED <<assetUnit, isPaused, rxClosed, pending, aged, job, done, orderBuys,
                 chainVars>>

\* Mutant: a status is waited for before the time is looked at.
TimedOutIfKnown(p) ==
  p.intent = "Open" /\ p.sig \in aged /\ snap[p.sig] # "none"

TimedOut(p) == p.intent = "Open" /\ p.sig \in aged

Visit(p) ==
  /\ pc = "poll"
  /\ p \in todo
  /\ todo' = todo \ {p}
  /\ UNCHANGED <<assetUnit, isPaused, rxClosed, pending, snap, orderBuys, chainVars>>

\* The swap failed: a buy goes to handle_open_failure, a sell is synced.
Reconcile(p) ==
  /\ pc' = "syncRead"
  /\ job' = [intent |-> p.intent, amount |-> p.amount,
             attempt |-> p.attempt, parent |-> p.sig]
  /\ Silent
  /\ UNCHANGED done

\* A timed out buy, or an error in the status.  The metadata's own error
\* field carries the same error.
PollFailed(p) ==
  /\ Visit(p)
  /\ TimedOut(p) \/ snap[p.sig] = "err"
  /\ Reconcile(p)
  /\ UNCHANGED aged

\* Nothing to do yet; a confirmed transaction may not be served yet.
PollSkip(p) ==
  /\ Visit(p)
  /\ ~TimedOut(p)
  /\ \/ snap[p.sig] \in {"none", "processed"}
     \/ snap[p.sig] = "ok" /\ "rpc" \in Faults
  /\ Silent
  /\ UNCHANGED <<aged, pc, job, done>>

\* The buy times out while its transaction is being fetched in vain.
PollFetchTimeout(p) ==
  /\ {"rpc", "late"} \subseteq Faults
  /\ Visit(p)
  /\ p.intent = "Open" /\ ~TimedOut(p) /\ snap[p.sig] = "ok"
  /\ aged' = aged \cup {p.sig}
  /\ Reconcile(p)

Filled(p) ==
  /\ Visit(p)
  /\ ~TimedOut(p) /\ snap[p.sig] = "ok"
  /\ done' = done \cup {p.sig}
  /\ UNCHANGED <<aged, pc, job>>

\* apply_fill of a buy
PollOpenFill(p) ==
  /\ p.intent = "Open"
  /\ Filled(p)
  /\ \E f \in FillAmounts(p) : Report(OpenFilled(f), <<"SwapFill">>)

\* Mutant: a partial close is not reported.
CloseFillOnUnreported(f) ==
  LET p == CloseFilled(f)
  IN  IF p.size > 0
      THEN /\ position' = p /\ emitted' = <<"SwapFill">>
           /\ UNCHANGED <<announced, realized>>
      ELSE Finalize(p, <<"SwapFill">>, <<>>)

\* apply_fill of a sell: the balance is read only when nothing seems left.
CloseFillOn(f) ==
  LET p == CloseFilled(f)
  IN  IF p.size > 0
      THEN Report(p, <<"SwapFill">>)
      ELSE \E balance \in BalanceReads :
             IF balance # None /\ balance > MIN_ASSET_DUST_RAW
             THEN Report([p EXCEPT !.size = Ui(balance)], <<"SwapFill">>)
             ELSE Finalize(p, <<"SwapFill">>, <<>>)

PollCloseFill(p) ==
  /\ p.intent = "Close"
  /\ Filled(p)
  /\ IF position = None
     THEN emitted' = <<"SwapFill">> /\ UNCHANGED <<position, announced, realized>>
     ELSE \E f \in FillAmounts(p) : CloseFillOn(f)

\* The loop over the signatures is over.
PollEnd ==
  /\ pc = "poll" /\ todo = {}
  /\ pending' = {p \in pending : p.sig \notin done}
  /\ aged' = aged \ done
  /\ done' = {}
  /\ pc' = "loop"
  /\ snap' = [s \in Sigs |-> "none"]
  /\ Silent
  /\ UNCHANGED <<assetUnit, isPaused, rxClosed, job, todo, orderBuys, chainVars>>

-----------------------------------------------------------------------------
\* Time and the ledger (external).

\* 20 s have passed since the buy s was submitted.  Without the fault "late"
\* a transaction that is going to land has been seen by then.
Age(s) ==
  /\ \E p \in pending : p.sig = s /\ p.intent = "Open"
  /\ s \notin aged
  /\ "late" \in Faults \/ tx[s].stage \in {"sent", "failed", "dropped"}
  /\ aged' = aged \cup {s}
  /\ emitted' = <<>>
  /\ UNCHANGED <<assetUnit, isPaused, rxClosed, pending, position, pc, job, todo, snap,
                 done, announced, realized, orderBuys, chainVars>>

Ledger == emitted' = <<>>
          /\ UNCHANGED <<assetUnit, isPaused, rxClosed, pending, aged, position, pc, job,
                         todo, snap, done, announced, realized, orderBuys>>

\* The transaction executes.
Land(s) ==
  /\ tx[s].stage = "sent"
  /\ "late" \in Faults \/ (Tracked(s) /\ s \notin aged)
  /\ tx[s].intent = "Close" => wallet >= tx[s].amount
  /\ \E out \in Fills[tx[s].intent] :
       /\ tx' = [tx EXCEPT ![s].stage = "processed", ![s].out = out]
       /\ IF tx[s].intent = "Open"
          THEN wallet' = wallet + out /\ cash' = cash - tx[s].amount - BuyFee
          ELSE wallet' = wallet - tx[s].amount /\ cash' = cash + out - TxFee
  /\ UNCHANGED settled
  /\ Ledger

\* It executes with an error (slippage, not enough tokens) and costs its fee.
Fail(s) ==
  /\ tx[s].stage = "sent"
  /\ tx' = [tx EXCEPT ![s].stage = "failed"]
  /\ cash' = cash - TxFee
  /\ UNCHANGED <<wallet, settled>>
  /\ Ledger

\* Its blockhash expires first.
Drop(s) ==
  /\ tx[s].stage = "sent"
  /\ tx[s].intent = "Open" \/ "drop" \in Faults
  /\ tx' = [tx EXCEPT ![s].stage = "dropped"]
  /\ UNCHANGED <<wallet, settled, cash>>
  /\ Ledger

Confirm(s) ==
  /\ tx[s].stage = "processed"
  /\ tx' = [tx EXCEPT ![s].stage = "confirmed"]
  /\ UNCHANGED <<wallet, settled, cash>>
  /\ Ledger

\* Finality follows execution order; without the fault "lag" nobody looks.
Settle(s) ==
  /\ "lag" \in Faults
  /\ tx[s].stage = "confirmed"
  /\ tx[s].intent = "Close" => settled >= tx[s].amount
  /\ tx' = [tx EXCEPT ![s].stage = "finalized"]
  /\ settled' = IF tx[s].intent = "Open" THEN settled + tx[s].out
                                         ELSE settled - tx[s].amount
  /\ UNCHANGED <<wallet, cash>>
  /\ Ledger

-----------------------------------------------------------------------------
Init ==
  /\ assetUnit = Unit \/ ("rpc" \in Faults /\ assetUnit = 1)
  /\ isPaused = FALSE /\ rxClosed = FALSE
  /\ pending = {} /\ aged = {} /\ position = None
  /\ pc = "loop" /\ job = NoJob /\ todo = {} /\ done = {}
  /\ snap = [s \in Sigs |-> "none"]
  /\ emitted = <<>> /\ announced = None /\ realized = 0 /\ orderBuys = 0
  /\ tx = [s \in Sigs |-> [intent |-> "Open", amount |-> 0, out |-> 0,
                           stage |-> "unused"]]
  /\ wallet = WalletStart /\ settled = WalletStart /\ cash = 0

Receive ==
  \/ \E n \in Sizes : RecvOpen(n)
  \/ RecvClose
  \/ RecvForceClose
  \/ \E paused \in BOOLEAN : RecvPause(paused)
  \/ ChannelClosed

PollStep ==
  \/ \E p \in todo :
       \/ PollFailed(p) \/ PollSkip(p) \/ PollFetchTimeout(p)
       \/ PollOpenFill(p) \/ PollCloseFill(p)
  \/ PollEnd

Submit ==
  \/ CloseRead
  \/ SwapRefused
  \/ \E s \in Sigs : SwapSent(s) \/ SwapLost(s)
  \/ SyncRead

Chain == \E s \in Sigs : \/ Land(s) \/ Fail(s) \/ Drop(s)
                         \/ Confirm(s) \/ Settle(s)

Next == Receive \/ PollStatuses \/ PollStep \/ Submit \/ Chain
          \/ \E s \in Sigs : Age(s)

Spec == Init /\ [][Next]_vars

(***************************************************************************)
(* Fairness: run keeps polling (tokio's select! is fair between a ready    *)
(* tick and a ready command), every network call returns, a node that      *)
(* fails now and then still answers now and then, and the clock runs.      *)
(* Nothing obliges anybody to send a command.                              *)
(***************************************************************************)
TaskFairness ==
  /\ WF_vars(PollStatuses) /\ WF_vars(PollEnd)
  /\ WF_vars(CloseRead) /\ WF_vars(SyncRead)
  /\ WF_vars(SwapRefused \/ \E s \in Sigs : SwapSent(s))
  /\ WF_vars(\E p \in todo : PollFailed(p) \/ PollSkip(p)
                               \/ PollOpenFill(p) \/ PollCloseFill(p))
  /\ SF_vars(\E p \in todo : PollOpenFill(p) \/ PollCloseFill(p))
  /\ \A s \in Sigs : WF_vars(Age(s))

\* The network decides the fate of every transaction it was sent.
NetworkFairness ==
  \A s \in Sigs : WF_vars(Land(s) \/ Fail(s) \/ Drop(s)) /\ WF_vars(Confirm(s))

FairSpec == Spec /\ TaskFairness /\ NetworkFairness

-----------------------------------------------------------------------------
(***************************************************************************)
(* The trade cycle the executor implements.                                *)
(***************************************************************************)
\* A pending swap poll_pending has not completed.
Live(p) == p \in pending /\ p.sig \notin done

LiveSwap(intent) == \E p \in pending : Live(p) /\ p.intent = intent

Mode ==
  IF position # None
  THEN IF LiveSwap("Close") THEN "selling" ELSE "holding"
  ELSE IF LiveSwap("Open") \/ (pc = "swap" /\ job.intent = "Open")
       THEN "buying" ELSE "flat"

Cycle == INSTANCE TradeCycle WITH mode <- Mode, told <- announced # None

\* Every step of the executor, the chain moving under it, is a step of the
\* trade cycle or changes nothing the market or the engine can see.
TradeCycleSpec == Cycle!Spec

\* And the fairness of the task gives the cycle its own: a buy is decided.
TradeCycleFair == Cycle!FairSpec

-----------------------------------------------------------------------------
(***************************************************************************)
(* Safety.                                                                 *)
(***************************************************************************)
TypeOK ==
  /\ assetUnit \in {1, Unit} /\ isPaused \in BOOLEAN /\ rxClosed \in BOOLEAN
  /\ pending \in SUBSET PendingSwap
  /\ aged \in SUBSET Sigs
  /\ position \in Position \cup {None}
  /\ pc \in {"loop", "poll", "swap", "closeRead", "syncRead"}
  /\ job \in Job
  /\ todo \in SUBSET pending
  /\ snap \in [Sigs -> {"none", "err", "processed", "ok"}]
  /\ done \in SUBSET Sigs
  /\ emitted \in Seq(Event)
  /\ announced \in Nat \cup {None}
  /\ realized \in Int
  /\ orderBuys \in Nat
  /\ tx \in [Sigs -> Tx]
  /\ wallet \in Nat /\ settled \in Nat /\ cash \in Int

\* The guards "pending nonempty" of run and the retry of handle_open_failure
\* together keep one swap in flight: at the select! at most one is pending,
\* and inside poll_pending a second one exists only as a retried buy beside
\* the one it replaces.
OneSwapInFlight ==
  /\ \A p, q \in pending : p # q => pc = "poll" /\ {p.sig, q.sig} \cap done # {}
  /\ pc = "loop" => done = {}

\* A buy in flight means no position, a sell in flight means there is one: so
\* the branches of apply_fill that add to a position, or that find none to
\* close, never run, and no buy is signed while holding.
SwapFitsPosition ==
  /\ \A p \in pending : Live(p) =>
       (p.intent = "Open" <=> position = None)
  /\ pc = "swap" /\ job.intent = "Open" => position = None

\* Whatever path a handler took, the last OpenPosition command the market
\* received tells the executor's position, its size included.
AnnouncedIsHeld == announced = View(position)

\* One Open order never signs more than OPEN_MAX_ATTEMPTS buys, through all
\* the timeouts, errors and retries it may meet.
BuysBounded == orderBuys <= OPEN_MAX_ATTEMPTS

\* The four properties above rest on what each point of the code knows about
\* the locals, the pending swaps and the position: Control, at the end, is an
\* inductive invariant of the executor beside its types.
AtMostOne == \A p, q \in pending : p = q

Reconciling ==
  /\ AtMostOne /\ pending # {}
  /\ \A p \in pending : p.sig = job.parent /\ p.intent = job.intent

PhaseInv ==
  /\ pc = "loop" => AtMostOne /\ todo = {} /\ done = {} /\ job = NoJob
  /\ pc = "poll" => job = NoJob /\ (todo # {} => AtMostOne /\ done = {})
  /\ pc \notin {"loop", "poll"} => todo = {} /\ done = {}
  /\ pc = "closeRead" => job.intent = "Close" /\ job.parent = NoSig
  /\ pc = "swap" /\ job.intent = "Close" => job.parent = NoSig
  /\ pc = "syncRead" /\ job.parent = NoSig => job.intent = "Close"
  /\ pc \notin {"loop", "poll"} =>
       IF job.parent = NoSig
       THEN pending = {} /\ (job.intent = "Open" <=> position = None)
       ELSE Reconciling

\* A pending signature has been sent, so the next one signed is new.
SigsUsed == /\ \A p \in pending : tx[p.sig].stage # "unused"
            /\ \A p, q \in pending : p.sig = q.sig => p = q

\* The attempt numbers count the buys signed for the order.
AttemptsCount ==
  /\ orderBuys <= OPEN_MAX_ATTEMPTS
  /\ \A p \in pending : Live(p) /\ p.intent = "Open" => orderBuys <= p.attempt
  /\ pc = "syncRead" /\ job.intent = "Open" => orderBuys <= job.attempt
  /\ pc = "swap" /\ job.intent = "Open" => orderBuys < job.attempt

Control == /\ OneSwapInFlight /\ SwapFitsPosition /\ AnnouncedIsHeld
           /\ PhaseInv /\ SigsUsed /\ AttemptsCount

\* Nothing is on its way: no handler, no pending swap, no undecided
\* transaction.
AtRest ==
  /\ pc = "loop" /\ pending = {}
  /\ \A s \in Sigs : tx[s].stage \notin
       {"sent", "processed"} \cup (IF "lag" \in Faults THEN {"confirmed"} ELSE {})

\* When everything has come to rest the position is what the wallet holds, at
\* the decimals of the mint, or at those the executor has; but an executor that
\* could not read the supply may keep a position without tokens, sold in a swap
\* its next close will report.  It needs a chain that decides within the timeout
\* and truthful balances.
HoldingsTracked ==
  AtRest => \/ position = None /\ wallet <= MIN_ASSET_DUST_RAW
            \/ /\ position # None /\ wallet > MIN_ASSET_DUST_RAW
               /\ position.size \in {wallet, Ui(wallet)}
            \/ /\ position # None /\ wallet = 0
               /\ assetUnit # Unit /\ position.closeAsset > 0

Spent(intent, stages) == {s \in Sigs : tx[s].intent = intent
                                         /\ tx[s].stage \in stages}

\* Fees that no Trade reports: those of buys, which PositionState::new does
\* not take, and those of transactions that failed.
UnreportedFees ==
  BuyFee * Cardinality(Spent("Open", {"confirmed", "finalized"}))
    + TxFee * Cardinality(Spent("Open", {"failed"}) \cup Spent("Close", {"failed"}))

\* Flat and at rest, the Trades sent add up to what the wallet gained, but
\* for the fees no Trade carries: each buy and each sell is counted in
\* exactly one Trade, whatever failed and was retried in between.
RealizedIsCashButFees ==
  AtRest /\ position = None => realized = cash + UnreportedFees

(***************************************************************************)
(* Liveness.                                                               *)
(***************************************************************************)
InFlight(intent) == \E p \in pending : p.intent = intent

\* Every swap is resolved.  A buy is filled, given up, or found in the wallet:
\* the timeout and the bounded retries see to that whatever the chain and the
\* node do, also when the trade channel is closed and only the polling is left.
\* A sell is filled or reconciled; nothing in poll_pending times one out, so
\* this rests on the chain deciding every sell.
SwapsResolve == \A i \in {"Open", "Close"} : InFlight(i) ~> ~InFlight(i)

(***************************************************************************)
(* Statements of the repository that the code does not keep.               *)
(***************************************************************************)
\* README.md, "realized session PnL": flat and at rest, what the Trades
\* report is what the wallet gained, when no transaction failed.
RealizedIsCash ==
  /\ AtRest /\ position = None
  /\ \A s \in Sigs : tx[s].stage # "failed"
  => realized = cash

\* src/bot.rs, "A Trade event is emitted on finalized full close": once all
\* tokens are sold and final, the position is closed.
FullSellFlattens == AtRest /\ wallet = 0 => position = None
=============================================================================
