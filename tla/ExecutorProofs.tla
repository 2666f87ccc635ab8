--------------------------- MODULE ExecutorProofs ---------------------------
(***************************************************************************)
(* Proofs about Executor, for every value of its constants.                *)
(***************************************************************************)
EXTENDS Executor, FiniteSetTheorems, TLAPS

USE DEF NoSig

-----------------------------------------------------------------------------
(***************************************************************************)
(* Type correctness.                                                       *)
(***************************************************************************)

\* The sequences of commands the handlers build from are sequences of events.
LEMMA EventSeqs ==
  /\ <<>> \in Seq(Event)
  /\ <<"SwapFill">> \in Seq(Event)
  /\ <<"OpenPosition">> \in Seq(Event)
  /\ <<"NoPosition">> \in Seq(Event)
  /\ <<"Trade", "NoPosition">> \in Seq(Event)
  /\ OpenFailed \in Seq(Event)
<1>1. "SwapFill" \in Event /\ "OpenPosition" \in Event
  BY DEF Event
<1>2. "NoPosition" \in Event /\ "Trade" \in Event /\ "OpenFailed" \in Event
  BY DEF Event
<1> QED
  BY <1>1, <1>2 DEF OpenFailed

\* None is not a position.
LEMMA NoneIsNoPosition == None \notin Position
BY ConstantsAssumption DEF Position

\* What a balance read may answer.
LEMMA BalanceType ==
  ASSUME TypeOK, NEW b \in BalanceReads
  PROVE  b \in Nat \cup {None}
BY DEF TypeOK, BalanceReads

\* A size is a natural number in the executor's decimals, too.
LEMMA UiType ==
  ASSUME NEW n \in Nat
  PROVE  Ui(n) \in Nat
<1>1. n * Unit \in Nat
  BY ConstantsAssumption
<1> QED
  BY <1>1 DEF Ui

\* The amounts of a fill are natural numbers.
LEMMA FillType ==
  ASSUME TypeOK, NEW p \in PendingSwap, NEW f \in FillAmounts(p)
  PROVE  f.asset \in Nat /\ f.size \in Nat /\ f.base \in Nat /\ f.fee \in Nat
<1> DEFINE net == tx[p.sig].out - TxFee
<1>1. p.amount \in Nat /\ p.expected \in Nat /\ p.sig \in Sigs
  BY DEF PendingSwap
<1>2. tx[p.sig].out \in Nat
  BY <1>1 DEF TypeOK, Tx
<1>3. net \in Int
  BY <1>2, ConstantsAssumption
<1>4. Abs(net) \in Nat
  BY <1>3 DEF Abs
<1>5. Ui(p.amount) \in Nat /\ Ui(p.expected) \in Nat
  BY <1>1, UiType
<1> QED
  BY <1>1, <1>2, <1>4, <1>5, ConstantsAssumption DEF FillAmounts

\* A fill leaves a position.
LEMMA OpenFilledType ==
  ASSUME TypeOK, NEW p \in PendingSwap, NEW f \in FillAmounts(p)
  PROVE  OpenFilled(f) \in Position
<1>1. f.asset \in Nat /\ f.size \in Nat /\ f.base \in Nat /\ f.fee \in Nat
  BY FillType
<1>2. CASE position = None
  BY <1>1, <1>2 DEF OpenFilled, Position
<1>3. CASE position # None
  <2>1. position \in Position
    BY <1>3 DEF TypeOK
  <2>2. /\ position.size + f.size \in Nat
        /\ position.openBase + f.base \in Nat
        /\ position.fees + f.fee \in Nat
    BY <1>1, <2>1 DEF Position
  <2> QED
    BY <1>3, <2>1, <2>2 DEF OpenFilled, Position
<1> QED
  BY <1>2, <1>3

LEMMA CloseFilledType ==
  ASSUME TypeOK, NEW p \in PendingSwap, NEW f \in FillAmounts(p),
         position # None
  PROVE  CloseFilled(f) \in Position
<1>1. f.asset \in Nat /\ f.size \in Nat /\ f.base \in Nat /\ f.fee \in Nat
  BY FillType
<1>2. position \in Position
  BY DEF TypeOK
<1>3. Monus(position.size, f.size) \in Nat
  BY <1>1, <1>2 DEF Monus, Position
<1>4. /\ position.closeAsset + f.asset \in Nat
      /\ position.closeGross + f.base + f.fee \in Nat
      /\ position.fees + f.fee \in Nat
  BY <1>1, <1>2 DEF Position
<1> QED
  BY <1>2, <1>3, <1>4 DEF CloseFilled, Position

\* The handlers' effects on the position and what is told of it keep types.
LEMMA SilentType ==
  ASSUME TypeOK, Silent
  PROVE  /\ position' \in Position \cup {None} /\ emitted' \in Seq(Event)
         /\ announced' \in Nat \cup {None} /\ realized' \in Int
BY DEF TypeOK, Silent

LEMMA ReportType ==
  ASSUME TypeOK, NEW p \in Position, NEW before \in {<<>>, <<"SwapFill">>},
         Report(p, before)
  PROVE  /\ position' \in Position \cup {None} /\ emitted' \in Seq(Event)
         /\ announced' \in Nat \cup {None} /\ realized' \in Int
<1>1. p.size \in Nat
  BY DEF Position
<1>2. before \in Seq(Event) /\ <<"OpenPosition">> \in Seq(Event)
  BY EventSeqs
<1>3. before \o <<"OpenPosition">> \in Seq(Event)
  BY <1>2
<1> QED
  BY <1>1, <1>3 DEF TypeOK, Report

LEMMA FinalizeType ==
  ASSUME TypeOK, NEW p \in Position \cup {None},
         NEW before \in {<<>>, <<"SwapFill">>},
         NEW after \in {<<>>, OpenFailed}, Finalize(p, before, after)
  PROVE  /\ position' \in Position \cup {None} /\ emitted' \in Seq(Event)
         /\ announced' \in Nat \cup {None} /\ realized' \in Int
<1> DEFINE traded == p # None /\ p.closeAsset > 0
           middle == IF traded THEN <<"Trade", "NoPosition">>
                               ELSE <<"NoPosition">>
<1>1. realized' \in Int
  <2>1. CASE traded
    <3>1. p \in Position
      BY <2>1
    <3>2. Pnl(p) \in Int
      BY <3>1 DEF Pnl, Position
    <3>3. realized' = realized + Pnl(p)
      BY <2>1 DEF Finalize
    <3> QED
      BY <3>2, <3>3 DEF TypeOK
  <2>2. CASE ~traded
    BY <2>2 DEF Finalize, TypeOK
  <2> QED
    BY <2>1, <2>2
<1>2. before \in Seq(Event) /\ middle \in Seq(Event) /\ after \in Seq(Event)
  BY EventSeqs
<1>3. before \o middle \o after \in Seq(Event)
  BY <1>2
<1>4. emitted' = before \o middle \o after
  BY DEF Finalize
<1> QED
  BY <1>1, <1>3, <1>4 DEF Finalize

LEMMA EmitOpenFailedType ==
  ASSUME TypeOK, EmitOpenFailed
  PROVE  /\ position' \in Position \cup {None} /\ emitted' \in Seq(Event)
         /\ announced' \in Nat \cup {None} /\ realized' \in Int
<1> QED
  BY EventSeqs DEF TypeOK, EmitOpenFailed

\* The end of a handler keeps the types of the task's own locals.
LEMMA ReturnType ==
  ASSUME TypeOK, Return
  PROVE  /\ job' \in Job /\ done' \in SUBSET Sigs
         /\ pc' \in {"loop", "poll"}
<1>1. NoJob \in Job
  BY DEF NoJob, Job, Intent, OPEN_MAX_ATTEMPTS
<1>2. job.parent \in Sigs \cup {NoSig}
  BY DEF TypeOK, Job
<1> QED
  BY <1>1, <1>2 DEF TypeOK, Return

\* Every command from the trade channel keeps the types.
LEMMA ReceiveType ==
  ASSUME TypeOK, Receive
  PROVE  TypeOK'
<1>1. ASSUME NEW n \in Sizes, RecvOpen(n) PROVE TypeOK'
  <2>1. n \in Nat
    BY ConstantsAssumption
  <2>2. [intent |-> "Open", amount |-> n, attempt |-> 1, parent |-> NoSig] \in Job
    BY <2>1 DEF Job, Intent, OPEN_MAX_ATTEMPTS
  <2>3. CASE n = 0
    BY <1>1, <2>3, EmitOpenFailedType DEF RecvOpen, TypeOK, chainVars
  <2>4. CASE n # 0
    BY <1>1, <2>2, <2>4, SilentType DEF RecvOpen, TypeOK, chainVars
  <2> QED
    BY <2>3, <2>4
<1>2. ASSUME StartClose PROVE TypeOK'
  <2>1. [intent |-> "Close", amount |-> 0, attempt |-> 0, parent |-> NoSig] \in Job
    BY DEF Job, Intent, OPEN_MAX_ATTEMPTS
  <2> QED
    BY <1>2, <2>1, SilentType DEF StartClose, TypeOK, chainVars
<1>3. ASSUME NEW paused \in BOOLEAN, RecvPause(paused) PROVE TypeOK'
  <2>1. <<"Paused">> \in Seq(Event) /\ <<"Resumed">> \in Seq(Event)
    <3>1. "Paused" \in Event /\ "Resumed" \in Event
      BY DEF Event
    <3> QED
      BY <3>1
  <2> QED
    BY <1>3, <2>1 DEF RecvPause, TypeOK, chainVars
<1>4. CASE ChannelClosed
  BY <1>4, SilentType DEF ChannelClosed, TypeOK, chainVars
<1> QED
  BY <1>1, <1>2, <1>3, <1>4, ConstantsAssumption
  DEF Receive, RecvClose, RecvForceClose

\* So does every step of a submission or of a reconciliation.
LEMMA SubmitType ==
  ASSUME TypeOK, Submit
  PROVE  TypeOK'
<1>1. CASE CloseRead
  <2>1. PICK b \in BalanceReads :
          IF b = None \/ b = 0
          THEN pc' = "syncRead" /\ UNCHANGED job
          ELSE pc' = "swap" /\ job' = [job EXCEPT !.amount = b]
    BY <1>1 DEF CloseRead
  <2>2. b \in Nat \cup {None}
    BY BalanceType
  <2>3. job' \in Job /\ pc' \in {"syncRead", "swap"}
    BY <2>1, <2>2 DEF TypeOK, Job
  <2> QED
    BY <1>1, <2>3, SilentType DEF CloseRead, TypeOK, chainVars
<1>2. ASSUME NEW s \in Sigs, Send(s)
      PROVE  tx' \in [Sigs -> Tx] /\ orderBuys' \in Nat
  <2>1. [intent |-> job.intent, amount |-> job.amount, out |-> 0,
         stage |-> "sent"] \in Tx
    BY DEF TypeOK, Job, Tx, Stage
  <2> QED
    BY <1>2, <2>1 DEF Send, TypeOK
<1>3. ASSUME NEW s \in Sigs, SwapSent(s) PROVE TypeOK'
  <2>1. [sig |-> s, intent |-> job.intent, amount |-> job.amount,
         expected |-> Quote[job.intent], attempt |-> job.attempt]
          \in PendingSwap
    BY ConstantsAssumption DEF TypeOK, Job, PendingSwap
  <2>2. pending' \in SUBSET PendingSwap /\ todo' \in SUBSET pending'
    BY <1>3, <2>1 DEF SwapSent, TypeOK
  <2> QED
    BY <1>2, <1>3, <2>2, SilentType, ReturnType DEF SwapSent, TypeOK
<1>4. ASSUME SwapError,
             tx' \in [Sigs -> Tx], orderBuys' \in Nat,
             UNCHANGED <<wallet, settled, cash>>
      PROVE  TypeOK'
  <2>1. CASE job.intent = "Open"
    BY <1>4, <2>1, EmitOpenFailedType, ReturnType DEF SwapError, TypeOK
  <2>2. CASE job.intent # "Open"
    BY <1>4, <2>2, SilentType DEF SwapError, TypeOK
  <2> QED
    BY <2>1, <2>2
<1>5. CASE SwapRefused
  BY <1>4, <1>5 DEF SwapRefused, TypeOK, chainVars
<1>6. ASSUME NEW s \in Sigs, SwapLost(s) PROVE TypeOK'
  BY <1>2, <1>4, <1>6 DEF SwapLost
<1>7. CASE SyncRead
  <2>1. ASSUME NEW held \in BOOLEAN, AfterSync(held)
        PROVE  /\ job' \in Job /\ done' \in SUBSET Sigs
               /\ pc' \in {"swap", "loop", "poll"}
    <3>1. CASE Return
      BY <3>1, ReturnType
    <3>2. CASE /\ job.attempt < OPEN_MAX_ATTEMPTS
               /\ pc' = "swap" /\ UNCHANGED done
               /\ job' = [job EXCEPT !.attempt = @ + 1]
      BY <3>2 DEF TypeOK, Job, OPEN_MAX_ATTEMPTS
    <3> QED
      BY <2>1, <3>1, <3>2 DEF AfterSync
  <2>2. PICK b \in BalanceReads :
       \/ /\ b = None
          /\ IF GivesUp(position # None) THEN EmitOpenFailed ELSE Silent
          /\ AfterSync(position # None)
       \/ /\ b # None /\ b <= MIN_ASSET_DUST_RAW
          /\ Finalize(position, <<>>,
                      IF GivesUp(FALSE) THEN OpenFailed ELSE <<>>)
          /\ AfterSync(FALSE)
       \/ /\ b # None /\ b > MIN_ASSET_DUST_RAW
          /\ Report(Resized(b), <<>>)
          /\ AfterSync(TRUE)
    BY <1>7 DEF SyncRead
  <2>3. b \in Nat \cup {None}
    BY BalanceType
  <2>4. position \in Position \cup {None}
    BY DEF TypeOK
  <2>5. b # None => Resized(b) \in Position
    BY <2>3, <2>4, UiType DEF Resized, Position
  <2>6. /\ position' \in Position \cup {None} /\ emitted' \in Seq(Event)
        /\ announced' \in Nat \cup {None} /\ realized' \in Int
    BY <2>2, <2>4, <2>5, SilentType, ReportType, FinalizeType,
       EmitOpenFailedType
  <2>7. /\ job' \in Job /\ done' \in SUBSET Sigs
        /\ pc' \in {"swap", "loop", "poll"}
    BY <2>1, <2>2
  <2> QED
    BY <1>7, <2>6, <2>7 DEF SyncRead, TypeOK, chainVars
<1> QED
  BY <1>1, <1>3, <1>5, <1>6, <1>7 DEF Submit

\* So does every step of poll_pending.
LEMMA PollType ==
  ASSUME TypeOK, PollStatuses \/ PollStep
  PROVE  TypeOK'
<1>1. CASE PollStatuses
  <2>1. \A s \in Sigs : Status(s) \in {"none", "err", "processed", "ok"}
    BY DEF Status, TypeOK, Tx, Stage
  <2>2. snap' \in [Sigs -> {"none", "err", "processed", "ok"}]
    BY <1>1, <2>1 DEF PollStatuses
  <2> QED
    BY <1>1, <2>2, SilentType DEF PollStatuses, TypeOK, chainVars
<1>2. ASSUME NEW p \in todo
      PROVE  p \in PendingSwap /\ p.sig \in Sigs
  BY <1>2 DEF TypeOK, PendingSwap
<1>3. ASSUME NEW p \in todo, Reconcile(p)
      PROVE  job' \in Job /\ pc' = "syncRead" /\ done' \in SUBSET Sigs
  <2>1. [intent |-> p.intent, amount |-> p.amount, attempt |-> p.attempt,
         parent |-> p.sig] \in Job
    BY <1>2 DEF PendingSwap, Job
  <2> QED
    BY <1>3, <2>1 DEF Reconcile, TypeOK
<1>4. ASSUME NEW p \in todo, PollFailed(p) PROVE TypeOK'
  BY <1>3, <1>4, SilentType DEF PollFailed, Visit, Reconcile, TypeOK, chainVars
<1>5. ASSUME NEW p \in todo, PollSkip(p) PROVE TypeOK'
  BY <1>5, SilentType DEF PollSkip, Visit, TypeOK, chainVars
<1>6. ASSUME NEW p \in todo, PollFetchTimeout(p) PROVE TypeOK'
  BY <1>2, <1>3, <1>6, SilentType
  DEF PollFetchTimeout, Visit, Reconcile, TypeOK, chainVars
<1>7. ASSUME NEW p \in todo, Filled(p),
             position' \in Position \cup {None}, emitted' \in Seq(Event),
             announced' \in Nat \cup {None}, realized' \in Int
      PROVE  TypeOK'
  BY <1>2, <1>7 DEF Filled, Visit, TypeOK, chainVars
<1>8. ASSUME NEW p \in todo, PollOpenFill(p) PROVE TypeOK'
  <2>1. PICK f \in FillAmounts(p) : Report(OpenFilled(f), <<"SwapFill">>)
    BY <1>8 DEF PollOpenFill
  <2>3. OpenFilled(f) \in Position
    BY <1>2, OpenFilledType
  <2> QED
    BY <1>7, <1>8, <2>1, <2>3, ReportType DEF PollOpenFill
<1>9. ASSUME NEW p \in todo, PollCloseFill(p) PROVE TypeOK'
  <2>1. CASE position = None
    BY <1>7, <1>9, <2>1, EventSeqs DEF PollCloseFill, TypeOK
  <2>2. CASE position # None
    <3>1. PICK f \in FillAmounts(p) : CloseFillOn(f)
      BY <1>9, <2>2 DEF PollCloseFill
    <3>4. CloseFilled(f) \in Position
      BY <1>2, <2>2, CloseFilledType
    <3>5. CASE Report(CloseFilled(f), <<"SwapFill">>)
      BY <1>7, <1>9, <3>4, <3>5, ReportType DEF PollCloseFill
    <3>6. ASSUME NEW b \in BalanceReads, b # None,
                 Report([CloseFilled(f) EXCEPT !.size = Ui(b)], <<"SwapFill">>)
          PROVE  TypeOK'
      <4>1. [CloseFilled(f) EXCEPT !.size = Ui(b)] \in Position
        BY <3>4, <3>6, BalanceType, UiType DEF Position
      <4> QED
        BY <1>7, <1>9, <3>6, <4>1, ReportType DEF PollCloseFill
    <3>7. CASE Finalize(CloseFilled(f), <<"SwapFill">>, <<>>)
      BY <1>7, <1>9, <3>4, <3>7, FinalizeType DEF PollCloseFill
    <3> QED
      BY <3>1, <3>5, <3>6, <3>7 DEF CloseFillOn
  <2> QED
    BY <2>1, <2>2
<1>10. CASE PollEnd
  <2>1. snap' \in [Sigs -> {"none", "err", "processed", "ok"}]
    BY <1>10 DEF PollEnd
  <2>2. /\ pending' \in SUBSET PendingSwap /\ aged' \in SUBSET Sigs
        /\ done' \in SUBSET Sigs /\ todo' \in SUBSET pending'
        /\ pc' = "loop"
    BY <1>10 DEF PollEnd, TypeOK
  <2> QED
    BY <1>10, <2>1, <2>2, SilentType DEF PollEnd, TypeOK, chainVars
<1> QED
  BY <1>1, <1>4, <1>5, <1>6, <1>8, <1>9, <1>10 DEF PollStep

\* So do the clock and the ledger.
LEMMA EnvironmentType ==
  ASSUME TypeOK, NEW s \in Sigs,
         Age(s) \/ Land(s) \/ Fail(s) \/ Drop(s) \/ Confirm(s) \/ Settle(s)
  PROVE  TypeOK'
<1>1. CASE Age(s)
  BY <1>1, EventSeqs DEF Age, TypeOK, chainVars
<1>2. ASSUME Ledger, tx' \in [Sigs -> Tx], wallet' \in Nat,
             settled' \in Nat, cash' \in Int
      PROVE  TypeOK'
  BY <1>2, EventSeqs DEF Ledger, TypeOK
<1>3. /\ tx[s] \in Tx /\ tx[s].out \in Nat /\ tx[s].amount \in Nat
      /\ tx[s].intent \in Intent
  BY DEF TypeOK, Tx
<1>4. ASSUME NEW st \in Stage PROVE [tx EXCEPT ![s].stage = st] \in [Sigs -> Tx]
  BY <1>3 DEF TypeOK, Tx
<1>5. CASE Land(s)
  <2>1. PICK out \in Fills[tx[s].intent] :
       /\ tx' = [tx EXCEPT ![s].stage = "processed", ![s].out = out]
       /\ IF tx[s].intent = "Open"
          THEN wallet' = wallet + out /\ cash' = cash - tx[s].amount - BuyFee
          ELSE wallet' = wallet - tx[s].amount /\ cash' = cash + out - TxFee
    BY <1>5 DEF Land
  <2>2. out \in Nat
    BY <1>3, ConstantsAssumption
  <2>3. tx' \in [Sigs -> Tx]
    BY <1>3, <2>1, <2>2 DEF TypeOK, Tx, Stage
  <2>4. tx[s].intent = "Close" => wallet >= tx[s].amount
    BY <1>5 DEF Land
  <2>5. wallet \in Nat /\ cash \in Int /\ BuyFee \in Nat /\ TxFee \in Nat
    BY ConstantsAssumption DEF TypeOK
  <2>6. CASE tx[s].intent = "Open"
    <3>1. wallet' = wallet + out /\ cash' = cash - tx[s].amount - BuyFee
      BY <2>1, <2>6
    <3>2. wallet' \in Nat /\ cash' \in Int
      BY <1>3, <2>2, <2>5, <3>1
    <3> QED
      BY <1>2, <1>5, <2>3, <3>2 DEF Land, TypeOK
  <2>7. CASE tx[s].intent = "Close"
    <3>1. wallet' = wallet - tx[s].amount /\ cash' = cash + out - TxFee
      BY <2>1, <2>7
    <3>2. wallet' \in Nat /\ cash' \in Int
      BY <1>3, <2>2, <2>4, <2>5, <2>7, <3>1
    <3> QED
      BY <1>2, <1>5, <2>3, <3>2 DEF Land, TypeOK
  <2> QED
    BY <1>3, <2>6, <2>7 DEF Intent
<1>6. CASE Fail(s)
  BY <1>2, <1>4, <1>6, ConstantsAssumption DEF Fail, TypeOK, Stage
<1>7. CASE Drop(s)
  BY <1>2, <1>4, <1>7 DEF Drop, TypeOK, Stage
<1>8. CASE Confirm(s)
  BY <1>2, <1>4, <1>8 DEF Confirm, TypeOK, Stage
<1>9. CASE Settle(s)
  <2>1. settled' \in Nat
    BY <1>3, <1>9 DEF Settle, TypeOK, Intent
  <2> QED
    BY <1>2, <1>4, <1>9, <2>1 DEF Settle, TypeOK, Stage
<1> QED
  BY <1>1, <1>5, <1>6, <1>7, <1>8, <1>9

\* TypeOK holds initially and every step keeps it.
LEMMA InitType ==
  ASSUME Init
  PROVE  TypeOK
<1>1. NoJob \in Job
  BY DEF NoJob, Job, Intent, OPEN_MAX_ATTEMPTS
<1>2. [intent |-> "Open", amount |-> 0, out |-> 0, stage |-> "unused"] \in Tx
  BY DEF Tx, Intent, Stage
<1>3. tx \in [Sigs -> Tx]
  BY <1>2 DEF Init
<1>4. snap \in [Sigs -> {"none", "err", "processed", "ok"}]
  BY DEF Init
<1>5. wallet \in Nat /\ settled \in Nat /\ cash \in Int
  BY ConstantsAssumption DEF Init
<1>6. job \in Job /\ emitted \in Seq(Event)
  BY <1>1, EventSeqs DEF Init
<1> QED
  BY <1>3, <1>4, <1>5, <1>6 DEF Init, TypeOK

LEMMA NextType ==
  ASSUME TypeOK, [Next]_vars
  PROVE  TypeOK'
<1>1. CASE UNCHANGED vars
  BY <1>1 DEF TypeOK, vars, execVars, chainVars
<1>2. CASE Next
  BY <1>2, ReceiveType, SubmitType, PollType, EnvironmentType DEF Next, Chain
<1> QED
  BY <1>1, <1>2

\* Every state of the executor has the types the code declares.
THEOREM TypeCorrect == Spec => []TypeOK
BY InitType, NextType, PTL DEF Spec

-----------------------------------------------------------------------------
(***************************************************************************)
(* One swap at a time.                                                     *)
(*                                                                         *)
(* None of the properties is inductive alone: that a buy is signed only    *)
(* without a position rests on what the code knew when it started the      *)
(* handler, that at most one swap is pending on which swap the handler is  *)
(* reconciling, and the bound on the buys on the attempt numbers carried   *)
(* by the pending swaps.  PhaseInv, SigsUsed and AttemptsCount say so, and *)
(* Control is the conjunction that every step keeps.                       *)
(***************************************************************************)
\* A step that touches none of the task's variables keeps Control as long as
\* no transaction becomes unused again.
LEMMA QuietControl ==
  ASSUME TypeOK, Control,
         UNCHANGED <<pending, position, pc, job, todo, done, announced,
                     orderBuys>>,
         \A r \in Sigs : tx[r].stage # "unused" => tx'[r].stage # "unused"
  PROVE  Control'
<1>1. \A p \in pending : p.sig \in Sigs
  BY DEF TypeOK, PendingSwap
<1>2. OneSwapInFlight' /\ AnnouncedIsHeld'
  BY DEF Control, OneSwapInFlight, AnnouncedIsHeld, View
<1>3. SwapFitsPosition'
  BY DEF Control, SwapFitsPosition, Live
<1>4. PhaseInv'
  BY DEF Control, PhaseInv, AtMostOne, Reconciling
<1>5. SigsUsed'
  BY <1>1 DEF Control, SigsUsed
<1>6. AttemptsCount'
  BY DEF Control, AttemptsCount, Live
<1> QED
  BY <1>2, <1>3, <1>4, <1>5, <1>6 DEF Control

LEMMA EnvironmentControl ==
  ASSUME TypeOK, Control, NEW s \in Sigs,
         Age(s) \/ Land(s) \/ Fail(s) \/ Drop(s) \/ Confirm(s) \/ Settle(s)
  PROVE  Control'
<1>1. CASE Age(s)
  BY <1>1, QuietControl DEF Age, chainVars
<1>2. ASSUME NEW st \in Stage, st # "unused", Ledger,
             \/ tx' = [tx EXCEPT ![s].stage = st]
             \/ \E out : tx' = [tx EXCEPT ![s].stage = st, ![s].out = out]
      PROVE  Control'
  <2>1. \A r \in Sigs : tx[r].stage # "unused" => tx'[r].stage # "unused"
    BY <1>2 DEF TypeOK, Tx
  <2> QED
    BY <1>2, <2>1, QuietControl DEF Ledger
<1>3. CASE Land(s)
  BY <1>2, <1>3 DEF Land, Stage
<1>4. CASE Fail(s)
  BY <1>2, <1>4 DEF Fail, Stage
<1>5. CASE Drop(s)
  BY <1>2, <1>5 DEF Drop, Stage
<1>6. CASE Confirm(s)
  BY <1>2, <1>6 DEF Confirm, Stage
<1>7. CASE Settle(s)
  BY <1>2, <1>7 DEF Settle, Stage
<1> QED
  BY <1>1, <1>3, <1>4, <1>5, <1>6, <1>7

LEMMA ReceiveControl ==
  ASSUME TypeOK, Control, Receive
  PROVE  Control'
<1> USE DEF Control
<1> USE DEF FlatAndFree, HeldAndFree
<1>1. ASSUME NEW n \in Sizes, RecvOpen(n) PROVE Control'
  <2>1. OneSwapInFlight' /\ SigsUsed'
    BY <1>1 DEF RecvOpen, OneSwapInFlight, SigsUsed, PhaseInv, chainVars
  <2>2. SwapFitsPosition' /\ AnnouncedIsHeld'
    BY <1>1 DEF RecvOpen, SwapFitsPosition, AnnouncedIsHeld, View,
                EmitOpenFailed, Silent
  <2>3. PhaseInv'
    BY <1>1 DEF RecvOpen, PhaseInv, AtMostOne, EmitOpenFailed, Silent
  <2>4. AttemptsCount'
    BY <1>1 DEF RecvOpen, AttemptsCount, PhaseInv, OPEN_MAX_ATTEMPTS
  <2> QED
    BY <2>1, <2>2, <2>3, <2>4
<1>2. ASSUME StartClose PROVE Control'
  <2>1. OneSwapInFlight' /\ SigsUsed'
    BY <1>2 DEF StartClose, OneSwapInFlight, SigsUsed, PhaseInv, chainVars
  <2>2. SwapFitsPosition' /\ AnnouncedIsHeld'
    BY <1>2 DEF StartClose, SwapFitsPosition, AnnouncedIsHeld, View, Silent
  <2>3. PhaseInv'
    BY <1>2 DEF StartClose, PhaseInv, Silent
  <2>4. AttemptsCount'
    BY <1>2 DEF StartClose, AttemptsCount
  <2> QED
    BY <2>1, <2>2, <2>3, <2>4
<1>3. ASSUME NEW paused \in BOOLEAN, RecvPause(paused) PROVE Control'
  BY <1>3, QuietControl DEF RecvPause, chainVars
<1>4. CASE ChannelClosed
  BY <1>4, QuietControl DEF ChannelClosed, Silent, chainVars
<1> QED
  BY <1>1, <1>2, <1>3, <1>4, ConstantsAssumption
  DEF Receive, RecvClose, RecvForceClose

\* What Return does, seen from a handler that holds the phase invariant.
LEMMA ReturnPhase ==
  ASSUME TypeOK, Control, pc \in {"swap", "syncRead"}, Return
  PROVE  /\ job' = NoJob /\ todo = {} /\ done = {}
         /\ job.parent = NoSig => pc' = "loop" /\ done' = {}
         /\ job.parent # NoSig => pc' = "poll" /\ done' = {job.parent}
BY DEF Control, PhaseInv, Return

LEMMA SwapSentControl ==
  ASSUME TypeOK, Control, NEW s \in Sigs, SwapSent(s)
  PROVE  Control'
<1> DEFINE new == [sig |-> s, intent |-> job.intent, amount |-> job.amount,
                   expected |-> Quote[job.intent], attempt |-> job.attempt]
<1> USE DEF Control
<1>1. /\ pc = "swap" /\ pending' = pending \cup {new} /\ Return /\ Silent
      /\ Send(s) /\ todo' = todo
  BY DEF SwapSent
<1>2. /\ new.sig = s /\ new.intent = job.intent /\ new.attempt = job.attempt
  OBVIOUS
<1>3. job.attempt \in Nat /\ orderBuys \in Nat /\ job.intent \in Intent
      /\ job.parent \in Sigs \cup {NoSig} /\ Quote[job.intent] \in Nat
  BY ConstantsAssumption DEF TypeOK, Job, OPEN_MAX_ATTEMPTS
<1>4. \A p \in pending : p.sig \in Sigs /\ p.sig # s
  BY <1>1 DEF Send, Fresh, SigsUsed, TypeOK, PendingSwap, Sigs
<1>5. /\ job' = NoJob /\ todo' = {} /\ done = {}
      /\ job.parent = NoSig => pc' = "loop" /\ done' = {} /\ pending = {}
      /\ job.parent # NoSig => pc' = "poll" /\ done' = {job.parent}
  BY <1>1, ReturnPhase DEF PhaseInv
<1>6. job.parent # NoSig =>
        AtMostOne /\ \A p \in pending : p.sig = job.parent
  BY <1>1 DEF PhaseInv, Reconciling
<1>8. \A p \in pending' : Live(p)' => p = new
  BY <1>1, <1>5, <1>6 DEF Live
<1>10. position' = position /\ announced' = announced
  BY <1>1 DEF Silent
<1>11. OneSwapInFlight'
  <2>1. CASE job.parent = NoSig
    BY <1>1, <1>5, <2>1 DEF OneSwapInFlight
  <2>2. CASE job.parent # NoSig
    BY <1>1, <1>5, <1>6, <2>2 DEF OneSwapInFlight, AtMostOne
  <2> QED
    BY <2>1, <2>2
<1>12. SwapFitsPosition'
  <2>1. job.intent = "Open" <=> position = None
    BY <1>1, <1>3 DEF PhaseInv, Reconciling, SwapFitsPosition, Live, Intent
  <2> QED
    BY <1>2, <1>5, <1>8, <1>10, <2>1 DEF SwapFitsPosition
<1>13. AnnouncedIsHeld'
  BY <1>10 DEF AnnouncedIsHeld, View
<1>14. PhaseInv'
  BY <1>1, <1>5 DEF PhaseInv, AtMostOne, NoJob
<1>15. SigsUsed'
  <2>1. tx'[s].stage = "sent" /\ \A r \in Sigs \ {s} : tx'[r] = tx[r]
    BY <1>1 DEF Send, TypeOK
  <2> QED
    BY <1>1, <1>2, <1>4, <2>1 DEF SigsUsed
<1>16. AttemptsCount'
  <2>1. CASE job.intent = "Open"
    <3>1. orderBuys' = orderBuys + 1 /\ orderBuys < job.attempt
      BY <1>1, <2>1 DEF Send, AttemptsCount
    <3>2. orderBuys' <= job.attempt /\ job.attempt <= OPEN_MAX_ATTEMPTS
      BY <1>3, <3>1 DEF TypeOK, Job, OPEN_MAX_ATTEMPTS
    <3>3. orderBuys' <= OPEN_MAX_ATTEMPTS
      BY <1>3, <3>1, <3>2 DEF OPEN_MAX_ATTEMPTS
    <3> QED
      BY <1>2, <1>5, <1>8, <3>2, <3>3 DEF AttemptsCount
  <2>2. CASE job.intent = "Close"
    <3>1. orderBuys' = orderBuys
      BY <1>1, <2>2 DEF Send
    <3> QED
      BY <1>2, <1>5, <1>8, <2>2, <3>1 DEF AttemptsCount
  <2> QED
    BY <1>3, <2>1, <2>2 DEF Intent
<1> QED
  BY <1>11, <1>12, <1>13, <1>14, <1>15, <1>16

\* A handler that returns without signing anything: the position may have
\* become anything, no other swap is pending than the one it reconciled.
LEMMA ReturnControl ==
  ASSUME TypeOK, Control, pc \in {"swap", "syncRead"}, Return,
         pending' = pending, todo' = todo, orderBuys' \in Nat,
         orderBuys' <= OPEN_MAX_ATTEMPTS,
         announced' = View(position)',
         \A r \in Sigs : tx[r].stage # "unused" => tx'[r].stage # "unused"
  PROVE  Control'
<1> USE DEF Control
<1>1. /\ job' = NoJob /\ todo' = {} /\ done = {}
      /\ job.parent = NoSig => pc' = "loop" /\ done' = {} /\ pending = {}
      /\ job.parent # NoSig => pc' = "poll" /\ done' = {job.parent}
  BY ReturnPhase DEF PhaseInv
<1>2. job.parent # NoSig =>
        AtMostOne /\ \A p \in pending : p.sig = job.parent
  BY DEF PhaseInv, Reconciling
<1>3. \A p \in pending' : ~Live(p)'
  BY <1>1, <1>2 DEF Live
<1>4. OneSwapInFlight' /\ SwapFitsPosition' /\ AnnouncedIsHeld'
  BY <1>1, <1>2, <1>3
  DEF OneSwapInFlight, SwapFitsPosition, AnnouncedIsHeld, AtMostOne
<1>5. PhaseInv' /\ AttemptsCount'
  BY <1>1, <1>2, <1>3 DEF PhaseInv, AttemptsCount, AtMostOne
<1>6. SigsUsed'
  BY DEF SigsUsed, TypeOK, PendingSwap
<1> QED
  BY <1>4, <1>5, <1>6

LEMMA SubmitControl ==
  ASSUME TypeOK, Control, Submit
  PROVE  Control'
<1> USE DEF Control
<1>1. CASE CloseRead
  <2>1. /\ pc' \in {"swap", "syncRead"}
        /\ job'.intent = job.intent /\ job'.parent = job.parent
        /\ pending' = pending /\ done' = done /\ todo' = todo
        /\ position' = position /\ announced' = announced
        /\ orderBuys' = orderBuys /\ tx' = tx /\ pc = "closeRead"
    BY <1>1 DEF CloseRead, Silent, chainVars, TypeOK, Job
  <2>2. job.intent = "Close" /\ job.parent = NoSig /\ pending = {}
    BY <2>1 DEF PhaseInv
  <2>3. OneSwapInFlight' /\ SwapFitsPosition' /\ AnnouncedIsHeld'
    BY <2>1, <2>2 DEF OneSwapInFlight, SwapFitsPosition, AnnouncedIsHeld, View
  <2>4. PhaseInv'
    BY <2>1, <2>2 DEF PhaseInv
  <2>5. SigsUsed' /\ AttemptsCount'
    BY <2>1, <2>2 DEF SigsUsed, AttemptsCount
  <2> QED
    BY <2>3, <2>4, <2>5
<1>2. ASSUME NEW s \in Sigs, Send(s)
      PROVE  \A r \in Sigs : tx[r].stage # "unused" => tx'[r].stage # "unused"
  BY <1>2 DEF Send, TypeOK
<1>3. ASSUME SwapError, pc = "swap", orderBuys' \in Nat,
             orderBuys' <= OPEN_MAX_ATTEMPTS,
             \A r \in Sigs : tx[r].stage # "unused" => tx'[r].stage # "unused"
      PROVE  Control'
  <2>1. CASE job.intent = "Open"
    <3>1. position = None
      BY <1>3, <2>1 DEF SwapFitsPosition
    <3>2. Return /\ announced' = None /\ position' = position
      BY <1>3, <2>1 DEF SwapError, EmitOpenFailed
    <3> QED
      BY <1>3, <3>1, <3>2, ReturnControl DEF SwapError, View
  <2>2. CASE job.intent = "Close"
    <3>1. /\ pc' = "syncRead" /\ job' = job /\ done' = done
          /\ pending' = pending /\ todo' = todo
          /\ position' = position /\ announced' = announced
      BY <1>3, <2>2 DEF SwapError, Silent
    <3>2. pending = {} /\ job.parent = NoSig
      BY <1>3, <2>2 DEF PhaseInv
    <3>3. OneSwapInFlight' /\ SwapFitsPosition' /\ AnnouncedIsHeld'
      BY <3>1, <3>2 DEF OneSwapInFlight, SwapFitsPosition, AnnouncedIsHeld, View
    <3>4. PhaseInv'
      BY <1>3, <2>2, <3>1, <3>2 DEF PhaseInv
    <3>5. SigsUsed' /\ AttemptsCount'
      BY <1>3, <2>2, <3>1, <3>2 DEF SigsUsed, AttemptsCount
    <3> QED
      BY <3>3, <3>4, <3>5
  <2> QED
    BY <2>1, <2>2 DEF TypeOK, Job, Intent
<1>4. CASE SwapRefused
  <2>1. orderBuys' = orderBuys /\ tx' = tx /\ SwapError /\ pc = "swap"
    BY <1>4 DEF SwapRefused, SwapError, chainVars
  <2> QED
    BY <1>3, <2>1 DEF AttemptsCount, TypeOK
<1>5. ASSUME NEW s \in Sigs, SwapLost(s) PROVE Control'
  <2>1. SwapError /\ Send(s) /\ pc = "swap"
    BY <1>5 DEF SwapLost, SwapError
  <2>2. orderBuys' \in Nat /\ orderBuys' <= OPEN_MAX_ATTEMPTS
    <3>1. job.attempt \in 0 .. OPEN_MAX_ATTEMPTS /\ orderBuys \in Nat
      BY DEF TypeOK, Job
    <3>2. job.intent = "Open" => orderBuys < job.attempt
      BY <2>1 DEF AttemptsCount
    <3> QED
      BY <2>1, <3>1, <3>2 DEF Send, AttemptsCount, OPEN_MAX_ATTEMPTS
  <2> QED
    BY <1>2, <1>3, <2>1, <2>2
<1>6. CASE SyncRead
  <2>1. PICK b \in BalanceReads :
       \/ /\ b = None
          /\ IF GivesUp(position # None) THEN EmitOpenFailed ELSE Silent
          /\ AfterSync(position # None)
       \/ /\ b # None /\ b <= MIN_ASSET_DUST_RAW
          /\ Finalize(position, <<>>,
                      IF GivesUp(FALSE) THEN OpenFailed ELSE <<>>)
          /\ AfterSync(FALSE)
       \/ /\ b # None /\ b > MIN_ASSET_DUST_RAW
          /\ Report(Resized(b), <<>>)
          /\ AfterSync(TRUE)
    BY <1>6 DEF SyncRead
  <2>2. /\ pc = "syncRead" /\ pending' = pending /\ todo' = todo
        /\ orderBuys' = orderBuys /\ tx' = tx
    BY <1>6 DEF SyncRead, chainVars
  <2>3. b # None => Resized(b) # None
    <3>1. b \in Nat \cup {None} /\ position \in Position \cup {None}
      BY BalanceType DEF TypeOK
    <3>2. b # None => Resized(b) \in Position
      <4>1. b # None => Ui(b) \in Nat
        BY <3>1, UiType
      <4> QED
        BY <3>1, <4>1 DEF Resized, Position
    <3> QED
      BY <3>2, NoneIsNoPosition
  <2>4. announced' = View(position)'
    BY <2>1, <2>3
    DEF EmitOpenFailed, Silent, Finalize, Report, View, GivesUp,
        AnnouncedIsHeld
  <2>5. job.intent = "Open" => job.parent # NoSig
    BY <2>2 DEF PhaseInv
  <2>6. CASE Return
    BY <2>2, <2>4, <2>6, ReturnControl DEF AttemptsCount, TypeOK
  <2>7. CASE ~Return
    <3>1. /\ job.intent = "Open" /\ job.attempt < OPEN_MAX_ATTEMPTS
          /\ pc' = "swap" /\ done' = done
          /\ job' = [job EXCEPT !.attempt = @ + 1]
          /\ position' = None
      <4>1. ASSUME NEW held \in BOOLEAN, AfterSync(held)
            PROVE  /\ job.intent = "Open" /\ job.attempt < OPEN_MAX_ATTEMPTS
                   /\ pc' = "swap" /\ done' = done /\ ~held
                   /\ job' = [job EXCEPT !.attempt = @ + 1]
        BY <2>7, <4>1 DEF AfterSync
      <4>2. CASE b = None
        <5>1. position' = position
          BY <2>1, <4>2 DEF EmitOpenFailed, Silent
        <5> QED
          BY <2>1, <4>1, <4>2, <5>1
      <4>3. CASE b # None
        BY <2>1, <4>1, <4>3 DEF Finalize
      <4> QED
        BY <4>2, <4>3
    <3>2. /\ job'.intent = "Open" /\ job'.parent = job.parent
          /\ job'.attempt = job.attempt + 1 /\ job.attempt \in Nat
      BY <3>1 DEF TypeOK, Job, OPEN_MAX_ATTEMPTS
    <3>3. position = None
      BY <2>2, <2>5, <3>1 DEF PhaseInv, Reconciling, SwapFitsPosition, Live
    <3>4. OneSwapInFlight' /\ SwapFitsPosition' /\ AnnouncedIsHeld'
      BY <2>2, <2>4, <3>1, <3>3
      DEF OneSwapInFlight, SwapFitsPosition, AnnouncedIsHeld, Live
    <3>5. PhaseInv'
      BY <2>2, <2>5, <3>1, <3>2 DEF PhaseInv, Reconciling, AtMostOne
    <3>6. SigsUsed'
      BY <2>2 DEF SigsUsed
    <3>7. AttemptsCount'
      BY <2>2, <3>1, <3>2 DEF AttemptsCount, Live, TypeOK
    <3> QED
      BY <3>4, <3>5, <3>6, <3>7
  <2> QED
    BY <2>6, <2>7
<1> QED
  BY <1>1, <1>4, <1>5, <1>6, SwapSentControl DEF Submit

LEMMA PollControl ==
  ASSUME TypeOK, Control, PollStatuses \/ PollStep
  PROVE  Control'
<1> USE DEF Control
<1>1. CASE PollStatuses
  <2>1. /\ pc = "loop" /\ pc' = "poll" /\ pending' = pending /\ todo' = pending
        /\ done' = done /\ job' = job /\ position' = position /\ tx' = tx
        /\ announced' = announced /\ orderBuys' = orderBuys
    BY <1>1 DEF PollStatuses, Silent, chainVars
  <2>2. OneSwapInFlight' /\ SwapFitsPosition' /\ AnnouncedIsHeld'
    BY <2>1
    DEF OneSwapInFlight, SwapFitsPosition, AnnouncedIsHeld, View, Live, PhaseInv
  <2>3. PhaseInv'
    BY <2>1 DEF PhaseInv, AtMostOne
  <2>4. SigsUsed' /\ AttemptsCount'
    BY <2>1 DEF SigsUsed, AttemptsCount, Live
  <2> QED
    BY <2>2, <2>3, <2>4
<1>2. ASSUME NEW p \in todo, Visit(p)
      PROVE  /\ pc = "poll" /\ job = NoJob /\ done = {} /\ pending = {p}
             /\ pending' = pending /\ todo' = {} /\ orderBuys' = orderBuys
             /\ tx' = tx /\ p.sig \in Sigs /\ p.intent \in Intent
             /\ Live(p)
  BY <1>2 DEF Visit, PhaseInv, AtMostOne, TypeOK, PendingSwap, chainVars, Live
<1>3. ASSUME NEW p \in todo, Visit(p), Reconcile(p)
      PROVE  Control'
  <2>1. /\ pc' = "syncRead" /\ done' = {} /\ pending' = {p}
        /\ job'.intent = p.intent /\ job'.parent = p.sig
        /\ job'.attempt = p.attempt
        /\ position' = position /\ announced' = announced
    BY <1>2, <1>3 DEF Reconcile, Silent
  <2>2. OneSwapInFlight' /\ AnnouncedIsHeld'
    BY <2>1 DEF OneSwapInFlight, AnnouncedIsHeld, View
  <2>3. SwapFitsPosition'
    BY <1>2, <1>3, <2>1 DEF SwapFitsPosition, Live
  <2>4. PhaseInv'
    BY <1>2, <1>3, <2>1 DEF PhaseInv, Reconciling, AtMostOne, Sigs
  <2>5. SigsUsed' /\ AttemptsCount'
    BY <1>2, <1>3, <2>1 DEF SigsUsed, AttemptsCount, Live
  <2> QED
    BY <2>2, <2>3, <2>4, <2>5
<1>4. ASSUME NEW p \in todo, PollFailed(p) PROVE Control'
  BY <1>3, <1>4 DEF PollFailed
<1>5. ASSUME NEW p \in todo, PollFetchTimeout(p) PROVE Control'
  BY <1>3, <1>5 DEF PollFetchTimeout
<1>6. ASSUME NEW p \in todo, Visit(p), pc' = pc, job' = job,
             done' = done \cup {p.sig}, announced' = View(position)'
      PROVE  Control'
  <2>1. \A q \in pending' : ~Live(q)'
    BY <1>2, <1>6 DEF Live
  <2>2. OneSwapInFlight' /\ SwapFitsPosition' /\ AnnouncedIsHeld'
    BY <1>2, <1>6, <2>1 DEF OneSwapInFlight, SwapFitsPosition, AnnouncedIsHeld
  <2>3. PhaseInv'
    BY <1>2, <1>6 DEF PhaseInv
  <2>4. SigsUsed' /\ AttemptsCount'
    BY <1>2, <1>6, <2>1 DEF SigsUsed, AttemptsCount
  <2> QED
    BY <2>2, <2>3, <2>4
<1>7. ASSUME NEW p \in todo, PollSkip(p) PROVE Control'
  <2>1. /\ Visit(p) /\ pc' = pc /\ job' = job /\ done' = done
        /\ position' = position /\ announced' = announced
    BY <1>7 DEF PollSkip, Silent
  <2>2. OneSwapInFlight' /\ SwapFitsPosition' /\ AnnouncedIsHeld'
    BY <1>2, <2>1
    DEF OneSwapInFlight, SwapFitsPosition, AnnouncedIsHeld, View, Live
  <2>3. PhaseInv'
    BY <1>2, <2>1 DEF PhaseInv
  <2>4. SigsUsed' /\ AttemptsCount'
    BY <1>2, <2>1 DEF SigsUsed, AttemptsCount, Live
  <2> QED
    BY <2>2, <2>3, <2>4
<1>8. ASSUME NEW q \in Position, NEW before, Report(q, before)
      PROVE  announced' = View(position)'
  BY <1>8, NoneIsNoPosition DEF Report, View
<1>9. ASSUME NEW q, NEW before, Finalize(q, before, <<>>)
      PROVE  announced' = View(position)'
  BY <1>9 DEF Finalize, View
<1>10. ASSUME NEW p \in todo, PollOpenFill(p) PROVE Control'
  <2>1. PICK f \in FillAmounts(p) : Report(OpenFilled(f), <<"SwapFill">>)
    BY <1>10 DEF PollOpenFill
  <2>2. announced' = View(position)'
    BY <1>8, <2>1, OpenFilledType DEF TypeOK
  <2> QED
    BY <1>6, <1>10, <2>2 DEF PollOpenFill, Filled
<1>11. ASSUME NEW p \in todo, PollCloseFill(p) PROVE Control'
  <2>1. CASE position = None
    BY <1>6, <1>11, <2>1
    DEF PollCloseFill, Filled, AnnouncedIsHeld, View
  <2>2. CASE position # None
    <3>1. PICK f \in FillAmounts(p) : CloseFillOn(f)
      BY <1>11, <2>2 DEF PollCloseFill
    <3>2. CloseFilled(f) \in Position
      BY <2>2, CloseFilledType DEF TypeOK
    <3>3. ASSUME NEW b \in BalanceReads, b # None
          PROVE  [CloseFilled(f) EXCEPT !.size = Ui(b)] \in Position
      <4>1. Ui(b) \in Nat
        BY <3>3, BalanceType, UiType
      <4> QED
        BY <3>2, <4>1 DEF Position
    <3>4. announced' = View(position)'
      BY <1>8, <1>9, <3>1, <3>2, <3>3 DEF CloseFillOn
    <3> QED
      BY <1>6, <1>11, <3>4 DEF PollCloseFill, Filled
  <2> QED
    BY <2>1, <2>2
<1>12. CASE PollEnd
  <2>1. /\ pc' = "loop" /\ pending' = {p \in pending : p.sig \notin done}
        /\ todo' = {} /\ done' = {} /\ job' = job /\ job = NoJob
        /\ position' = position /\ announced' = announced /\ tx' = tx
        /\ orderBuys' = orderBuys /\ pc = "poll"
    BY <1>12 DEF PollEnd, Silent, PhaseInv, chainVars
  <2>2. \A p, q \in pending' : p = q
    BY <2>1 DEF OneSwapInFlight
  <2>3. \A p \in pending' : Live(p)
    BY <2>1 DEF Live
  <2>4. OneSwapInFlight' /\ SwapFitsPosition' /\ AnnouncedIsHeld'
    BY <2>1, <2>2, <2>3
    DEF OneSwapInFlight, SwapFitsPosition, AnnouncedIsHeld, View
  <2>5. PhaseInv'
    BY <2>1, <2>2 DEF PhaseInv, AtMostOne
  <2>6. SigsUsed' /\ AttemptsCount'
    BY <2>1, <2>3 DEF SigsUsed, AttemptsCount
  <2> QED
    BY <2>4, <2>5, <2>6
<1> QED
  BY <1>1, <1>4, <1>5, <1>7, <1>10, <1>11, <1>12 DEF PollStep

LEMMA InitControl ==
  ASSUME Init
  PROVE  Control
BY DEF Init, Control, OneSwapInFlight, SwapFitsPosition, AnnouncedIsHeld,
       View, PhaseInv, AtMostOne, SigsUsed, AttemptsCount, OPEN_MAX_ATTEMPTS

LEMMA NextControl ==
  ASSUME TypeOK, Control, [Next]_vars
  PROVE  Control'
<1>1. CASE UNCHANGED vars
  BY <1>1, QuietControl DEF vars, execVars, chainVars
<1>2. CASE Next
  BY <1>2, ReceiveControl, SubmitControl, PollControl, EnvironmentControl
  DEF Next, Chain
<1> QED
  BY <1>1, <1>2

LEMMA Controlled == Spec => []Control
<1>1. Init => Control
  BY InitControl
<1>2. TypeOK /\ Control /\ [Next]_vars => Control'
  BY NextControl
<1> QED
  BY <1>1, <1>2, TypeCorrect, PTL DEF Spec

\* The executor never has two swaps whose outcome it still waits for.
THEOREM OneSwap == Spec => []OneSwapInFlight
<1>1. Control => OneSwapInFlight
  BY DEF Control
<1> QED
  BY <1>1, Controlled, PTL

\* No buy is signed or outstanding while a position is held, no sell while
\* none is.
THEOREM SwapFits == Spec => []SwapFitsPosition
<1>1. Control => SwapFitsPosition
  BY DEF Control
<1> QED
  BY <1>1, Controlled, PTL

\* What the market was last told is what the executor holds.
THEOREM Announced == Spec => []AnnouncedIsHeld
<1>1. Control => AnnouncedIsHeld
  BY DEF Control
<1> QED
  BY <1>1, Controlled, PTL

\* Timeouts and retries never sign a third buy for one order.
THEOREM Bounded == Spec => []BuysBounded
<1>1. Control => BuysBounded
  BY DEF Control, AttemptsCount, BuysBounded
<1> QED
  BY <1>1, Controlled, PTL

-----------------------------------------------------------------------------
(***************************************************************************)
(* The accounts.  They are kept where balances and fills are read as they  *)
(* are and nothing lands that the executor gave up or never heard of, and  *)
(* where a buy yields more than dust and a sell at least its fee.          *)
(*                                                                         *)
(* LedgerInv says what the executor may conclude of a transaction: a       *)
(* status it read is final, and nothing lands after its timeout.  Then the *)
(* position is the wallet (TokensInv), and what was realized is what the   *)
(* wallet gained (MoneyInv), but for the one swap that landed and is not   *)
(* seen yet.  With the decimals of a supply it could not read the executor *)
(* may size what it holds a Unit too large, and keep a position it sold.   *)
(***************************************************************************)
Undisturbed ==
  /\ Faults \subseteq {"rpc", "drop", "ambiguous"} /\ WalletStart = 0
  /\ \A n \in Fills["Open"] : n > MIN_ASSET_DUST_RAW
  /\ \A n \in Fills["Close"] : n >= TxFee

Executed == {"processed", "confirmed", "finalized"}

Landed(s) == tx[s].stage \in Executed

\* A swap that executed and that the position does not have yet.
Unseen(p) == Live(p) /\ Landed(p.sig)

NothingUnseen == \A p \in pending : ~Unseen(p)

\* A swap the executor is through with, or about to be.
Dismissed(p) == p.sig \in done \/ p.sig = job.parent

AsAsked ==
  /\ \A p \in pending : tx[p.sig].intent = p.intent /\ tx[p.sig].amount = p.amount
  /\ \A s \in Sigs : Landed(s) => tx[s].out \in Fills[tx[s].intent]

NothingLate ==
  /\ \A s \in Sigs : tx[s].stage = "processed" => Tracked(s)
  /\ \A s \in aged : tx[s].stage \in {"sent", "failed", "dropped"}

ReadIsTrue ==
  \A s \in Sigs : /\ snap[s] = "err" => tx[s].stage = "failed"
                  /\ snap[s] = "ok" => tx[s].stage \in {"confirmed", "finalized"}

Fate(s) ==
  \/ tx[s].stage \in {"failed", "dropped"}
  \/ tx[s].stage = "sent" /\ s \in aged
  \/ s \in done /\ tx[s].stage \in {"confirmed", "finalized"}

LedgerInv ==
  /\ AsAsked /\ NothingLate /\ ReadIsTrue
  /\ \A p \in pending : Dismissed(p) => Fate(p.sig)

\* The position stands for n tokens.
Holds(n) ==
  position # None /\ n > MIN_ASSET_DUST_RAW /\ position.size \in {n, Ui(n)}

\* Everything is sold, but the size the fill left is not zero.
SoldOut ==
  /\ position # None /\ position.closeAsset > 0
  /\ wallet = 0 /\ assetUnit # Unit

WalletTracked == (position = None /\ wallet = 0) \/ Holds(wallet) \/ SoldOut

\* A sell is of all there is.
SellsAll ==
  /\ \A p \in pending : Live(p) /\ p.intent = "Close" /\ ~Landed(p.sig)
                           => p.amount = wallet /\ wallet > 0
  /\ pc = "swap" /\ job.intent = "Close" => job.amount = wallet /\ wallet > 0

TokensInv ==
  /\ NothingUnseen => WalletTracked
  /\ \A p \in pending : Unseen(p) =>
       IF p.intent = "Open" THEN wallet = tx[p.sig].out
                            ELSE wallet = 0 /\ Holds(p.amount)
  /\ SellsAll

FeesPaid ==
  BuyFee * Cardinality(Spent("Open", Executed))
    + TxFee * Cardinality(Spent("Open", {"failed"}) \cup Spent("Close", {"failed"}))

Unrealized == IF position = None THEN 0 ELSE Pnl(position)

\* What a swap that landed adds to the pnl, once it is seen.
Gain(s) == IF tx[s].intent = "Open" THEN -tx[s].amount ELSE tx[s].out - TxFee

MoneyInv ==
  /\ NothingUnseen => cash + FeesPaid = realized + Unrealized
  /\ \A p \in pending :
       Unseen(p) => cash + FeesPaid = realized + Unrealized + Gain(p.sig)

Accounts == LedgerInv /\ TokensInv /\ MoneyInv

\* At most one swap is live, and in a handler that one is being reconciled.
LEMMA OneLive ==
  ASSUME TypeOK, Control, NEW p \in pending, NEW q \in pending, Live(p), Live(q)
  PROVE  p = q
BY DEF Control, OneSwapInFlight, Live

LEMMA PendingIs ==
  ASSUME TypeOK, NEW p \in pending
  PROVE  /\ p.sig \in Sigs /\ p.sig # NoSig /\ p.intent \in {"Open", "Close"}
         /\ p.amount \in Nat /\ p.expected \in Nat
BY ConstantsAssumption DEF TypeOK, PendingSwap, Intent, Sigs

\* In the middle of a handler there is nothing to be seen.
LEMMA HandlerSees ==
  ASSUME TypeOK, Control, LedgerInv, pc \in {"swap", "syncRead", "closeRead"}
  PROVE  NothingUnseen
<1> SUFFICES ASSUME NEW p \in pending, Unseen(p) PROVE FALSE
  BY DEF NothingUnseen
<1>1. p.sig = job.parent /\ done = {}
  BY DEF Control, PhaseInv, Reconciling
<1>2. Fate(p.sig)
  BY <1>1 DEF LedgerInv, Dismissed
<1> QED
  BY <1>1, <1>2 DEF Fate, Unseen, Landed, Executed

\* Where the ledger does not move, what is live stays so, or was seen.
LEMMA TokensKept ==
  ASSUME TypeOK, TokensInv, UNCHANGED <<pending, tx, wallet, position, assetUnit>>,
         \A p \in pending : Live(p)' => Live(p),
         \A p \in pending : Unseen(p) => Live(p)',
         pc' = "swap" /\ job'.intent = "Close"
           => job'.amount = wallet /\ wallet > 0
  PROVE  TokensInv'
<1>1. \A p \in pending : Unseen(p)' <=> Unseen(p)
  BY DEF Unseen, Landed
<1>2. NothingUnseen' <=> NothingUnseen
  BY <1>1 DEF NothingUnseen
<1>3. SellsAll'
  BY DEF TokensInv, SellsAll, Landed
<1> QED
  BY <1>1, <1>2, <1>3 DEF TokensInv, WalletTracked, Holds, SoldOut, Ui

LEMMA MoneyKept ==
  ASSUME TypeOK, MoneyInv, UNCHANGED <<pending, tx, cash, position, realized>>,
         \A p \in pending : Live(p)' => Live(p),
         \A p \in pending : Unseen(p) => Live(p)'
  PROVE  MoneyInv'
<1>1. \A p \in pending : Unseen(p)' <=> Unseen(p)
  BY DEF Unseen, Landed
<1>2. NothingUnseen' <=> NothingUnseen
  BY <1>1 DEF NothingUnseen
<1>3. FeesPaid' = FeesPaid /\ Unrealized' = Unrealized /\ \A s : Gain(s)' = Gain(s)
  BY DEF FeesPaid, Unrealized, Gain, Spent, Pnl
<1> QED
  BY <1>1, <1>2, <1>3 DEF MoneyInv

\* A step that moves neither the ledger nor the position.
LEMMA QuietAccounts ==
  ASSUME TypeOK, Accounts,
         UNCHANGED <<pending, tx, wallet, cash, position, realized, assetUnit>>,
         done \subseteq done', aged \subseteq aged', NothingLate', ReadIsTrue',
         \A p \in pending : Dismissed(p)' => Dismissed(p) \/ Fate(p.sig),
         \A p \in pending : Unseen(p) => p.sig \notin done',
         pc' = "swap" /\ job'.intent = "Close"
           => job'.amount = wallet /\ wallet > 0
  PROVE  Accounts'
<1>1. /\ \A p \in pending : Live(p)' => Live(p)
      /\ \A p \in pending : Unseen(p) => Live(p)'
  BY DEF Live, Unseen
<1>2. TokensInv' /\ MoneyInv'
  BY <1>1, TokensKept, MoneyKept DEF Accounts
<1>3. AsAsked'
  BY DEF Accounts, LedgerInv, AsAsked, Landed
<1>4. \A p \in pending' : Dismissed(p)' => Fate(p.sig)'
  <2>1. \A s : Fate(s) => Fate(s)'
    BY DEF Fate
  <2> QED
    BY <2>1 DEF Accounts, LedgerInv
<1> QED
  BY <1>2, <1>3, <1>4 DEF Accounts, LedgerInv

LEMMA SameReads ==
  ASSUME Accounts, UNCHANGED <<pending, tx, aged, snap>>
  PROVE  NothingLate' /\ ReadIsTrue'
BY DEF Accounts, LedgerInv, NothingLate, ReadIsTrue, Tracked

LEMMA UnseenIsLive ==
  ASSUME NEW p \in pending, Unseen(p)
  PROVE  p.sig \notin done
BY DEF Unseen, Live

LEMMA ReceiveAccounts ==
  ASSUME TypeOK, Control, Accounts, Receive
  PROVE  Accounts'
<1> DEFINE Quiet ==
             /\ UNCHANGED <<pending, aged, done, snap, tx, wallet, cash,
                            position, realized, assetUnit>>
             /\ job'.parent = job.parent
             /\ pc' = "swap" => job'.intent = "Open"
<1>1. Quiet
  <2>1. ASSUME NEW n \in Sizes, RecvOpen(n) PROVE Quiet
    BY <2>1 DEF RecvOpen, EmitOpenFailed, Silent, chainVars, Control, PhaseInv, NoJob
  <2>2. ASSUME StartClose PROVE Quiet
    BY <2>2 DEF StartClose, Silent, chainVars, Control, PhaseInv, NoJob
  <2>3. ASSUME NEW b \in BOOLEAN, RecvPause(b) PROVE Quiet
    BY <2>3 DEF RecvPause, chainVars
  <2>4. ASSUME ChannelClosed PROVE Quiet
    BY <2>4 DEF ChannelClosed, Silent, chainVars
  <2>5. RecvClose \/ RecvForceClose => StartClose
    BY DEF RecvClose, RecvForceClose
  <2> HIDE DEF Quiet
  <2> QED
    BY <2>1, <2>2, <2>3, <2>4, <2>5 DEF Receive
<1>2. \A p \in pending : Dismissed(p)' => Dismissed(p)
  BY <1>1 DEF Dismissed
<1> QED
  BY <1>1, <1>2, SameReads, UnseenIsLive, QuietAccounts

\* A balance read tells the wallet, or fails.
LEMMA BalanceIsWallet ==
  ASSUME TypeOK, Undisturbed, NEW b \in BalanceReads
  PROVE  b = None \/ b = wallet
BY DEF BalanceReads, Undisturbed

\* The reads and the refusals in the middle of a handler.
LEMMA ReturnKeeps ==
  ASSUME TypeOK, Control, Accounts, pc \in {"swap", "syncRead"}, Return,
         UNCHANGED <<pending, tx, aged, snap, wallet, cash, position, realized,
                     assetUnit>>
  PROVE  Accounts'
<1>1. NothingUnseen
  BY HandlerSees DEF Accounts
<1>2. /\ done \subseteq done' /\ pc' # "swap"
      /\ \A p \in pending : Dismissed(p)' => Dismissed(p)
  <2>1. \A p \in pending : p.sig # NoSig
    BY PendingIs
  <2> QED
    BY <2>1 DEF Return, Dismissed, NoJob
<1> QED
  BY <1>1, <1>2, SameReads, QuietAccounts DEF NothingUnseen

LEMMA CloseReadAccounts ==
  ASSUME TypeOK, Control, Accounts, Undisturbed, CloseRead
  PROVE  Accounts'
<1>1. /\ UNCHANGED <<pending, aged, done, snap, tx, wallet, cash, position,
                     realized, assetUnit>>
      /\ job'.parent = job.parent
      /\ pc' = "swap" => job'.amount = wallet /\ wallet > 0
  <2>1. job \in Job
    BY DEF TypeOK
  <2> QED
    BY <2>1, BalanceIsWallet DEF CloseRead, Silent, chainVars, Job, TypeOK
<1>2. \A p \in pending : Dismissed(p)' => Dismissed(p)
  BY <1>1 DEF Dismissed
<1> QED
  BY <1>1, <1>2, SameReads, UnseenIsLive, QuietAccounts

LEMMA SwapRefusedAccounts ==
  ASSUME TypeOK, Control, Accounts, SwapRefused
  PROVE  Accounts'
<1>1. /\ pc = "swap"
      /\ UNCHANGED <<pending, aged, snap, tx, wallet, cash, position, realized,
                     assetUnit>>
  BY DEF SwapRefused, SwapError, EmitOpenFailed, Silent, chainVars
<1>2. CASE job.intent = "Open"
  BY <1>1, <1>2, ReturnKeeps DEF SwapRefused, SwapError
<1>3. CASE job.intent # "Open"
  <2>1. pc' = "syncRead" /\ UNCHANGED <<job, done>>
    BY <1>3 DEF SwapRefused, SwapError
  <2>2. \A p \in pending : Dismissed(p)' => Dismissed(p)
    BY <2>1 DEF Dismissed
  <2> QED
    BY <1>1, <2>1, <2>2, SameReads, UnseenIsLive, QuietAccounts
<1> QED
  BY <1>2, <1>3

\* A step inside a handler, where nothing is left to be seen: the position may
\* move if the accounts still agree with it.
LEMMA HandlerAccounts ==
  ASSUME TypeOK, Control, Accounts, pc \in {"swap", "syncRead", "closeRead"},
         UNCHANGED <<pending, aged, snap, tx, wallet, cash>>,
         done \subseteq done', \A p \in pending : Dismissed(p)' => Dismissed(p),
         pc' = "swap" => job'.intent = "Open",
         WalletTracked', realized' + Unrealized' = realized + Unrealized
  PROVE  Accounts'
<1>1. NothingUnseen
  BY HandlerSees DEF Accounts
<1>2. /\ \A p \in pending : Live(p)' => Live(p)
      /\ \A p \in pending : ~Unseen(p)'
  BY <1>1 DEF Live, Unseen, NothingUnseen, Landed
<1>3. NothingUnseen'
  BY <1>2 DEF NothingUnseen
<1>4. LedgerInv'
  <2>1. AsAsked' /\ NothingLate' /\ ReadIsTrue'
    BY SameReads DEF Accounts, LedgerInv, AsAsked, Landed
  <2>2. \A s : Fate(s) => Fate(s)'
    BY DEF Fate
  <2> QED
    BY <2>1, <2>2 DEF Accounts, LedgerInv
<1>5. TokensInv'
  <2>1. SellsAll'
    BY <1>2 DEF Accounts, TokensInv, SellsAll, Landed
  <2> QED
    BY <1>2, <1>3, <2>1 DEF TokensInv
<1>6. MoneyInv'
  <2>1. FeesPaid' = FeesPaid
    BY DEF FeesPaid, Spent
  <2>2. cash + FeesPaid = realized + Unrealized
    BY <1>1 DEF Accounts, MoneyInv
  <2> QED
    BY <1>2, <2>1, <2>2 DEF MoneyInv
<1> QED
  BY <1>4, <1>5, <1>6 DEF Accounts

\* The sync keeps what the position earned: it books it where the wallet is
\* found empty, and changes at most the size where it is not.
LEMMA SyncReadAccounts ==
  ASSUME TypeOK, Control, Accounts, Undisturbed, SyncRead
  PROVE  Accounts'
<1>1. /\ pc = "syncRead"
      /\ UNCHANGED <<pending, aged, snap, tx, wallet, cash, assetUnit>>
  BY DEF SyncRead, chainVars
<1>2. WalletTracked
  BY <1>1, HandlerSees DEF Accounts, TokensInv
<1>3. PICK balance \in BalanceReads :
        \/ /\ balance = None
           /\ IF GivesUp(position # None) THEN EmitOpenFailed ELSE Silent
           /\ AfterSync(position # None)
        \/ /\ balance # None /\ balance <= MIN_ASSET_DUST_RAW
           /\ Finalize(position, <<>>,
                       IF GivesUp(FALSE) THEN OpenFailed ELSE <<>>)
           /\ AfterSync(FALSE)
        \/ /\ balance # None /\ balance > MIN_ASSET_DUST_RAW
           /\ Report(Resized(balance), <<>>)
           /\ AfterSync(TRUE)
  BY DEF SyncRead
<1>4. balance = None \/ (balance = wallet /\ wallet \in Nat)
  BY BalanceIsWallet DEF TypeOK
<1>5. WalletTracked' /\ realized' + Unrealized' = realized + Unrealized
  <2>1. CASE balance = None
    <3>1. UNCHANGED <<position, realized>>
      BY <1>3, <2>1 DEF EmitOpenFailed, Silent
    <3> QED
      BY <1>1, <1>2, <3>1
      DEF WalletTracked, Holds, SoldOut, Ui, Unrealized, Pnl
  <2>2. CASE balance # None /\ balance <= MIN_ASSET_DUST_RAW
    <3>1. Finalize(position, <<>>, IF GivesUp(FALSE) THEN OpenFailed ELSE <<>>)
      <4>1. ~(balance > MIN_ASSET_DUST_RAW)
        BY <1>4, <2>2 DEF MIN_ASSET_DUST_RAW
      <4> QED
        BY <1>3, <2>2, <4>1, Zenon
    <3>2. wallet = 0 /\ (position # None => position.closeAsset > 0)
      BY <1>2, <1>4, <2>2
      DEF WalletTracked, Holds, SoldOut, MIN_ASSET_DUST_RAW
    <3>3. position' = None /\ realized' = realized + Unrealized
      <4>1. position # None => realized' = realized + Pnl(position)
        BY <3>1, <3>2 DEF Finalize
      <4>2. position = None => realized' = realized
        BY <3>1 DEF Finalize
      <4>3. position' = None /\ realized \in Int
        BY <3>1 DEF Finalize, TypeOK
      <4> QED
        BY <4>1, <4>2, <4>3 DEF Unrealized
    <3>4. Unrealized' = 0 /\ realized' \in Int
      <4>1. position # None => position \in Position
        BY DEF TypeOK
      <4>2. Unrealized \in Int
        BY <4>1 DEF Unrealized, Pnl, Position
      <4> QED
        BY <3>3, <4>2 DEF Unrealized, TypeOK
    <3> QED
      BY <1>1, <3>2, <3>3, <3>4 DEF WalletTracked
  <2>3. CASE balance # None /\ balance > MIN_ASSET_DUST_RAW
    <3>1. position # None /\ position \in Position /\ balance = wallet
      BY <1>2, <1>4, <2>3
      DEF WalletTracked, SoldOut, Holds, MIN_ASSET_DUST_RAW, TypeOK
    <3>2. Report(Resized(balance), <<>>)
      <4>1. ~(balance <= MIN_ASSET_DUST_RAW)
        BY <1>4, <2>3 DEF MIN_ASSET_DUST_RAW
      <4> QED
        BY <1>3, <2>3, <4>1, Zenon
    <3>3. position' = [position EXCEPT !.size = Ui(wallet)] /\ realized' = realized
      BY <3>1, <3>2 DEF Report, Resized
    <3>4. position' # None
      <4>1. position' \in Position
        <5>1. Ui(wallet) \in Nat
          <6>1. Ui(balance) \in Nat
            BY <1>4, <2>3, UiType
          <6> QED
            BY <3>1, <6>1
        <5> QED
          BY <3>1, <3>3, <5>1 DEF Position
      <4> QED
        BY <4>1, NoneIsNoPosition
    <3>5. Holds(wallet)'
      <4>1. position'.size = Ui(wallet) /\ Ui(wallet)' = Ui(wallet)
        BY <1>1, <3>1, <3>3 DEF Position, Ui
      <4> QED
        BY <1>1, <2>3, <3>1, <3>4, <4>1 DEF Holds
    <3>6. Unrealized' = Unrealized
      BY <3>1, <3>3, <3>4 DEF Unrealized, Pnl, Position
    <3> QED
      BY <3>3, <3>5, <3>6 DEF WalletTracked
  <2> QED
    BY <1>3, <2>1, <2>2, <2>3
<1>6. /\ done \subseteq done' /\ (pc' = "swap" => job'.intent = "Open")
      /\ \A p \in pending : Dismissed(p)' => Dismissed(p)
  <2>1. CASE Return
    <3>1. \A p \in pending : p.sig # NoSig
      BY PendingIs
    <3> QED
      BY <2>1, <3>1 DEF Return, Dismissed, NoJob
  <2>2. CASE ~Return
    <3>1. /\ job' = [job EXCEPT !.attempt = @ + 1] /\ UNCHANGED done
          /\ job.intent = "Open"
      BY <1>3, <2>2 DEF AfterSync
    <3>2. job'.parent = job.parent /\ job'.intent = "Open"
      BY <3>1 DEF TypeOK, Job
    <3> QED
      BY <3>1, <3>2 DEF Dismissed
  <2> QED
    BY <2>1, <2>2
<1> QED
  BY <1>1, <1>5, <1>6, HandlerAccounts

LEMMA PollStatusesAccounts ==
  ASSUME TypeOK, Control, Accounts, PollStatuses
  PROVE  Accounts'
<1>1. /\ UNCHANGED <<pending, aged, done, job, tx, wallet, cash, position,
                     realized, assetUnit>>
      /\ pc' # "swap"
  BY DEF PollStatuses, Silent, chainVars
<1>2. NothingLate'
  BY <1>1 DEF Accounts, LedgerInv, NothingLate, Tracked
<1>3. ReadIsTrue'
  <2>1. ASSUME NEW s \in Sigs
        PROVE  /\ snap'[s] = "err" => tx'[s].stage = "failed"
               /\ snap'[s] = "ok" => tx'[s].stage \in {"confirmed", "finalized"}
    <3>1. snap'[s] = IF Tracked(s) THEN Status(s) ELSE "none"
      BY DEF PollStatuses
    <3>2. tx[s].stage \in Stage
      BY DEF TypeOK, Tx
    <3> QED
      BY <1>1, <3>1, <3>2 DEF Status, Stage
  <2> QED
    BY <2>1 DEF ReadIsTrue
<1>4. \A p \in pending : Dismissed(p)' => Dismissed(p)
  BY <1>1 DEF Dismissed
<1> QED
  BY <1>1, <1>2, <1>3, <1>4, UnseenIsLive, QuietAccounts

LEMMA PollSkipAccounts ==
  ASSUME TypeOK, Control, Accounts, NEW p \in todo, PollSkip(p)
  PROVE  Accounts'
<1>1. /\ UNCHANGED <<pending, aged, snap, done, job, pc, tx, wallet, cash,
                     position, realized, assetUnit>>
      /\ pc' # "swap"
  BY DEF PollSkip, Visit, Silent, chainVars
<1>2. \A q \in pending : Dismissed(q)' => Dismissed(q)
  BY <1>1 DEF Dismissed
<1> QED
  BY <1>1, <1>2, SameReads, UnseenIsLive, QuietAccounts

\* A buy that timed out will not land, an error in the status is final.
LEMMA PollFailedAccounts ==
  ASSUME TypeOK, Control, Accounts, NEW p \in todo, PollFailed(p)
  PROVE  Accounts'
<1>1. /\ UNCHANGED <<pending, aged, snap, done, tx, wallet, cash, position,
                     realized, assetUnit>>
      /\ pc' # "swap" /\ job'.parent = p.sig
  BY DEF PollFailed, Visit, Reconcile, Silent, chainVars
<1>2. p \in pending /\ p.sig \in Sigs
  BY PendingIs DEF TypeOK
<1>3. Fate(p.sig)
  <2>1. CASE TimedOut(p)
    BY <1>2, <2>1 DEF TimedOut, Accounts, LedgerInv, NothingLate, Fate
  <2>2. CASE snap[p.sig] = "err"
    BY <1>2, <2>2 DEF Accounts, LedgerInv, ReadIsTrue, Fate
  <2> QED
    BY <2>1, <2>2 DEF PollFailed
<1>4. \A q \in pending : Dismissed(q)' => Dismissed(q) \/ Fate(q.sig)
  BY <1>1, <1>3 DEF Dismissed
<1> QED
  BY <1>1, <1>4, SameReads, UnseenIsLive, QuietAccounts

LEMMA AgeAccounts ==
  ASSUME TypeOK, Control, Accounts, Undisturbed, NEW s \in Sigs, Age(s)
  PROVE  Accounts'
<1>1. /\ UNCHANGED <<pending, snap, done, job, pc, tx, wallet, cash, position,
                     realized, assetUnit>>
      /\ aged' = aged \cup {s} /\ tx[s].stage \in {"sent", "failed", "dropped"}
  BY DEF Age, chainVars, Undisturbed
<1>2. NothingLate'
  BY <1>1 DEF Accounts, LedgerInv, NothingLate, Tracked
<1>3. ReadIsTrue'
  BY <1>1 DEF Accounts, LedgerInv, ReadIsTrue
<1>4. \A p \in pending : Dismissed(p)' => Dismissed(p)
  BY <1>1 DEF Dismissed
<1>5. pc' = "swap" /\ job'.intent = "Close"
           => job'.amount = wallet /\ wallet > 0
  BY <1>1 DEF Accounts, TokensInv, SellsAll
<1> QED
  BY <1>1, <1>2, <1>3, <1>4, <1>5, UnseenIsLive, QuietAccounts

\* What poll_pending removes was seen.
LEMMA PollEndAccounts ==
  ASSUME TypeOK, Control, Accounts, PollEnd
  PROVE  Accounts'
<1>1. /\ pending' = {p \in pending : p.sig \notin done} /\ done' = {}
      /\ aged' \subseteq aged
      /\ snap' = [s \in Sigs |-> "none"] /\ pc' = "loop"
      /\ UNCHANGED <<job, tx, wallet, cash, position, realized, assetUnit>>
  BY DEF PollEnd, Silent, chainVars
<1>2. job.parent = NoSig
  BY DEF PollEnd, Control, PhaseInv, NoJob
<1>3. \A p : Live(p)' <=> Live(p)
  BY <1>1 DEF Live
<1>4. LedgerInv'
  <2>1. AsAsked'
    BY <1>1 DEF Accounts, LedgerInv, AsAsked, Landed
  <2>2. NothingLate'
    <3>1. ASSUME NEW s \in Sigs, tx[s].stage = "processed" PROVE Tracked(s)'
      <4>1. PICK p \in pending : p.sig = s
        BY <3>1 DEF Accounts, LedgerInv, NothingLate, Tracked
      <4>2. p.sig \notin done
        BY <3>1, <4>1 DEF Accounts, LedgerInv, Dismissed, Fate
      <4> QED
        BY <1>1, <4>1, <4>2 DEF Tracked
    <3> QED
      BY <1>1, <3>1 DEF Accounts, LedgerInv, NothingLate
  <2>3. ReadIsTrue'
    BY <1>1 DEF ReadIsTrue
  <2>4. \A p \in pending' : ~Dismissed(p)'
    <3>1. \A p \in pending : p.sig # NoSig
      BY PendingIs
    <3> QED
      BY <1>1, <1>2, <3>1 DEF Dismissed
  <2> QED
    BY <2>1, <2>2, <2>3, <2>4 DEF LedgerInv
<1>5. \A p : Unseen(p)' <=> Unseen(p)
  BY <1>1, <1>3 DEF Unseen, Landed
<1>6. NothingUnseen' <=> NothingUnseen
  BY <1>1, <1>5 DEF NothingUnseen, Unseen, Live
<1>7. TokensInv'
  <2>1. SellsAll'
    BY <1>1, <1>3 DEF Accounts, TokensInv, SellsAll, Landed
  <2> QED
    BY <1>1, <1>5, <1>6, <2>1
    DEF Accounts, TokensInv, WalletTracked, Holds, SoldOut, Ui
<1>8. MoneyInv'
  <2>1. FeesPaid' = FeesPaid /\ Unrealized' = Unrealized
        /\ \A s : Gain(s)' = Gain(s)
    BY <1>1 DEF FeesPaid, Unrealized, Gain, Spent, Pnl
  <2> QED
    BY <1>1, <1>5, <1>6, <2>1 DEF Accounts, MoneyInv
<1> QED
  BY <1>4, <1>7, <1>8 DEF Accounts

\* The swap a fill is read of is the one live swap, it has landed, and with
\* the fill nothing is left to be seen.
LEMMA FilledSees ==
  ASSUME TypeOK, Control, Accounts, NEW p \in todo, Filled(p), tx' = tx
  PROVE  /\ p \in pending /\ Live(p) /\ Unseen(p)
         /\ LedgerInv' /\ NothingUnseen' /\ SellsAll'
         /\ \A q \in pending' : ~Unseen(q)'
<1>1. /\ UNCHANGED <<pending, aged, snap, job, pc>>
      /\ done' = done \cup {p.sig} /\ pc = "poll" /\ snap[p.sig] = "ok"
  BY DEF Filled, Visit
<1>2. p \in pending /\ p.sig \in Sigs /\ AtMostOne /\ done = {}
  BY <1>1, PendingIs DEF TypeOK, Control, PhaseInv
<1>3. tx[p.sig].stage \in {"confirmed", "finalized"}
  BY <1>1, <1>2 DEF Accounts, LedgerInv, ReadIsTrue
<1>4. Live(p) /\ Unseen(p)
  BY <1>2, <1>3 DEF Live, Unseen, Landed, Executed
<1>5. \A q \in pending' : ~Live(q)'
  BY <1>1, <1>2 DEF Live, AtMostOne
<1>6. \A q \in pending' : ~Unseen(q)'
  BY <1>5 DEF Unseen
<1>7. NothingUnseen' /\ SellsAll'
  BY <1>1, <1>5, <1>6 DEF NothingUnseen, SellsAll
<1>8. LedgerInv'
  <2>1. AsAsked' /\ NothingLate' /\ ReadIsTrue'
    BY <1>1 DEF Accounts, LedgerInv, AsAsked, NothingLate, ReadIsTrue, Landed,
                Tracked
  <2>2. \A q \in pending' : Dismissed(q)' => Fate(q.sig)'
    BY <1>1, <1>2, <1>3 DEF Fate, AtMostOne
  <2> QED
    BY <2>1, <2>2 DEF LedgerInv
<1> QED
  BY <1>2, <1>4, <1>6, <1>7, <1>8

\* What is read of a fill, where no fallback guesses it.
LEMMA FillIsRead ==
  ASSUME Undisturbed, NEW p, NEW f \in FillAmounts(p)
  PROVE  f = IF p.intent = "Open"
             THEN [asset |-> tx[p.sig].out, size |-> tx[p.sig].out,
                   base |-> p.amount, fee |-> BuyFee]
             ELSE [asset |-> p.amount, size |-> p.amount,
                   base |-> Abs(tx[p.sig].out - TxFee), fee |-> TxFee]
BY DEF FillAmounts, Undisturbed

\* The swap that is seen landed as it was asked for.
LEMMA LandedAsAsked ==
  ASSUME TypeOK, Accounts, NEW p \in pending, Unseen(p)
  PROVE  /\ tx[p.sig].intent = p.intent /\ tx[p.sig].amount = p.amount
         /\ tx[p.sig].out \in Fills[p.intent] /\ tx[p.sig].out \in Nat
         /\ p.amount \in Nat
<1>1. p.sig \in Sigs /\ p.amount \in Nat /\ Landed(p.sig)
  BY PendingIs DEF Unseen
<1> QED
  BY <1>1 DEF Accounts, LedgerInv, AsAsked, TypeOK, Tx

LEMMA OpenFillAccounts ==
  ASSUME TypeOK, Control, Accounts, Undisturbed, NEW p \in todo,
         PollOpenFill(p)
  PROVE  Accounts'
<1>1. /\ p.intent = "Open" /\ Filled(p)
      /\ UNCHANGED <<tx, wallet, cash>>
  BY DEF PollOpenFill, Filled, Visit, chainVars
<1>2. /\ p \in pending /\ Live(p) /\ Unseen(p)
      /\ LedgerInv' /\ NothingUnseen' /\ SellsAll'
      /\ \A q \in pending' : ~Unseen(q)'
  BY <1>1, FilledSees
<1>3. position = None
  BY <1>1, <1>2 DEF Control, SwapFitsPosition
<1> DEFINE out == tx[p.sig].out
<1>4. /\ tx[p.sig].intent = "Open" /\ tx[p.sig].amount = p.amount
      /\ out \in Fills["Open"] /\ out \in Nat /\ p.amount \in Nat
  BY <1>1, <1>2, LandedAsAsked
<1>5. /\ position' = [size |-> out, openBase |-> p.amount, closeAsset |-> 0,
                      closeGross |-> 0, fees |-> 0]
      /\ UNCHANGED realized
  <2>1. PICK f \in FillAmounts(p) : Report(OpenFilled(f), <<"SwapFill">>)
    BY DEF PollOpenFill
  <2>2. f.size = out /\ f.base = p.amount
    BY <1>1, FillIsRead
  <2> QED
    BY <1>3, <2>1, <2>2 DEF Report, OpenFilled
<1>6. position' # None
  <2>1. position' \in Position
    BY <1>4, <1>5 DEF Position
  <2> QED
    BY <2>1, NoneIsNoPosition
<1>7. TokensInv'
  <2>1. position'.size = out /\ out > MIN_ASSET_DUST_RAW
    BY <1>4, <1>5 DEF Undisturbed
  <2>2. wallet = out
    BY <1>1, <1>2 DEF Accounts, TokensInv
  <2>3. WalletTracked'
    BY <1>1, <1>6, <2>1, <2>2 DEF WalletTracked, Holds
  <2> QED
    BY <1>1, <1>2, <2>3 DEF TokensInv
<1>8. MoneyInv'
  <2>1. cash + FeesPaid = realized + 0 + (0 - p.amount)
    BY <1>2, <1>3, <1>4 DEF Accounts, MoneyInv, Unrealized, Gain
  <2>2. FeesPaid' = FeesPaid
    BY <1>1 DEF FeesPaid, Spent
  <2>3. Unrealized' = 0 - p.amount
    BY <1>4, <1>5, <1>6 DEF Unrealized, Pnl
  <2>4. cash' + FeesPaid' = realized' + Unrealized'
    BY <1>1, <1>4, <1>5, <2>1, <2>2, <2>3 DEF TypeOK
  <2> QED
    BY <1>2, <2>4 DEF MoneyInv
<1> QED
  BY <1>2, <1>7, <1>8 DEF Accounts

\* A sell of all there is leaves nothing, and the position is finalized; but a
\* size in the executor's own decimals may seem to leave some, and is kept.
LEMMA CloseFillAccounts ==
  ASSUME TypeOK, Control, Accounts, Undisturbed, NEW p \in todo,
         PollCloseFill(p)
  PROVE  Accounts'
<1>1. /\ p.intent = "Close" /\ Filled(p)
      /\ UNCHANGED <<tx, wallet, cash, assetUnit>>
  BY DEF PollCloseFill, Filled, Visit, chainVars
<1>2. /\ p \in pending /\ Live(p) /\ Unseen(p)
      /\ LedgerInv' /\ NothingUnseen' /\ SellsAll'
      /\ \A q \in pending' : ~Unseen(q)'
  BY <1>1, FilledSees
<1>3. position # None /\ position \in Position
  BY <1>1, <1>2 DEF Control, SwapFitsPosition, TypeOK
<1> DEFINE out == tx[p.sig].out
<1>4. /\ tx[p.sig].intent = "Close"
      /\ out \in Fills["Close"] /\ out \in Nat /\ p.amount \in Nat
  BY <1>1, <1>2, LandedAsAsked
<1>5. out >= TxFee /\ TxFee \in Nat
  BY <1>4, ConstantsAssumption DEF Undisturbed
<1>6. /\ wallet = 0 /\ p.amount > 0
      /\ position.size = p.amount \/ assetUnit # Unit
  BY <1>1, <1>2, <1>3, <1>4
  DEF Accounts, TokensInv, Holds, Ui, MIN_ASSET_DUST_RAW
<1>7. PICK f \in FillAmounts(p) : CloseFillOn(f)
  BY <1>1, <1>3 DEF PollCloseFill
<1>8. f.asset = p.amount /\ f.size = p.amount /\ f.base = out - TxFee /\ f.fee = TxFee
  BY <1>1, <1>4, <1>5, FillIsRead DEF Abs
<1>9. PICK c : c = CloseFilled(f)
  OBVIOUS
<1>10. c \in Position /\ c.closeAsset > 0 /\ (c.size = 0 \/ assetUnit # Unit)
       /\ Pnl(c) = Pnl(position) + (out - TxFee) /\ Pnl(position) \in Int
  <2>1. c = [position EXCEPT !.size = Monus(@, p.amount),
                             !.closeAsset = @ + p.amount,
                             !.closeGross = @ + (out - TxFee) + TxFee,
                             !.fees = @ + TxFee]
    BY <1>8, <1>9 DEF CloseFilled
  <2>2. /\ c.size = Monus(position.size, p.amount)
        /\ c.openBase = position.openBase
        /\ c.closeAsset = position.closeAsset + p.amount
        /\ c.closeGross = position.closeGross + (out - TxFee) + TxFee
        /\ c.fees = position.fees + TxFee
    BY <1>3, <2>1 DEF Position
  <2>3. /\ position.openBase \in Nat /\ position.closeAsset \in Nat
        /\ position.closeGross \in Nat /\ position.fees \in Nat
    BY <1>3 DEF Position
  <2>4. c \in Position
    BY <1>3, <1>7, <1>9, CloseFilledType DEF TypeOK
  <2> HIDE DEF out
  <2>5. c.closeAsset > 0 /\ (c.size = 0 \/ assetUnit # Unit)
    BY <1>4, <1>6, <2>2, <2>3 DEF Monus
  <2>6. Pnl(c) = Pnl(position) + (out - TxFee) /\ Pnl(position) \in Int
    BY <1>4, <1>5, <2>2, <2>3 DEF Pnl
  <2> QED
    BY <2>4, <2>5, <2>6
<1>11. \/ position' = None /\ realized' = realized + Pnl(c)
       \/ position' = c /\ c.size > 0 /\ realized' = realized
  <2>1. CASE c.size > 0
    <3>1. Report(c, <<"SwapFill">>)
      <4>1. CloseFilled(f).size > 0
        BY <1>9, <2>1
      <4> QED
        BY <1>7, <1>9, <4>1, Zenon DEF CloseFillOn
    <3> QED
      BY <2>1, <3>1 DEF Report
  <2>2. CASE ~(c.size > 0)
    <3>1. PICK balance \in BalanceReads :
            IF balance # None /\ balance > MIN_ASSET_DUST_RAW
            THEN Report([c EXCEPT !.size = Ui(balance)], <<"SwapFill">>)
            ELSE Finalize(c, <<"SwapFill">>, <<>>)
      <4>1. ~(CloseFilled(f).size > 0)
        BY <1>9, <2>2
      <4> QED
        BY <1>7, <1>9, <4>1, Zenon DEF CloseFillOn
    <3>2. balance = None \/ balance = 0
      BY <1>6, BalanceIsWallet
    <3>3. Finalize(c, <<"SwapFill">>, <<>>)
      BY <3>1, <3>2 DEF MIN_ASSET_DUST_RAW
    <3> QED
      BY <1>10, <3>3, NoneIsNoPosition DEF Finalize
  <2> QED
    BY <2>1, <2>2
<1>12. c # None /\ Pnl(c) \in Int
  <2>1. Pnl(c) \in Int
    BY <1>10 DEF Pnl, Position
  <2> QED
    BY <1>10, <2>1, NoneIsNoPosition
<1>13. TokensInv'
  <2>1. WalletTracked'
    <3>1. CASE position' = None
      BY <1>1, <1>6, <3>1 DEF WalletTracked
    <3>2. CASE position' = c /\ c.size > 0
      BY <1>1, <1>6, <1>10, <1>12, <3>2 DEF WalletTracked, SoldOut
    <3> QED
      BY <1>11, <3>1, <3>2
  <2> QED
    BY <1>2, <2>1 DEF TokensInv
<1>14. realized' + Unrealized' = realized + Pnl(c)
  <2>1. CASE position' = None /\ realized' = realized + Pnl(c)
    BY <1>12, <2>1 DEF Unrealized, TypeOK
  <2>2. CASE position' = c /\ realized' = realized
    <3>1. Unrealized' = Pnl(c)
      BY <1>12, <2>2 DEF Unrealized, Pnl
    <3> QED
      BY <2>2, <3>1
  <2> QED
    BY <1>11, <2>1, <2>2
<1>15. MoneyInv'
  <2>1. cash + FeesPaid = realized + Pnl(position) + (out - TxFee)
    BY <1>2, <1>3, <1>4 DEF Accounts, MoneyInv, Unrealized, Gain
  <2>2. FeesPaid' = FeesPaid
    BY <1>1 DEF FeesPaid, Spent
  <2>3. cash' + FeesPaid' = realized' + Unrealized'
    BY <1>1, <1>4, <1>5, <1>10, <1>14, <2>1, <2>2 DEF TypeOK
  <2> QED
    BY <1>2, <2>3 DEF MoneyInv
<1> QED
  BY <1>2, <1>13, <1>15 DEF Accounts

\* The fees paid, step by step of the ledger.
LEMMA SpentIsFinite ==
  ASSUME NEW i, NEW stages
  PROVE  IsFiniteSet(Spent(i, stages)) /\ Cardinality(Spent(i, stages)) \in Nat
<1>1. IsFiniteSet(Sigs)
  BY ConstantsAssumption, FS_Interval DEF Sigs
<1>2. Spent(i, stages) \subseteq Sigs
  BY DEF Spent
<1>3. IsFiniteSet(Spent(i, stages))
  BY <1>1, <1>2, FS_Subset
<1> QED
  BY <1>3, FS_CardinalityType

\* A transaction that goes from one stage to another.
Moves(s, from, to) ==
  /\ tx[s].stage = from /\ tx' \in [Sigs -> Tx] /\ tx'[s].stage = to
  /\ tx'[s].intent = tx[s].intent /\ tx'[s].amount = tx[s].amount
  /\ \A r \in Sigs \ {s} : tx'[r] = tx[r]

LEMMA SpentSame ==
  ASSUME TypeOK, NEW s \in Sigs, NEW i, NEW stages,
         \A r \in Sigs \ {s} : tx'[r] = tx[r],
         tx[s].stage \notin stages <=> tx'[s].stage \notin stages,
         tx[s].stage \in stages => tx'[s].intent = tx[s].intent
  PROVE  Spent(i, stages)' = Spent(i, stages)
<1>1. ASSUME NEW r \in Sigs
      PROVE  tx'[r].intent = i /\ tx'[r].stage \in stages
               <=> tx[r].intent = i /\ tx[r].stage \in stages
  BY <1>1
<1>2. Spent(i, stages)' = {r \in Sigs : tx'[r].intent = i /\ tx'[r].stage \in stages}
  BY DEF Spent
<1> QED
  BY <1>1, <1>2 DEF Spent

LEMMA SpentMore ==
  ASSUME TypeOK, NEW s \in Sigs, NEW from, NEW to, Moves(s, from, to),
         NEW i, tx[s].intent = i, NEW stages, to \in stages, from \notin stages
  PROVE  Spent(i, stages)' = Spent(i, stages) \cup {s} /\ s \notin Spent(i, stages)
<1>1. Spent(i, stages)' = {r \in Sigs : tx'[r].intent = i /\ tx'[r].stage \in stages}
  BY DEF Spent
<1> QED
  BY <1>1 DEF Spent, Moves

\* One more of a set whose members cost c each.
LEMMA CostOfOneMore ==
  ASSUME NEW S, IsFiniteSet(S), NEW s, s \notin S, NEW c \in Nat
  PROVE  c * Cardinality(S \cup {s}) = c * Cardinality(S) + c
<1>1. Cardinality(S \cup {s}) = Cardinality(S) + 1 /\ Cardinality(S) \in Nat
  BY FS_AddElement, FS_CardinalityType
<1>2. \A n \in Nat : c * (n + 1) = c * n + c
  OBVIOUS
<1> QED
  BY <1>1, <1>2

FailedSwaps == Spent("Open", {"failed"}) \cup Spent("Close", {"failed"})

LEMMA FeesAre ==
  ASSUME TypeOK
  PROVE  /\ FeesPaid = BuyFee * Cardinality(Spent("Open", Executed))
                         + TxFee * Cardinality(FailedSwaps)
         /\ BuyFee * Cardinality(Spent("Open", Executed)) \in Nat
         /\ TxFee * Cardinality(FailedSwaps) \in Nat
         /\ IsFiniteSet(Spent("Open", Executed)) /\ IsFiniteSet(FailedSwaps)
<1>1. /\ IsFiniteSet(Spent("Open", Executed)) /\ IsFiniteSet(FailedSwaps)
      /\ Cardinality(Spent("Open", Executed)) \in Nat
      /\ Cardinality(FailedSwaps) \in Nat
  BY SpentIsFinite, FS_Union, FS_CardinalityType DEF FailedSwaps
<1>2. \A m, n \in Nat : m * n \in Nat
  OBVIOUS
<1>3. FeesPaid = BuyFee * Cardinality(Spent("Open", Executed))
                   + TxFee * Cardinality(FailedSwaps)
  BY DEF FeesPaid, FailedSwaps
<1> QED
  BY <1>1, <1>2, <1>3, ConstantsAssumption

\* What the ledger may do to what the executor may conclude of it.
LEMMA LedgerMoves ==
  ASSUME TypeOK, LedgerInv, NEW s \in Sigs, NEW from, NEW to,
         Moves(s, from, to), from \in {"sent", "processed"},
         UNCHANGED <<pending, aged, snap, done, job>>,
         to \in {"processed", "confirmed"} =>
           tx'[s].out \in Fills[tx[s].intent] /\ s \notin aged,
         to = "processed" =>
           Tracked(s) /\ \A p \in pending : p.sig = s => ~Dismissed(p),
         to \in {"processed", "confirmed", "failed", "dropped"},
         from = "processed" => to = "confirmed",
         from = "sent" => to # "confirmed"
  PROVE  LedgerInv'
<1>1. \A r \in Sigs : r # s => tx'[r] = tx[r]
  BY DEF Moves
<1>2. AsAsked'
  <2>1. ASSUME NEW p \in pending
        PROVE  tx'[p.sig].intent = p.intent /\ tx'[p.sig].amount = p.amount
    <3>1. p.sig \in Sigs
      BY PendingIs
    <3> QED
      BY <1>1, <3>1 DEF LedgerInv, AsAsked, Moves
  <2>2. ASSUME NEW r \in Sigs, Landed(r)' PROVE tx'[r].out \in Fills[tx'[r].intent]
    <3>1. CASE r = s
      BY <2>2, <3>1 DEF Moves, Landed, Executed
    <3>2. CASE r # s
      BY <1>1, <2>2, <3>2 DEF LedgerInv, AsAsked, Landed
    <3> QED
      BY <3>1, <3>2
  <2> QED
    BY <2>1, <2>2 DEF AsAsked
<1>3. NothingLate'
  <2>1. ASSUME NEW r \in Sigs, tx'[r].stage = "processed" PROVE Tracked(r)'
    BY <1>1, <2>1 DEF LedgerInv, NothingLate, Tracked, Moves
  <2>2. ASSUME NEW r \in aged PROVE tx'[r].stage \in {"sent", "failed", "dropped"}
    <3>1. r \in Sigs
      BY DEF TypeOK
    <3> QED
      BY <1>1, <3>1 DEF LedgerInv, NothingLate, Moves
  <2> QED
    BY <2>1, <2>2 DEF NothingLate
<1>4. ReadIsTrue'
  BY <1>1 DEF LedgerInv, ReadIsTrue, Moves
<1>5. ASSUME NEW p \in pending', Dismissed(p)' PROVE Fate(p.sig)'
  <2>1. p \in pending /\ Dismissed(p) /\ p.sig \in Sigs /\ Fate(p.sig)
    BY <1>5, PendingIs DEF Dismissed, LedgerInv
  <2>2. CASE p.sig = s
    BY <2>1, <2>2 DEF Fate, Moves
  <2>3. CASE p.sig # s
    BY <1>1, <2>1, <2>3 DEF Fate
  <2> QED
    BY <2>2, <2>3
<1> QED
  BY <1>2, <1>3, <1>4, <1>5 DEF LedgerInv

\* A stage that changes neither what executed nor what was paid.
LEMMA MovesUnseen ==
  ASSUME TypeOK, Control, Accounts, NEW s \in Sigs, NEW from, NEW to,
         Moves(s, from, to), from \in Executed <=> to \in Executed,
         tx'[s].out = tx[s].out,
         UNCHANGED <<pending, done, pc, job, wallet, position, realized,
                     assetUnit>>,
         cash' + FeesPaid' = cash + FeesPaid
  PROVE  TokensInv' /\ MoneyInv'
<1>1. /\ \A r \in Sigs : Landed(r)' <=> Landed(r)
      /\ \A r \in Sigs : tx'[r].out = tx[r].out
      /\ \A r \in Sigs : Gain(r)' = Gain(r)
  BY DEF Moves, Landed, Gain
<1>2. \A p \in pending : p.sig \in Sigs
  BY PendingIs
<1>3. /\ \A p \in pending : Live(p)' <=> Live(p)
      /\ \A p \in pending : Unseen(p)' <=> Unseen(p)
  BY <1>1, <1>2 DEF Live, Unseen
<1>4. NothingUnseen' <=> NothingUnseen
  BY <1>3 DEF NothingUnseen
<1>5. SellsAll'
  <2>1. \A p \in pending : Live(p)' /\ p.intent = "Close" /\ ~Landed(p.sig)'
                             => p.amount = wallet /\ wallet > 0
    BY <1>1, <1>2, <1>3 DEF Accounts, TokensInv, SellsAll
  <2> QED
    BY <2>1 DEF Accounts, TokensInv, SellsAll
<1>6. TokensInv'
  BY <1>1, <1>2, <1>3, <1>4, <1>5
  DEF Accounts, TokensInv, WalletTracked, Holds, SoldOut, Ui
<1>7. MoneyInv'
  <2>1. Unrealized' = Unrealized
    BY DEF Unrealized, Pnl
  <2> QED
    BY <1>1, <1>2, <1>3, <1>4, <2>1 DEF Accounts, MoneyInv
<1> QED
  BY <1>6, <1>7

LEMMA FailAccounts ==
  ASSUME TypeOK, TypeOK', Control, Accounts, NEW s \in Sigs, Fail(s)
  PROVE  Accounts'
<1>1. /\ Moves(s, "sent", "failed") /\ tx'[s].out = tx[s].out
      /\ UNCHANGED <<pending, aged, snap, done, pc, job, wallet, position,
                     realized, assetUnit>>
      /\ cash' = cash - TxFee
  BY DEF Fail, Moves, Ledger, TypeOK, Tx
<1>2. LedgerInv'
  BY <1>1, LedgerMoves DEF Accounts
<1>3. FailedSwaps' = FailedSwaps \cup {s} /\ s \notin FailedSwaps
  <2>1. tx[s].intent \in Intent
    BY DEF TypeOK, Tx
  <2>2. CASE tx[s].intent = "Open"
    <3>1. /\ Spent("Open", {"failed"})' = Spent("Open", {"failed"}) \cup {s}
          /\ s \notin Spent("Open", {"failed"})
      BY <1>1, <2>2, SpentMore
    <3>2. Spent("Close", {"failed"})' = Spent("Close", {"failed"})
          /\ s \notin Spent("Close", {"failed"})
      BY <1>1, <2>2 DEF Spent, Moves
    <3> QED
      BY <3>1, <3>2 DEF FailedSwaps
  <2>3. CASE tx[s].intent = "Close"
    <3>1. /\ Spent("Close", {"failed"})' = Spent("Close", {"failed"}) \cup {s}
          /\ s \notin Spent("Close", {"failed"})
      BY <1>1, <2>3, SpentMore
    <3>2. Spent("Open", {"failed"})' = Spent("Open", {"failed"})
          /\ s \notin Spent("Open", {"failed"})
      BY <1>1, <2>3 DEF Spent, Moves
    <3> QED
      BY <3>1, <3>2 DEF FailedSwaps
  <2> QED
    BY <2>1, <2>2, <2>3 DEF Intent
<1>4. Spent("Open", Executed)' = Spent("Open", Executed)
  BY <1>1, SpentSame DEF Executed, Moves
<1>5. cash' + FeesPaid' = cash + FeesPaid
  <2>1. TxFee * Cardinality(FailedSwaps \cup {s})
          = TxFee * Cardinality(FailedSwaps) + TxFee
    BY <1>3, FeesAre, CostOfOneMore, ConstantsAssumption
  <2>2. FeesPaid' = BuyFee * Cardinality(Spent("Open", Executed)')
                      + TxFee * Cardinality(FailedSwaps')
    BY DEF FeesPaid, FailedSwaps
  <2> DEFINE b == BuyFee * Cardinality(Spent("Open", Executed))
             f == TxFee * Cardinality(FailedSwaps)
  <2>3. b \in Nat /\ f \in Nat /\ FeesPaid = b + f /\ FeesPaid' = b + (f + TxFee)
    BY <1>3, <1>4, <2>1, <2>2, FeesAre
  <2> HIDE DEF b, f
  <2> QED
    BY <1>1, <2>3, ConstantsAssumption DEF TypeOK
<1>6. TokensInv' /\ MoneyInv'
  BY <1>1, <1>5, MovesUnseen DEF Executed
<1> QED
  BY <1>2, <1>6 DEF Accounts

\* Where the fees paid stay.
LEMMA SameFees ==
  ASSUME TypeOK, NEW s \in Sigs, NEW from, NEW to, Moves(s, from, to),
         from \in Executed <=> to \in Executed,
         from # "failed", to # "failed"
  PROVE  FeesPaid' = FeesPaid
<1>1. Spent("Open", Executed)' = Spent("Open", Executed)
  BY SpentSame DEF Moves
<1>2. Spent("Open", {"failed"})' = Spent("Open", {"failed"})
  BY SpentSame DEF Moves
<1>3. Spent("Close", {"failed"})' = Spent("Close", {"failed"})
  BY SpentSame DEF Moves
<1> QED
  BY <1>1, <1>2, <1>3 DEF FeesPaid

LEMMA DropAccounts ==
  ASSUME TypeOK, TypeOK', Control, Accounts, NEW s \in Sigs, Drop(s)
  PROVE  Accounts'
<1>1. /\ Moves(s, "sent", "dropped") /\ tx'[s].out = tx[s].out
      /\ UNCHANGED <<pending, aged, snap, done, pc, job, wallet, position,
                     realized, assetUnit, cash>>
  BY DEF Drop, Moves, Ledger, TypeOK, Tx
<1>2. LedgerInv'
  BY <1>1, LedgerMoves DEF Accounts
<1>3. FeesPaid' = FeesPaid
  BY <1>1, SameFees DEF Executed
<1> QED
  BY <1>1, <1>2, <1>3, MovesUnseen DEF Accounts, Executed

LEMMA ConfirmAccounts ==
  ASSUME TypeOK, TypeOK', Control, Accounts, NEW s \in Sigs, Confirm(s)
  PROVE  Accounts'
<1>1. /\ Moves(s, "processed", "confirmed") /\ tx'[s].out = tx[s].out
      /\ UNCHANGED <<pending, aged, snap, done, pc, job, wallet, position,
                     realized, assetUnit, cash>>
  BY DEF Confirm, Moves, Ledger, TypeOK, Tx
<1>2. tx[s].out \in Fills[tx[s].intent] /\ s \notin aged
  BY <1>1 DEF Accounts, LedgerInv, AsAsked, NothingLate, Landed, Executed, Moves
<1>3. LedgerInv'
  BY <1>1, <1>2, LedgerMoves DEF Accounts
<1>4. FeesPaid' = FeesPaid
  BY <1>1, SameFees DEF Executed
<1> QED
  BY <1>1, <1>3, <1>4, MovesUnseen DEF Accounts, Executed

\* Only the live swap can land, and nothing else is to be seen then.
LEMMA LandsAlone ==
  ASSUME TypeOK, Control, Accounts, NEW s \in Sigs,
         tx[s].stage = "sent", Tracked(s), s \notin aged
  PROVE  \E p \in pending :
           /\ p.sig = s /\ Live(p) /\ \A q \in pending : Live(q) => q = p
           /\ \A q \in pending : q.sig = s => q = p /\ ~Dismissed(q)
           /\ NothingUnseen /\ pc # "swap"
<1>1. PICK p \in pending : p.sig = s
  BY DEF Tracked
<1>2. \A q \in pending : q.sig = s => q = p
  BY <1>1 DEF Control, SigsUsed
<1>3. ~Dismissed(p)
  BY <1>1 DEF Accounts, LedgerInv, Fate
<1>4. Live(p)
  BY <1>3 DEF Live, Dismissed
<1>5. \A q \in pending : Live(q) => q = p
  BY <1>4, OneLive
<1>6. NothingUnseen
  <2>1. ~Landed(p.sig)
    BY <1>1 DEF Landed, Executed
  <2> QED
    BY <1>5, <2>1 DEF NothingUnseen, Unseen
<1>7. pc # "swap"
  BY <1>1, <1>3 DEF Control, PhaseInv, Reconciling, Dismissed
<1> QED
  BY <1>1, <1>2, <1>3, <1>4, <1>5, <1>6, <1>7

LEMMA LandAccounts ==
  ASSUME TypeOK, TypeOK', Control, Accounts, Undisturbed, NEW s \in Sigs,
         Land(s)
  PROVE  Accounts'
<1>1. /\ tx[s].stage = "sent" /\ Tracked(s) /\ s \notin aged
      /\ UNCHANGED <<pending, aged, snap, done, pc, job, position, realized,
                     assetUnit>>
  BY DEF Land, Ledger, Undisturbed
<1>2. PICK out \in Fills[tx[s].intent] :
        /\ tx' = [tx EXCEPT ![s].stage = "processed", ![s].out = out]
        /\ IF tx[s].intent = "Open"
           THEN wallet' = wallet + out /\ cash' = cash - tx[s].amount - BuyFee
           ELSE wallet' = wallet - tx[s].amount /\ cash' = cash + out - TxFee
  BY DEF Land
<1>3. PICK p \in pending :
        /\ p.sig = s /\ Live(p) /\ \A q \in pending : Live(q) => q = p
        /\ \A q \in pending : q.sig = s => q = p /\ ~Dismissed(q)
        /\ NothingUnseen /\ pc # "swap"
  BY <1>1, LandsAlone
<1>4. /\ tx[s].intent = p.intent /\ tx[s].amount = p.amount
      /\ p.intent \in {"Open", "Close"} /\ p.amount \in Nat
  BY <1>3, PendingIs DEF Accounts, LedgerInv, AsAsked
<1>5. Moves(s, "sent", "processed") /\ tx'[s].out = out /\ out \in Nat
  <2>1. out \in Nat
    BY <1>4, ConstantsAssumption DEF Intent
  <2> QED
    BY <1>1, <1>2, <2>1 DEF Moves, TypeOK, Tx
<1>6. LedgerInv'
  BY <1>1, <1>2, <1>3, <1>5, LedgerMoves DEF Accounts
<1>7. /\ Landed(s)' /\ Unseen(p)'
      /\ \A q \in pending : Live(q)' => q = p
      /\ \A q \in pending : Unseen(q)' => q = p
      /\ ~NothingUnseen'
  <2>1. Landed(s)'
    BY <1>5 DEF Landed, Moves, Executed
  <2>2. Unseen(p)'
    BY <1>1, <1>3, <2>1 DEF Unseen, Live
  <2> QED
    BY <1>1, <1>3, <2>1, <2>2 DEF Unseen, Live, NothingUnseen
<1>8. WalletTracked /\ cash + FeesPaid = realized + Unrealized
  BY <1>3 DEF Accounts, TokensInv, MoneyInv
<1>9. SellsAll'
  BY <1>1, <1>3, <1>7 DEF SellsAll
<1>10. ~Landed(s)
  BY <1>1 DEF Landed, Executed
<1>11. /\ Unrealized' = Unrealized /\ FailedSwaps' = FailedSwaps
       /\ Gain(s)' = IF p.intent = "Open" THEN 0 - p.amount ELSE out - TxFee
  <2>1. Unrealized' = Unrealized
    BY <1>1 DEF Unrealized, Pnl
  <2>2. Spent("Open", {"failed"})' = Spent("Open", {"failed"})
    BY <1>5, SpentSame DEF Moves
  <2>3. Spent("Close", {"failed"})' = Spent("Close", {"failed"})
    BY <1>5, SpentSame DEF Moves
  <2>4. Gain(s)' = IF p.intent = "Open" THEN 0 - p.amount ELSE out - TxFee
    BY <1>4, <1>5 DEF Gain, Moves
  <2> QED
    BY <2>1, <2>2, <2>3, <2>4 DEF FailedSwaps
<1>12. /\ FeesPaid' = BuyFee * Cardinality(Spent("Open", Executed)')
                        + TxFee * Cardinality(FailedSwaps)
       /\ Unrealized \in Int
  <2>1. Unrealized \in Int
    <3>1. position # None => position \in Position
      BY DEF TypeOK
    <3> QED
      BY <3>1 DEF Unrealized, Pnl, Position
  <2> QED
    BY <1>11, <2>1 DEF FeesPaid, FailedSwaps
<1> DEFINE b == BuyFee * Cardinality(Spent("Open", Executed))
           f == TxFee * Cardinality(FailedSwaps)
<1>13. b \in Nat /\ f \in Nat /\ FeesPaid = b + f
  BY FeesAre
<1>14. Unrealized \in Int /\ cash \in Int /\ realized \in Int /\ p.amount \in Nat
  BY <1>4, <1>12 DEF TypeOK
<1>15. CASE p.intent = "Open"
  <2>1. position = None /\ wallet = 0
    BY <1>3, <1>8, <1>15
    DEF Control, SwapFitsPosition, WalletTracked, Holds, SoldOut
  <2>2. wallet' = out /\ cash' = cash - p.amount - BuyFee
    BY <1>2, <1>4, <1>5, <1>15, <2>1
  <2>3. TokensInv'
    BY <1>1, <1>3, <1>5, <1>7, <1>9, <1>15, <2>1, <2>2 DEF TokensInv
  <2>4. FeesPaid' = (b + BuyFee) + f
    <3>1. /\ Spent("Open", Executed)' = Spent("Open", Executed) \cup {s}
          /\ s \notin Spent("Open", Executed)
      BY <1>4, <1>5, <1>15, SpentMore DEF Executed
    <3>2. BuyFee * Cardinality(Spent("Open", Executed) \cup {s})
            = BuyFee * Cardinality(Spent("Open", Executed)) + BuyFee
      BY <3>1, FeesAre, CostOfOneMore, ConstantsAssumption
    <3> QED
      BY <1>12, <3>1, <3>2
  <2> HIDE DEF b, f
  <2>5. cash' + FeesPaid' = realized + Unrealized + (0 - p.amount)
    BY <1>8, <1>13, <1>14, <2>2, <2>4, ConstantsAssumption
  <2>6. MoneyInv'
    BY <1>1, <1>3, <1>7, <1>11, <1>15, <2>5 DEF MoneyInv
  <2> QED
    BY <1>6, <2>3, <2>6 DEF Accounts
<1>16. CASE p.intent = "Close"
  <2>1. position # None /\ p.amount = wallet /\ Holds(p.amount)
    <3>1. position # None /\ p.amount = wallet /\ wallet > 0
      BY <1>3, <1>10, <1>16
      DEF Control, SwapFitsPosition, Accounts, TokensInv, SellsAll
    <3>2. Holds(wallet)
      BY <1>8, <3>1 DEF WalletTracked, SoldOut
    <3> QED
      BY <3>1, <3>2
  <2>2. wallet' = 0 /\ cash' = cash + out - TxFee
    BY <1>2, <1>4, <1>16, <2>1
  <2>3. TokensInv'
    <3>1. Holds(p.amount)'
      BY <1>1, <2>1 DEF Holds, Ui
    <3> QED
      BY <1>1, <1>3, <1>7, <1>9, <1>16, <2>2, <3>1 DEF TokensInv
  <2>4. FeesPaid' = b + f
    <3>1. Spent("Open", Executed)' = Spent("Open", Executed)
      BY <1>1, <1>4, <1>5, <1>16 DEF Spent, Moves, Executed
    <3> QED
      BY <1>12, <3>1
  <2> HIDE DEF b, f
  <2>5. cash' + FeesPaid' = realized + Unrealized + (out - TxFee)
    BY <1>5, <1>8, <1>13, <1>14, <2>2, <2>4, ConstantsAssumption
  <2>6. MoneyInv'
    BY <1>1, <1>3, <1>7, <1>11, <1>16, <2>5 DEF MoneyInv
  <2> QED
    BY <1>6, <2>3, <2>6 DEF Accounts
<1> QED
  BY <1>4, <1>15, <1>16

\* The transaction signed next is new to everything the executor holds.
LEMMA FreshIsNew ==
  ASSUME TypeOK, Control, Accounts, NEW s \in Sigs, Fresh(s)
  PROVE  /\ tx[s].stage = "unused" /\ s \notin aged
         /\ snap[s] \notin {"err", "ok"}
         /\ \A p \in pending : p.sig # s
<1>1. tx[s].stage = "unused"
  BY DEF Fresh, Sigs
<1> QED
  BY <1>1 DEF Control, SigsUsed, Accounts, LedgerInv, NothingLate, ReadIsTrue

LEMMA SwapSentAccounts ==
  ASSUME TypeOK, TypeOK', Control, Accounts, NEW s \in Sigs, SwapSent(s)
  PROVE  Accounts'
<1> DEFINE new == [sig |-> s, intent |-> job.intent, amount |-> job.amount,
                   expected |-> Quote[job.intent], attempt |-> job.attempt]
<1>1. /\ pc = "swap" /\ Fresh(s) /\ Return
      /\ pending' = pending \cup {new}
      /\ UNCHANGED <<aged, snap, wallet, cash, position, realized, assetUnit>>
  BY DEF SwapSent, Send, Silent
<1>2. /\ tx'[s].stage = "sent" /\ tx'[s].intent = job.intent
      /\ tx'[s].amount = job.amount
      /\ \A r : r # s => tx'[r] = tx[r]
  BY DEF SwapSent, Send, TypeOK
<1>3. /\ tx[s].stage = "unused" /\ s \notin aged
      /\ snap[s] \notin {"err", "ok"}
      /\ \A p \in pending : p.sig # s
  BY <1>1, FreshIsNew
<1>4. new.sig = s /\ new.intent = job.intent /\ new.amount = job.amount
  OBVIOUS
<1> HIDE DEF new
<1>5. \A r \in Sigs : /\ Landed(r)' <=> Landed(r)
                      /\ Landed(r) => tx'[r] = tx[r]
  BY <1>2, <1>3 DEF Landed, Executed
<1>6. NothingUnseen /\ done = {}
  BY <1>1, HandlerSees DEF Accounts, Control, PhaseInv
<1>7. /\ job'.parent = NoSig /\ pc' # "swap"
      /\ done' = IF job.parent = NoSig THEN {} ELSE {job.parent}
      /\ \A p \in pending : p.sig = job.parent
      /\ job.parent # s
  <2>1. job'.parent = NoSig /\ pc' # "swap"
    BY <1>1 DEF Return, NoJob
  <2>2. done' = IF job.parent = NoSig THEN {} ELSE {job.parent}
    BY <1>1, <1>6 DEF Return
  <2>3. IF job.parent = NoSig THEN pending = {} ELSE Reconciling
    BY <1>1 DEF Control, PhaseInv
  <2>4. s # NoSig
    BY ConstantsAssumption DEF Sigs
  <2> QED
    BY <1>3, <2>1, <2>2, <2>3, <2>4 DEF Reconciling
<1>8. \A p \in pending : ~Live(p)'
  <2>1. \A p \in pending : p.sig # NoSig
    BY PendingIs
  <2> QED
    BY <1>7, <2>1 DEF Live
<1>9. \A p \in pending' : ~Unseen(p)'
  BY <1>1, <1>2, <1>4, <1>8 DEF Unseen, Landed, Executed
<1>10. NothingUnseen'
  BY <1>9 DEF NothingUnseen
<1>11. LedgerInv'
  <2>1. AsAsked'
    <3>1. \A p \in pending' : /\ tx'[p.sig].intent = p.intent
                               /\ tx'[p.sig].amount = p.amount
      BY <1>1, <1>2, <1>3, <1>4 DEF Accounts, LedgerInv, AsAsked
    <3>2. \A r \in Sigs : Landed(r)' => tx'[r].out \in Fills[tx'[r].intent]
      BY <1>5 DEF Accounts, LedgerInv, AsAsked
    <3> QED
      BY <3>1, <3>2 DEF AsAsked
  <2>2. NothingLate'
    BY <1>1, <1>2, <1>3 DEF Accounts, LedgerInv, NothingLate, Tracked
  <2>3. ReadIsTrue'
    BY <1>1, <1>2, <1>3 DEF Accounts, LedgerInv, ReadIsTrue
  <2>4. ASSUME NEW p \in pending', Dismissed(p)' PROVE Fate(p.sig)'
    <3>1. p.sig # NoSig
      BY <1>1, <1>4, PendingIs, ConstantsAssumption DEF Sigs
    <3>2. p.sig = job.parent /\ p.sig # s
      BY <1>7, <2>4, <3>1 DEF Dismissed
    <3>3. p \in pending
      BY <1>1, <1>4, <3>2
    <3>4. Fate(p.sig)
      BY <3>2, <3>3 DEF Dismissed, Accounts, LedgerInv
    <3> QED
      BY <1>1, <1>2, <1>6, <3>2, <3>4 DEF Fate
  <2> QED
    BY <2>1, <2>2, <2>3, <2>4 DEF LedgerInv
<1>12. TokensInv'
  <2>1. SellsAll'
    BY <1>1, <1>4, <1>7, <1>8 DEF Accounts, TokensInv, SellsAll
  <2> QED
    BY <1>1, <1>6, <1>9, <1>10, <2>1
    DEF Accounts, TokensInv, WalletTracked, Holds, SoldOut, Ui
<1>13. MoneyInv'
  <2>1. \A r \in Sigs \ {s} : tx'[r] = tx[r]
    BY <1>2
  <2>2. Spent("Open", Executed)' = Spent("Open", Executed)
    BY <1>2, <1>3, <2>1, SpentSame DEF Executed
  <2>3. Spent("Open", {"failed"})' = Spent("Open", {"failed"})
    BY <1>2, <1>3, <2>1, SpentSame
  <2>4. Spent("Close", {"failed"})' = Spent("Close", {"failed"})
    BY <1>2, <1>3, <2>1, SpentSame
  <2>5. FeesPaid' = FeesPaid /\ Unrealized' = Unrealized
    BY <1>1, <2>2, <2>3, <2>4 DEF FeesPaid, Unrealized, Pnl
  <2> QED
    BY <1>1, <1>6, <1>9, <2>5 DEF Accounts, MoneyInv
<1> QED
  BY <1>11, <1>12, <1>13 DEF Accounts

\* A transaction forwarded without the executor's knowledge is in no list;
\* at rest it has failed or expired.
LEMMA SwapLostAccounts ==
  ASSUME TypeOK, Control, Accounts, NEW s \in Sigs, SwapLost(s)
  PROVE  Accounts'
<1>1. /\ pc = "swap" /\ Fresh(s)
      /\ UNCHANGED <<pending, aged, snap, wallet, cash, position, realized,
                     assetUnit>>
  BY DEF SwapLost, SwapError, Send, EmitOpenFailed, Silent
<1>2. tx'[s].stage = "sent" /\ \A r : r # s => tx'[r] = tx[r]
  BY DEF SwapLost, Send, TypeOK
<1>3. /\ tx[s].stage = "unused" /\ s \notin aged
      /\ snap[s] \notin {"err", "ok"}
      /\ \A p \in pending : p.sig # s
  BY <1>1, FreshIsNew
<1>4. \A r \in Sigs : /\ Landed(r)' <=> Landed(r)
                      /\ Landed(r) => tx'[r] = tx[r]
  BY <1>2, <1>3 DEF Landed, Executed
<1>5. NothingUnseen /\ done = {}
  BY <1>1, HandlerSees DEF Accounts, Control, PhaseInv
<1>6. /\ pc' # "swap" /\ done \subseteq done'
      /\ \A p \in pending : Dismissed(p)' => Dismissed(p)
  <2>1. \A p \in pending : p.sig # NoSig
    BY PendingIs
  <2>2. CASE job.intent = "Open"
    BY <2>1, <2>2 DEF SwapLost, SwapError, Return, Dismissed, NoJob
  <2>3. CASE job.intent # "Open"
    BY <2>3 DEF SwapLost, SwapError, Dismissed
  <2> QED
    BY <2>2, <2>3
<1>7. /\ \A p \in pending : Live(p)' => Live(p) /\ tx'[p.sig] = tx[p.sig]
      /\ \A p \in pending : ~Unseen(p)'
  <2>1. \A p \in pending : p.sig \in Sigs
    BY PendingIs
  <2> QED
    BY <1>1, <1>2, <1>3, <1>5, <1>6, <2>1 DEF Live, Unseen, NothingUnseen, Landed
<1>8. NothingUnseen'
  BY <1>1, <1>7 DEF NothingUnseen
<1>9. LedgerInv'
  <2>1. AsAsked'
    BY <1>1, <1>2, <1>3, <1>4 DEF Accounts, LedgerInv, AsAsked
  <2>2. NothingLate'
    BY <1>1, <1>2, <1>3 DEF Accounts, LedgerInv, NothingLate, Tracked
  <2>3. ReadIsTrue'
    BY <1>1, <1>2, <1>3 DEF Accounts, LedgerInv, ReadIsTrue
  <2>4. ASSUME NEW p \in pending, Dismissed(p)' PROVE Fate(p.sig)'
    BY <1>1, <1>2, <1>3, <1>6, <2>4 DEF Accounts, LedgerInv, Fate
  <2> QED
    BY <1>1, <2>1, <2>2, <2>3, <2>4 DEF LedgerInv
<1>10. TokensInv'
  <2>1. SellsAll'
    BY <1>1, <1>6, <1>7 DEF Accounts, TokensInv, SellsAll, Landed
  <2> QED
    BY <1>1, <1>5, <1>7, <1>8, <2>1
    DEF Accounts, TokensInv, WalletTracked, Holds, SoldOut, Ui
<1>11. MoneyInv'
  <2>1. \A r \in Sigs \ {s} : tx'[r] = tx[r]
    BY <1>2
  <2>2. Spent("Open", Executed)' = Spent("Open", Executed)
    BY <1>2, <1>3, <2>1, SpentSame DEF Executed
  <2>3. Spent("Open", {"failed"})' = Spent("Open", {"failed"})
    BY <1>2, <1>3, <2>1, SpentSame
  <2>4. Spent("Close", {"failed"})' = Spent("Close", {"failed"})
    BY <1>2, <1>3, <2>1, SpentSame
  <2>5. FeesPaid' = FeesPaid /\ Unrealized' = Unrealized
    BY <1>1, <2>2, <2>3, <2>4 DEF FeesPaid, Unrealized, Pnl
  <2> QED
    BY <1>1, <1>5, <1>7, <2>5 DEF Accounts, MoneyInv
<1> QED
  BY <1>9, <1>10, <1>11 DEF Accounts

LEMMA InitAccounts ==
  ASSUME Init, Undisturbed
  PROVE  Accounts
<1>1. /\ pending = {} /\ aged = {} /\ done = {} /\ pc = "loop"
      /\ position = None /\ wallet = 0 /\ cash = 0 /\ realized = 0
  BY DEF Init, Undisturbed
<1>2. \A s \in Sigs : tx[s].stage = "unused" /\ snap[s] = "none"
  BY DEF Init
<1>3. LedgerInv
  BY <1>1, <1>2 DEF LedgerInv, AsAsked, NothingLate, ReadIsTrue, Landed, Executed
<1>4. TokensInv
  BY <1>1 DEF TokensInv, WalletTracked, SellsAll
<1>5. FeesPaid = 0
  <2>1. Spent("Open", Executed) = {} /\ FailedSwaps = {}
    BY <1>2 DEF Spent, FailedSwaps, Executed
  <2>2. BuyFee * 0 + TxFee * 0 = 0
    BY ConstantsAssumption
  <2> QED
    BY <2>1, <2>2, FS_EmptySet DEF FeesPaid, FailedSwaps
<1>6. MoneyInv
  BY <1>1, <1>5 DEF MoneyInv, Unrealized
<1> QED
  BY <1>3, <1>4, <1>6 DEF Accounts

LEMMA NextAccounts ==
  ASSUME Undisturbed, TypeOK, TypeOK', Control, Accounts, [Next]_vars
  PROVE  Accounts'
<1>1. CASE UNCHANGED vars
  <2>1. UNCHANGED <<pending, aged, done, snap, job, pc, tx, wallet, cash,
                    position, realized, assetUnit>>
    BY <1>1 DEF vars, execVars, chainVars
  <2>2. \A p \in pending : Dismissed(p)' => Dismissed(p)
    BY <2>1 DEF Dismissed
  <2>3. pc' = "swap" /\ job'.intent = "Close"
           => job'.amount = wallet /\ wallet > 0
    BY <2>1 DEF Accounts, TokensInv, SellsAll
  <2> QED
    BY <2>1, <2>2, <2>3, SameReads, UnseenIsLive, QuietAccounts
<1>2. CASE PollStep
  <2>1. ASSUME NEW p \in todo, PollFetchTimeout(p) PROVE FALSE
    BY <2>1 DEF PollFetchTimeout, Undisturbed
  <2> QED
    BY <1>2, <2>1, PollFailedAccounts, PollSkipAccounts, OpenFillAccounts,
       CloseFillAccounts, PollEndAccounts DEF PollStep
<1>3. CASE Submit
  BY <1>3, CloseReadAccounts, SwapRefusedAccounts, SwapSentAccounts,
     SwapLostAccounts, SyncReadAccounts DEF Submit
<1>4. CASE Chain
  <2>1. ASSUME NEW s \in Sigs, Settle(s) PROVE FALSE
    BY <2>1 DEF Settle, Undisturbed
  <2> QED
    BY <1>4, <2>1, LandAccounts, FailAccounts, DropAccounts, ConfirmAccounts
    DEF Chain
<1> QED
  BY <1>1, <1>2, <1>3, <1>4, ReceiveAccounts, PollStatusesAccounts, AgeAccounts
  DEF Next

LEMMA AccountsHold == ASSUME Undisturbed PROVE Spec => []Accounts
<1>1. Init => Accounts
  BY InitAccounts
<1>2. TypeOK /\ TypeOK' /\ Control /\ Accounts /\ [Next]_vars => Accounts'
  BY NextAccounts
<1> QED
  BY <1>1, <1>2, TypeCorrect, Controlled, PTL DEF Spec

\* When everything has come to rest, the position is what the wallet holds, at
\* the decimals of the mint or of the executor, and no position means an empty
\* wallet; only where the supply could not be read may a position be left of
\* tokens that are sold.
THEOREM HoldingsAreTracked ==
  ASSUME Undisturbed
  PROVE  Spec => []HoldingsTracked
<1>1. Accounts => HoldingsTracked
  <2> SUFFICES ASSUME Accounts, AtRest PROVE HoldingsTracked
    BY DEF HoldingsTracked
  <2>1. WalletTracked
    BY DEF AtRest, NothingUnseen, Accounts, TokensInv
  <2> QED
    BY <2>1
    DEF WalletTracked, Holds, SoldOut, HoldingsTracked, MIN_ASSET_DUST_RAW
<1> QED
  BY <1>1, AccountsHold, PTL

\* Flat and at rest, the Trades of the session add up to what the wallet
\* gained, but for the fees of the buys and of the swaps that failed.
THEOREM AccountsAdd ==
  ASSUME Undisturbed
  PROVE  Spec => []RealizedIsCashButFees
<1>1. TypeOK /\ Accounts => RealizedIsCashButFees
  <2> SUFFICES ASSUME TypeOK, Accounts, AtRest, position = None
               PROVE  realized = cash + UnreportedFees
    BY DEF RealizedIsCashButFees
  <2>1. cash + FeesPaid = realized + 0
    BY DEF AtRest, NothingUnseen, Accounts, MoneyInv, Unrealized
  <2>2. Spent("Open", Executed) = Spent("Open", {"confirmed", "finalized"})
    BY DEF AtRest, Spent, Executed
  <2>3. FeesPaid = UnreportedFees
    BY <2>2 DEF FeesPaid, UnreportedFees
  <2> QED
    BY <2>1, <2>3 DEF TypeOK
<1> QED
  BY <1>1, AccountsHold, TypeCorrect, PTL

=============================================================================
