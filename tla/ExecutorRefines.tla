-------------------------- MODULE ExecutorRefines --------------------------
(***************************************************************************)
(* The executor implements the trade cycle: the proof of                   *)
(* Spec => TradeCycleSpec, for every value of the constants.               *)
(***************************************************************************)
EXTENDS ExecutorProofs

\* Where the executor is in its trade cycle, at each point of the code.
LEMMA ModeAtSwap ==
  ASSUME TypeOK, Control, pc = "swap"
  PROVE  Mode = IF job.intent = "Open" THEN "buying" ELSE "holding"
<1>1. CASE job.intent = "Open"
  BY <1>1 DEF Control, SwapFitsPosition, Mode
<1>2. CASE job.intent = "Close"
  <2>1. pending = {} /\ position # None
    BY <1>2 DEF Control, PhaseInv
  <2> QED
    BY <1>2, <2>1 DEF Mode, LiveSwap
<1> QED
  BY <1>1, <1>2 DEF TypeOK, Job, Intent

LEMMA ModeAtSync ==
  ASSUME TypeOK, Control, pc = "syncRead"
  PROVE  Mode = IF job.intent = "Open" THEN "buying"
                ELSE IF job.parent = NoSig THEN "holding" ELSE "selling"
<1>1. CASE job.parent = NoSig
  <2>1. job.intent = "Close" /\ pending = {} /\ position # None
    BY <1>1 DEF Control, PhaseInv
  <2> QED
    BY <1>1, <2>1 DEF Mode, LiveSwap
<1>2. CASE job.parent # NoSig
  <2>1. Reconciling /\ done = {}
    BY <1>2 DEF Control, PhaseInv
  <2>2. PICK p \in pending : Live(p) /\ p.intent = job.intent
    BY <2>1 DEF Reconciling, Live
  <2>3. job.intent = "Open" <=> position = None
    BY <2>2 DEF Control, SwapFitsPosition
  <2>4. job.intent \in Intent
    BY DEF TypeOK, Job
  <2> QED
    BY <1>2, <2>2, <2>3, <2>4 DEF Mode, LiveSwap, Intent
<1> QED
  BY <1>1, <1>2

LEMMA ModeAtVisit ==
  ASSUME TypeOK, Control, NEW p \in todo, Visit(p)
  PROVE  /\ Mode = IF p.intent = "Open" THEN "buying" ELSE "selling"
         /\ pending = {p} /\ pending' = {p} /\ done = {} /\ pc = "poll"
<1>1. pending = {p} /\ pending' = {p} /\ done = {} /\ pc = "poll"
  BY DEF Control, Visit, PhaseInv, AtMostOne, TypeOK
<1>2. Live(p) /\ p.intent \in Intent
  BY <1>1 DEF Live, TypeOK, PendingSwap
<1>3. p.intent = "Open" <=> position = None
  BY <1>1, <1>2 DEF Control, SwapFitsPosition
<1> QED
  BY <1>1, <1>2, <1>3 DEF Mode, LiveSwap, Intent

LEMMA ModeAtLoop ==
  ASSUME TypeOK, Control, pc = "loop", pending = {}
  PROVE  Mode = IF position = None THEN "flat" ELSE "holding"
BY DEF Mode, LiveSwap

\* With no swap left to wait for, the mode is the position.
LEMMA ModeWhenDone ==
  ASSUME pc' # "swap", \A p \in pending' : p.sig \in done'
  PROVE  Mode' = IF position' = None THEN "flat" ELSE "holding"
BY DEF Mode, LiveSwap, Live

LEMMA ModeAfterReturn ==
  ASSUME TypeOK, Control, pc \in {"swap", "syncRead"}, Return,
         pending' = pending
  PROVE  Mode' = IF position' = None THEN "flat" ELSE "holding"
<1>1. pc' # "swap"
  BY DEF Return
<1>2. \A p \in pending : p.sig = job.parent /\ job.parent # NoSig
  BY DEF Control, PhaseInv, Reconciling
<1>3. job.parent # NoSig => job.parent \in done'
  BY DEF Return
<1> QED
  BY <1>1, <1>2, <1>3, ModeWhenDone

\* A step that sends nothing and leaves the cycle where it was.
LEMMA QuietStep ==
  ASSUME Mode' = Mode, emitted' = <<>>, announced' = announced
  PROVE  Cycle!Next
BY DEF Cycle!Next, Cycle!Quiet, Cycle!Step

LEMMA QuietMode ==
  ASSUME UNCHANGED <<pending, position, pc, job, done>>
  PROVE  Mode' = Mode
BY DEF Mode, LiveSwap, Live

LEMMA EnvironmentRefines ==
  ASSUME NEW s \in Sigs,
         Age(s) \/ Land(s) \/ Fail(s) \/ Drop(s) \/ Confirm(s) \/ Settle(s)
  PROVE  Cycle!Next
BY QuietStep, QuietMode
DEF Age, Land, Fail, Drop, Confirm, Settle, Ledger

LEMMA ReceiveRefines ==
  ASSUME TypeOK, Control, Receive
  PROVE  Cycle!Next
<1>1. ASSUME NEW n \in Sizes, RecvOpen(n) PROVE Cycle!Next
  <2>1. Mode = "flat"
    BY <1>1, ModeAtLoop DEF RecvOpen, FlatAndFree
  <2>2. CASE n = 0
    <3>1. Mode' = "flat" /\ announced' = None /\ emitted' = OpenFailed
      BY <1>1, <2>2 DEF RecvOpen, FlatAndFree, EmitOpenFailed, Mode, LiveSwap
    <3> QED
      BY <2>1, <3>1
      DEF Cycle!Next, Cycle!Refuse, Cycle!Step, Cycle!Failed, OpenFailed
  <2>3. CASE n # 0
    <3>1. Mode' = "buying" /\ announced' = announced /\ emitted' = <<>>
      BY <1>1, <2>3 DEF RecvOpen, FlatAndFree, Silent, Mode
    <3> QED
      BY <2>1, <3>1 DEF Cycle!Next, Cycle!Start, Cycle!Step
  <2> QED
    BY <2>2, <2>3
<1>2. ASSUME StartClose PROVE Cycle!Next
  <2>1. Mode' = Mode
    BY <1>2 DEF StartClose, HeldAndFree, Silent, Mode, LiveSwap
  <2> QED
    BY <1>2, <2>1, QuietStep DEF StartClose, Silent
<1>3. ASSUME NEW paused \in BOOLEAN, RecvPause(paused) PROVE Cycle!Next
  <2>1. Mode' = Mode
    BY <1>3, QuietMode DEF RecvPause
  <2> QED
    BY <1>3, <2>1 DEF RecvPause, Cycle!Next, Cycle!Toggle, Cycle!Step
<1>4. CASE ChannelClosed
  BY <1>4, QuietStep, QuietMode DEF ChannelClosed, Silent
<1> QED
  BY <1>1, <1>2, <1>3, <1>4 DEF Receive, RecvClose, RecvForceClose

\* None is not a number, and a Report tells a number.
LEMMA NoneIsNoNumber == None \notin Nat
BY ConstantsAssumption

LEMMA ReportTells ==
  ASSUME NEW p \in Position, NEW before, Report(p, before)
  PROVE  /\ position' # None /\ announced' # None
         /\ emitted' = before \o <<"OpenPosition">>
<1>1. p.size \in Nat
  BY DEF Position
<1> QED
  BY <1>1, NoneIsNoPosition, NoneIsNoNumber DEF Report

\* What a Finalize tells: the position is gone, with or without a Trade.
LEMMA FinalizeTells ==
  ASSUME NEW p, NEW before \in {<<>>, <<"SwapFill">>},
         NEW after \in {<<>>, OpenFailed}, Finalize(p, before, after)
  PROVE  /\ position' = None /\ announced' = None
         /\ \/ emitted' = before \o Cycle!Traded \o after
            \/ emitted' = before \o Cycle!Cleared \o after
BY DEF Finalize, Cycle!Traded, Cycle!Cleared

\* Without a position there is no Trade.
LEMMA NothingTraded ==
  ASSUME NEW before, NEW after, Finalize(None, before, after)
  PROVE  emitted' = before \o Cycle!Cleared \o after
BY DEF Finalize, Cycle!Cleared

\* The concatenations that occur.
LEMMA Concatenations ==
  /\ <<>> \o Cycle!Traded \o <<>> = Cycle!Traded
  /\ <<>> \o Cycle!Cleared \o <<>> = Cycle!Cleared
  /\ <<>> \o Cycle!Cleared \o OpenFailed = Cycle!Cleared \o Cycle!Failed
  /\ <<"SwapFill">> \o Cycle!Traded \o <<>> = Cycle!Fill \o Cycle!Traded
  /\ <<"SwapFill">> \o Cycle!Cleared \o <<>> = Cycle!Fill \o Cycle!Cleared
  /\ <<>> \o <<"OpenPosition">> = Cycle!Opened
  /\ <<"SwapFill">> \o <<"OpenPosition">> = Cycle!Fill \o Cycle!Opened
BY DEF Cycle!Traded, Cycle!Cleared, Cycle!Failed, Cycle!Fill, Cycle!Opened,
       OpenFailed

LEMMA SwapErrorRefines ==
  ASSUME TypeOK, Control, pc = "swap", SwapError
  PROVE  Cycle!Next
<1>1. CASE job.intent = "Open"
  <2>1. Mode = "buying" /\ position = None
    BY <1>1, ModeAtSwap DEF Control, SwapFitsPosition
  <2>2. /\ Return /\ pending' = pending
        /\ position' = position /\ announced' = None /\ emitted' = OpenFailed
    BY <1>1 DEF SwapError, EmitOpenFailed
  <2>3. Mode' = "flat"
    BY <2>1, <2>2, ModeAfterReturn
  <2> QED
    BY <2>1, <2>2, <2>3
    DEF Cycle!Next, Cycle!GiveUp, Cycle!Step, Cycle!Failed, OpenFailed
<1>2. CASE job.intent # "Open"
  <2>1. /\ pc' = "syncRead" /\ pending' = pending /\ done' = done
        /\ Silent
    BY <1>2 DEF SwapError
  <2>2. Mode' = Mode
    BY <1>2, <2>1 DEF Silent, Mode, LiveSwap, Live
  <2> QED
    BY <2>1, <2>2, QuietStep DEF Silent
<1> QED
  BY <1>1, <1>2

LEMMA SwapSentRefines ==
  ASSUME TypeOK, Control, NEW s \in Sigs, SwapSent(s)
  PROVE  Cycle!Next
<1> DEFINE new == [sig |-> s, intent |-> job.intent, amount |-> job.amount,
                   expected |-> Quote[job.intent], attempt |-> job.attempt]
<1>1. /\ pc = "swap" /\ pending' = pending \cup {new} /\ Return /\ Silent
      /\ Send(s)
  BY DEF SwapSent
<1>2. done = {} /\ done' \subseteq {job.parent}
  BY <1>1 DEF Control, PhaseInv, Return
<1>3. s # job.parent
  <2>1. CASE job.parent = NoSig
    BY <2>1 DEF Sigs, NoSig
  <2>2. CASE job.parent # NoSig
    <3>1. PICK p \in pending : p.sig = job.parent /\ p.sig \in Sigs
      BY <1>1, <2>2 DEF Control, PhaseInv, Reconciling, TypeOK, PendingSwap
    <3>2. tx[p.sig].stage # "unused" /\ tx[s].stage = "unused"
      BY <1>1, <3>1 DEF Control, SigsUsed, Send, Fresh, Sigs
    <3> QED
      BY <3>1, <3>2
  <2> QED
    BY <2>1, <2>2
<1>4. new \in pending' /\ new.sig \notin done' /\ new.intent = job.intent
  BY <1>1, <1>2, <1>3
<1>5. pc' # "swap" /\ position' = position /\ announced' = announced
      /\ emitted' = <<>>
  BY <1>1 DEF Return, Silent
<1>6. CASE job.intent = "Open"
  <2>1. Mode = "buying" /\ position = None
    BY <1>1, <1>6, ModeAtSwap DEF Control, SwapFitsPosition
  <2>2. Mode' = "buying"
    BY <1>4, <1>5, <1>6, <2>1 DEF Mode, LiveSwap, Live
  <2> QED
    BY <1>5, <2>1, <2>2, QuietStep
<1>7. CASE job.intent = "Close"
  <2>1. Mode = "holding" /\ position # None
    BY <1>1, <1>7, ModeAtSwap DEF Control, PhaseInv
  <2>2. Mode' = "selling"
    BY <1>4, <1>5, <1>7, <2>1 DEF Mode, LiveSwap, Live
  <2> QED
    BY <1>5, <2>1, <2>2 DEF Cycle!Next, Cycle!Sell, Cycle!Step
<1> QED
  BY <1>6, <1>7 DEF TypeOK, Job, Intent

LEMMA SyncReadRefines ==
  ASSUME TypeOK, Control, SyncRead
  PROVE  Cycle!Next
<1> USE DEF Cycle!Step
<1>1. PICK b \in BalanceReads :
       \/ /\ b = None
          /\ IF GivesUp(position # None) THEN EmitOpenFailed ELSE Silent
          /\ AfterSync(position # None)
       \/ /\ b # None /\ b <= MIN_ASSET_DUST_RAW
          /\ Finalize(position, <<>>,
                      IF GivesUp(FALSE) THEN OpenFailed ELSE <<>>)
          /\ AfterSync(FALSE)
       \/ /\ b # None /\ b > MIN_ASSET_DUST_RAW
          /\ Report(Resized(b), <<>>)
          /\ AfterSync(TRUE)
  BY DEF SyncRead
<1>2. pc = "syncRead" /\ pending' = pending
  BY DEF SyncRead
<1>3. job.intent \in Intent /\ job.attempt \in Nat
  BY DEF TypeOK, Job, OPEN_MAX_ATTEMPTS
<1>4. Mode = IF job.intent = "Open" THEN "buying"
             ELSE IF job.parent = NoSig THEN "holding" ELSE "selling"
  BY <1>2, ModeAtSync
<1>5. job.intent = "Open" <=> position = None
  BY <1>2 DEF Control, PhaseInv, Reconciling, SwapFitsPosition, Live
<1>6. ASSUME NEW held \in BOOLEAN, AfterSync(held),
             job.intent # "Open" \/ held \/ GivesUp(held)
      PROVE  Mode' = IF position' = None THEN "flat" ELSE "holding"
  <2>1. Return
    BY <1>3, <1>6 DEF AfterSync, GivesUp, OPEN_MAX_ATTEMPTS
  <2> QED
    BY <1>2, <2>1, ModeAfterReturn
<1>7. ASSUME NEW held \in BOOLEAN, AfterSync(held), position' = None,
             job.intent = "Open", ~held, ~GivesUp(held)
      PROVE  Mode' = "buying"
  <2>1. pc' = "swap" /\ job'.intent = "Open"
    BY <1>3, <1>7 DEF AfterSync, GivesUp, TypeOK, Job, OPEN_MAX_ATTEMPTS
  <2> QED
    BY <1>7, <2>1 DEF Mode
<1>8. CASE b = None
  <2>1. position' = position /\ AfterSync(position # None)
    BY <1>1, <1>8 DEF EmitOpenFailed, Silent
  <2>2. CASE GivesUp(position # None)
    <3>1. EmitOpenFailed /\ job.intent = "Open"
      BY <1>1, <1>8, <2>2 DEF GivesUp
    <3>2. Mode' = "flat" /\ emitted' = Cycle!Failed /\ announced' = None
      BY <1>5, <1>6, <2>1, <2>2, <3>1
      DEF EmitOpenFailed, OpenFailed, Cycle!Failed
    <3> QED
      BY <1>4, <3>1, <3>2 DEF Cycle!Next, Cycle!GiveUp
  <2>3. CASE ~GivesUp(position # None)
    <3>1. announced' = announced /\ emitted' = <<>>
      BY <1>1, <1>8, <2>3 DEF Silent
    <3>2. CASE job.intent = "Open"
      BY <1>4, <1>5, <1>7, <2>1, <2>3, <3>1, <3>2, QuietStep
    <3>3. CASE job.intent = "Close"
      <4>1. Mode' = "holding" /\ position # None
        BY <1>5, <1>6, <2>1, <3>3
      <4>2. announced # None
        BY <4>1, NoneIsNoNumber DEF Control, AnnouncedIsHeld, View, TypeOK,
                                    Position
      <4> QED
        BY <1>4, <3>1, <3>3, <4>1, <4>2, QuietStep DEF Cycle!Next, Cycle!Keep
    <3> QED
      BY <1>3, <3>2, <3>3 DEF Intent
  <2> QED
    BY <2>2, <2>3
<1>9. CASE b # None /\ b <= MIN_ASSET_DUST_RAW
  <2>1. /\ Finalize(position, <<>>,
                    IF GivesUp(FALSE) THEN OpenFailed ELSE <<>>)
        /\ AfterSync(FALSE) /\ position' = None /\ announced' = None
    <3>1. b \in Nat /\ ~(b > MIN_ASSET_DUST_RAW)
      BY <1>9, BalanceType DEF MIN_ASSET_DUST_RAW
    <3>2. /\ Finalize(position, <<>>,
                      IF GivesUp(FALSE) THEN OpenFailed ELSE <<>>)
          /\ AfterSync(FALSE)
      BY <1>1, <1>9, <3>1
    <3> QED
      BY <3>2 DEF Finalize
  <2>2. CASE job.intent = "Open" /\ GivesUp(FALSE)
    <3>1. Mode' = "flat" /\ emitted' = Cycle!Cleared \o Cycle!Failed
      BY <1>5, <1>6, <2>1, <2>2, NothingTraded, Concatenations
    <3> QED
      BY <1>4, <2>1, <2>2, <3>1 DEF Cycle!Next, Cycle!GiveUp
  <2>3. CASE job.intent = "Open" /\ ~GivesUp(FALSE)
    <3>1. Mode' = "buying" /\ emitted' = Cycle!Cleared
      BY <1>5, <1>7, <2>1, <2>3, NothingTraded, Concatenations
    <3> QED
      BY <1>4, <2>1, <2>3, <3>1 DEF Cycle!Next, Cycle!Miss
  <2>4. CASE job.intent = "Close"
    <3>1. ~GivesUp(FALSE)
      BY <2>4 DEF GivesUp
    <3>2. Mode' = "flat" /\ emitted' \in {Cycle!Traded, Cycle!Cleared}
      BY <1>6, <2>1, <2>4, <3>1, FinalizeTells, Concatenations
    <3> QED
      BY <1>4, <2>1, <2>4, <3>2 DEF Cycle!Next, Cycle!Leave
  <2> QED
    BY <1>3, <2>2, <2>3, <2>4 DEF Intent
<1>10. CASE b # None /\ b > MIN_ASSET_DUST_RAW
  <2>1. /\ Report(Resized(b), <<>>) /\ AfterSync(TRUE)
    <3>1. b \in Nat /\ ~(b <= MIN_ASSET_DUST_RAW)
      BY <1>10, BalanceType DEF MIN_ASSET_DUST_RAW
    <3> QED
      BY <1>1, <1>10, <3>1
  <2>2. b \in Nat
    BY <1>10, BalanceType
  <2>3. Resized(b) \in Position
    BY <2>2, UiType DEF Resized, Position, TypeOK
  <2>4. position' # None /\ announced' # None /\ emitted' = Cycle!Opened
    BY <2>1, <2>3, ReportTells, Concatenations
  <2>5. Mode' = "holding"
    BY <1>6, <2>1, <2>4
  <2> QED
    BY <1>3, <1>4, <2>4, <2>5 DEF Cycle!Next, Cycle!Buy, Cycle!Keep, Intent
<1> QED
  BY <1>1, <1>8, <1>9, <1>10

LEMMA SubmitRefines ==
  ASSUME TypeOK, Control, Submit
  PROVE  Cycle!Next
<1>1. CASE CloseRead
  <2>1. Mode' = Mode
    <3>1. job.intent = "Close" /\ job'.intent = "Close"
      BY <1>1 DEF CloseRead, Control, PhaseInv, TypeOK, Job
    <3> QED
      BY <1>1, <3>1 DEF CloseRead, Silent, Mode, LiveSwap, Live
  <2> QED
    BY <1>1, <2>1, QuietStep DEF CloseRead, Silent
<1>2. CASE SwapRefused
  BY <1>2, SwapErrorRefines DEF SwapRefused, SwapError
<1>3. ASSUME NEW s \in Sigs, SwapLost(s) PROVE Cycle!Next
  BY <1>3, SwapErrorRefines DEF SwapLost, SwapError
<1> QED
  BY <1>1, <1>2, <1>3, SwapSentRefines, SyncReadRefines DEF Submit

LEMMA PollRefines ==
  ASSUME TypeOK, Control, PollStatuses \/ PollStep
  PROVE  Cycle!Next
<1> USE DEF Cycle!Step
<1>1. CASE PollStatuses
  <2>1. Mode' = Mode
    BY <1>1 DEF PollStatuses, Silent, Mode, LiveSwap, Live
  <2> QED
    BY <1>1, <2>1, QuietStep DEF PollStatuses, Silent
<1>2. ASSUME NEW p \in todo, Visit(p), Reconcile(p) PROVE Cycle!Next
  <2>1. Mode' = Mode
    BY <1>2, ModeAtVisit
    DEF Visit, Reconcile, Silent, Mode, LiveSwap, Live
  <2> QED
    BY <1>2, <2>1, QuietStep DEF Reconcile, Silent
<1>3. ASSUME NEW p \in todo, PollFailed(p) PROVE Cycle!Next
  BY <1>2, <1>3 DEF PollFailed
<1>4. ASSUME NEW p \in todo, PollFetchTimeout(p) PROVE Cycle!Next
  BY <1>2, <1>4 DEF PollFetchTimeout
<1>5. ASSUME NEW p \in todo, PollSkip(p) PROVE Cycle!Next
  BY <1>5, QuietStep, QuietMode DEF PollSkip, Visit, Silent
<1>6. ASSUME NEW p \in todo, Filled(p)
      PROVE  Mode' = IF position' = None THEN "flat" ELSE "holding"
  <2>1. /\ pending' = {p} /\ done' = {p.sig} /\ pc' = "poll"
    BY <1>6, ModeAtVisit DEF Filled
  <2> QED
    BY <2>1, ModeWhenDone
<1>7. ASSUME NEW p \in todo, PollOpenFill(p) PROVE Cycle!Next
  <2>1. PICK f \in FillAmounts(p) : Report(OpenFilled(f), <<"SwapFill">>)
    BY <1>7 DEF PollOpenFill
  <2>2. OpenFilled(f) \in Position
    BY OpenFilledType DEF TypeOK
  <2>3. /\ position' # None /\ announced' # None
        /\ emitted' = Cycle!Fill \o Cycle!Opened
    BY <2>1, <2>2, ReportTells, Concatenations
  <2>4. Mode = "buying" /\ Mode' = "holding"
    BY <1>6, <1>7, <2>3, ModeAtVisit DEF PollOpenFill, Filled
  <2> QED
    BY <2>3, <2>4 DEF Cycle!Next, Cycle!Buy
<1>8. ASSUME NEW p \in todo, PollCloseFill(p) PROVE Cycle!Next
  <2>1. Mode = "selling" /\ position # None
    BY <1>8, ModeAtVisit DEF PollCloseFill, Filled, Mode
  <2>2. Mode' = IF position' = None THEN "flat" ELSE "holding"
    BY <1>6, <1>8 DEF PollCloseFill
  <2>3. PICK f \in FillAmounts(p) : CloseFillOn(f)
    BY <1>8, <2>1 DEF PollCloseFill
  <2>4. CloseFilled(f) \in Position
    BY <2>1, CloseFilledType DEF TypeOK
  <2>5. ASSUME NEW q \in Position, Report(q, <<"SwapFill">>)
        PROVE  Cycle!Next
    <3>1. /\ position' # None /\ announced' # None
          /\ emitted' = Cycle!Fill \o Cycle!Opened
      BY <2>5, ReportTells, Concatenations
    <3> QED
      BY <2>1, <2>2, <3>1 DEF Cycle!Next, Cycle!Keep
  <2>6. ASSUME NEW b \in BalanceReads, b # None
        PROVE  [CloseFilled(f) EXCEPT !.size = Ui(b)] \in Position
    BY <2>4, <2>6, BalanceType, UiType DEF Position
  <2>7. CASE Finalize(CloseFilled(f), <<"SwapFill">>, <<>>)
    <3>1. /\ position' = None /\ announced' = None
          /\ emitted' \in {Cycle!Fill \o Cycle!Traded,
                           Cycle!Fill \o Cycle!Cleared}
      BY <2>7, FinalizeTells, Concatenations
    <3> QED
      BY <2>1, <2>2, <3>1 DEF Cycle!Next, Cycle!Leave
  <2> QED
    BY <2>3, <2>4, <2>5, <2>6, <2>7 DEF CloseFillOn
<1>9. CASE PollEnd
  <2>1. \A p \in pending' : Live(p) <=> Live(p)'
    BY <1>9 DEF PollEnd, Live
  <2>2. \A p \in pending : Live(p) => p \in pending'
    BY <1>9 DEF PollEnd, Live
  <2>3. pc # "swap" /\ pc' # "swap" /\ position' = position
    BY <1>9 DEF PollEnd, Silent
  <2>4. Mode' = Mode
    BY <2>1, <2>2, <2>3 DEF Mode, LiveSwap, Live
  <2> QED
    BY <1>9, <2>4, QuietStep DEF PollEnd, Silent
<1> QED
  BY <1>1, <1>3, <1>4, <1>5, <1>7, <1>8, <1>9 DEF PollStep

LEMMA InitRefines ==
  ASSUME Init
  PROVE  Cycle!Init
BY DEF Init, Cycle!Init, Mode, LiveSwap

LEMMA NextRefines ==
  ASSUME TypeOK, Control, [Next]_vars
  PROVE  [Cycle!Next]_(Cycle!vars)
<1>1. CASE UNCHANGED vars
  <2>1. Mode' = Mode
    BY <1>1, QuietMode DEF vars, execVars
  <2> QED
    BY <1>1, <2>1 DEF vars, execVars, Cycle!vars
<1>2. CASE Next
  BY <1>2, ReceiveRefines, SubmitRefines, PollRefines, EnvironmentRefines
  DEF Next, Chain
<1> QED
  BY <1>1, <1>2

\* The executor, whatever the chain and the node do to it, implements the
\* trade cycle its market and its engine rely on.
THEOREM Refines == Spec => TradeCycleSpec
<1>1. TypeOK /\ Control /\ [Next]_vars => [Cycle!Next]_(Cycle!vars)
  BY NextRefines
<1>2. Init => Cycle!Init
  BY InitRefines
<1> QED
  BY <1>1, <1>2, TypeCorrect, Controlled, PTL
  DEF Spec, TradeCycleSpec, Cycle!Spec
=============================================================================
