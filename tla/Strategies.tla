----------------------------- MODULE Strategies -----------------------------
(***************************************************************************)
(* The strategies of src/strats, and what they remember from one candle to *)
(* the next.  An indicator is a comparison that may go either way, and may *)
(* be missing: then the strategy answers nothing.                          *)
(*                                                                         *)
(* An outcome of a call is the intent it answers, or None, what it then    *)
(* remembers, and up: how it found the trend, None if it did not look.     *)
(***************************************************************************)
EXTENDS SignalEngine

CONSTANT Wait     \* candles an arm lasts (9 to 600)

ASSUME WaitAssumption == Wait \in Nat \ {0}

ASSUME NoneAssumption == None \notin BOOLEAN /\ None \notin Intent

VARIABLES
  strat,   \* SignalEngine.strategy; "Any" answers whatever Strategy allows
  prev,    \* prev_fast_above of RsiEmaScalp, prev_rsi_above_sma of SrsiAdxScalp
  long,    \* armed_long of SmaRsiScalpTest
  trend    \* the last trend the strategy found without entering on it

memory == <<strat, prev, long, trend>>

\* Those that only enter and leave, and those that arm first.
Plains    == {"RsiClassic", "ElderTripleScreen"}
Followers == {"RsiEmaScalp", "SrsiAdxScalp"}
Shipped   == Plains \cup Followers \cup {"RsiChopSwing", "SmaRsiScalpTest"}

Outcome == [intent : Intent \cup {None}, prev : BOOLEAN \cup {None},
            long : BOOLEAN, up : BOOLEAN \cup {None}]

Answers(i) == [intent |-> i, prev |-> prev, long |-> long, up |-> None]
Nothing    == Answers(None)

\* An answer after a look at the trend, with what it remembers of it.
Seen(i, up, p) == [Answers(i) EXCEPT !.prev = p, !.up = up]

\* MarginPct, and the RawSize that is a share of the margin at this price.
Enter(percent) == [op |-> "Open", arg |-> (FreeMargin * percent) \div 100]
Arm            == [op |-> "Arm", arg |-> Wait]
Disarm         == [op |-> "Disarm", arg |-> 0]
Flatten        == [op |-> "Flatten", arg |-> 0]

IsArmed == state.kind = "Armed"

-----------------------------------------------------------------------------
\* on_idle

RsiClassicIdle == {Nothing, Answers(Enter(90))}

ElderTripleScreenIdle == {Nothing, Answers(Enter(95))}

RsiChopSwingIdle == {Nothing, Answers(IF IsArmed THEN Enter(90) ELSE Arm)}

\* Mutant: it arms whatever the trend.
RsiEmaScalpIdleArmsUp ==
  {Nothing} \cup
  {IF IsArmed /\ prev # None
   THEN IF ~prev /\ up THEN Seen(Enter(50), up, None) ELSE Seen(None, up, up)
   ELSE IF low THEN Seen(Arm, up, prev) ELSE Seen(None, up, up)
   : up, low \in BOOLEAN}

\* prev is taken: one look while armed spends it, unless it is set again.
RsiEmaScalpIdle ==
  {Nothing} \cup
  {IF IsArmed /\ prev # None
   THEN IF ~prev /\ up THEN Seen(Enter(50), up, None) ELSE Seen(None, up, up)
   ELSE IF low /\ ~up THEN Seen(Arm, up, prev) ELSE Seen(None, up, up)
   : up, low \in BOOLEAN}

\* It looks when a candle of the ADX closes, and keeps prev when it answers.
SrsiAdxScalpIdle ==
  {Nothing} \cup
  {IF IsArmed /\ prev = FALSE /\ up THEN Seen(Enter(95), up, prev)
   ELSE IF ~IsArmed /\ strong /\ ~up THEN Seen(Arm, up, prev)
   ELSE Seen(None, up, up)
   : up, strong \in BOOLEAN}

\* armed_long is reset before the indicator is looked up.
SmaRsiScalpTestIdle ==
  IF ~IsArmed
  THEN {Nothing, [Nothing EXCEPT !.long = FALSE],
        [Answers(Arm) EXCEPT !.long = TRUE]}
  ELSE IF ~long THEN {Nothing, Answers(Disarm)}
  ELSE {Nothing, [Answers(Enter(95)) EXCEPT !.long = FALSE]}

OnIdle == CASE strat = "RsiClassic"        -> RsiClassicIdle
            [] strat = "ElderTripleScreen" -> ElderTripleScreenIdle
            [] strat = "RsiChopSwing"      -> RsiChopSwingIdle
            [] strat = "RsiEmaScalp"       -> RsiEmaScalpIdle
            [] strat = "SrsiAdxScalp"      -> SrsiAdxScalpIdle
            [] strat = "SmaRsiScalpTest"   -> SmaRsiScalpTestIdle

\* on_open: RsiEmaScalp alone remembers the trend if it stays.
OnOpen == {Nothing, Answers(Flatten)}
            \cup (IF strat = "RsiEmaScalp" THEN {Seen(None, up, up) : up \in BOOLEAN} ELSE {})

\* Mutant: RsiEmaScalp aborts a close that has its whole minute left.
OnBusyAtOnce ==
  {Nothing} \cup (IF strat = "RsiEmaScalp" /\ state.kind = "Closing"
                  THEN {Answers([op |-> "Abort", arg |-> 0])} ELSE {})

\* on_busy: RsiEmaScalp would abort a close, but one whose timeout is longer
\* than a minute, and it never is.
OnBusy ==
  {Nothing} \cup (IF strat = "RsiEmaScalp" /\ state.kind = "Closing" /\ MARKET_ORDER_TIMEOUT > 1
                  THEN {Answers([op |-> "Abort", arg |-> 0])} ELSE {})

Outcomes == CASE state.kind \in {"Idle", "Armed"} -> OnIdle
              [] state.kind = "Open"              -> OnOpen
              [] OTHER                            -> OnBusy

-----------------------------------------------------------------------------
Consulted ==
  \E o \in Outcomes :
    /\ prev' = o.prev /\ long' = o.long
    /\ trend' = IF o.up = None \/ (o.intent # None /\ o.intent.op = "Open")
                THEN trend ELSE o.up
    /\ IF o.intent = None THEN StratQuiet ELSE Answer(o.intent)
    /\ UNCHANGED strat

StratTick == \/ strat = "Any" /\ Strat /\ UNCHANGED memory
             \/ strat # "Any" /\ Consulted

\* RsiEmaScalp subtracts the time of the position, which may be later than the
\* candle's: the task panics, where overflow is checked.
StratPanics ==
  /\ strat = "RsiEmaScalp" /\ pc = "tick" /\ state.kind = "Open"
  /\ pc' = "stopped"
  /\ UNCHANGED <<inbox, state, openPos, margin, paused, begun, want, outbox, memory>>

Fresh(s) == strat' = s /\ prev' = None /\ long' = FALSE /\ trend' = None

\* UpdateStrategy brings a strategy that remembers nothing.
StratChanged == RecvUpdateStrategy /\ \E s \in Shipped \cup {"Any"} : Fresh(s)

StratInit == /\ strat \in Shipped \cup {"Any"}
             /\ prev = None /\ long = FALSE /\ trend = None

-----------------------------------------------------------------------------
\* The market relies on what a strategy may answer in each state: none aborts
\* an order or sends one while another is under way, and the plain ones never
\* arm, whatever a change of strategy, a rejected order or a timeout left in
\* its memory.
AnswersAsAssumed ==
  pc = "tick" /\ strat # "Any" =>
    \A o \in Outcomes :
      o.intent # None => /\ o.intent.op \in MayAnswer[state.kind]
                         /\ strat \in Plains => o.intent.op # "Arm"

\* A trend follower enters only on a turn: it saw the trend down, then up,
\* though it neither remembers the look at which it armed nor, in one of the
\* two, any while it held a position.
EntersOnTurn ==
  pc = "tick" /\ strat \in Followers =>
    \A o \in Outcomes :
      o.intent # None /\ o.intent.op = "Open" => trend = FALSE /\ o.up = TRUE
=============================================================================
