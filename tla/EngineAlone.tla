----------------------------- MODULE EngineAlone ----------------------------
(***************************************************************************)
(* SignalEngine against any order of its commands, those that nothing in   *)
(* this repository sends included, with any of its strategies or one free  *)
(* to answer anything in any state, a reader of its events and a taker of  *)
(* its orders.                                                             *)
(***************************************************************************)
EXTENDS Strategies

CONSTANT InboxRoom   \* bound: commands waiting in the inbox

ASSUME RoomAssumption == InboxRoom \in Nat

VARIABLES
  seen,    \* the view the last event carried; a reset by UpdateStrategy, which
           \* sends none, counts as told
  asked    \* the order the executor took that nothing has answered yet

tellVars == <<seen, asked>>
vars     == <<engineVars, memory, tellVars>>

Feed(c) ==
  /\ Len(inbox) < InboxRoom
  /\ inbox' = Append(inbox, c)
  /\ UNCHANGED <<state, openPos, margin, paused, pc, begun, want, outbox, memory,
                 tellVars>>

\* The order is asked of the executor, or with a ForceClose no longer.  One to
\* open beside a known position is not: refresh_state takes that position for
\* its answer.
OrderTaken ==
  /\ Forced \/ Sent
  /\ asked' = IF pc = "sending"
                  /\ (want.op = "Close" \/ (want.op = "Open" /\ openPos = None))
               THEN want.op ELSE "none"
  /\ UNCHANGED <<memory, seen>>

\* The commands that answer an order, or that drop it.
Settles(c) ==
  \/ c.type = "Position" /\ (c.arg = None <=> asked = "Close")
  \/ c.type \in {"OpenFailed", "UpdateStrategy", "ExecToggle"}

Answered == inbox' # inbox /\ Settles(Head(inbox))

EventTaken ==
  /\ outbox # <<>>
  /\ seen' = Head(outbox)
  /\ outbox' = Tail(outbox)
  /\ UNCHANGED <<inbox, state, openPos, margin, paused, pc, begun, want, memory,
                 asked>>

Init == EngineInit /\ StratInit /\ seen = "Idle" /\ asked = "none"

TaskStep ==
  /\ \/ EngineHears /\ UNCHANGED <<memory, seen>>
     \/ (StratTick \/ StratPanics) /\ UNCHANGED seen
     \/ StratChanged /\ seen' = "Idle"
  /\ asked' = IF Answered THEN "none" ELSE asked

Next == \/ \E c \in Inputs : Feed(c)
        \/ TaskStep
        \/ OrderTaken
        \/ EventTaken

Spec == Init /\ [][Next]_vars

\* The task runs, its channels are drained, and candles keep coming that are
\* later than the one before.
FairSpec ==
  /\ Spec
  /\ WF_vars(TaskStep)
  /\ WF_vars(OrderTaken)
  /\ WF_vars(EventTaken)
  /\ SF_vars(\E c \in Inputs : c.type = "Price" /\ c.arg # 0 /\ Feed(c))

-----------------------------------------------------------------------------
TypeOK ==
  /\ inbox \in Seq(Command)
  /\ state \in State /\ begun \in State
  /\ openPos \in Positions \cup {None}
  /\ margin \in Margins
  /\ paused \in BOOLEAN
  /\ pc \in {"recv", "forcing", "tick", "sending", "stopped"}
  /\ want \in Order
  /\ outbox \in Seq(Kind)
  /\ seen \in Kind /\ asked \in {"none", "Open", "Close"}
  /\ pc = "tick" /\ strat # "Any" => Outcomes \subseteq Outcome

\* Whatever a strategy answers, and whatever crosses it, one order at a time is
\* asked of the executor: another is sent only after the news of the executor
\* answered the one before, or it was given up with a ForceClose or dropped by
\* a reset.  No refresh, timeout, order or margin in between loses sight of it.
OneOrderAtATime ==
  pc = "sending" /\ want.op \in {"Open", "Close"} => asked = "none"

\* Until the executor takes it an order is one that validate_trade let pass, by
\* what the engine knows now: to open, worth the minimum and within the margin
\* that is left; to close, of a position there is, and of all of it or worth
\* the minimum.  (A close may name more than is held; the executor sells what
\* there is.)  Nothing changes exec_params while the engine is blocked.
OrdersStayCovered ==
  pc = "sending" =>
    CASE want.op = "Open"  -> want.size >= MIN_ORDER_VALUE /\ want.size <= FreeMargin
      [] want.op = "Close" -> /\ openPos # None
                              /\ want.size >= openPos \/ want.size >= MIN_ORDER_VALUE
      [] OTHER -> TRUE

\* Between two commands whoever listens to the events knows the state, whatever
\* led to it: "continue" and the comparison with init_state lose no change.
\* The one change no event tells, UpdateStrategy's reset, is granted by seen.
ViewFollows == pc = "recv" /\ outbox = <<>> => seen = state.kind

\* An arm, an opening and a closing all end: by news of the executor or by
\* the first candle past their expiry.
WaitsEnd ==
  \A k \in {"Armed", "Opening", "Closing"} :
    state.kind = k ~> state.kind # k \/ pc = "stopped"
=============================================================================
