----------------------------- MODULE TradeCycle -----------------------------
(***************************************************************************)
(* What an executor promises to its market and its engine, without the     *)
(* chain: one trade at a time, told in events.  Executor implements it;    *)
(* the modules that compose the executor with others use it in its place.  *)
(***************************************************************************)
EXTENDS Sequences

VARIABLES
  mode,     \* "flat", "buying", "holding" or "selling"
  told,     \* whether the last position event said there is a position
  emitted   \* the events of the last step, oldest first

vars == <<mode, told, emitted>>

Modes == {"flat", "buying", "holding", "selling"}

Opened  == <<"OpenPosition">>
Cleared == <<"NoPosition">>
Traded  == <<"Trade", "NoPosition">>
Failed  == <<"OpenFailed", "NoPosition">>
Fill    == <<"SwapFill">>

Holding == mode \in {"holding", "selling"}

Step(next, events, tells) ==
  /\ mode' = next
  /\ emitted' \in events
  /\ told' = tells

-----------------------------------------------------------------------------
\* An order starts a buy, or is refused at once.
Start  == mode = "flat" /\ Step("buying", {<<>>}, told)
Refuse == mode = "flat" /\ Step("flat", {Failed}, FALSE)

\* A buy fills or turns up in the wallet, misses and is retried, or fails.
Buy    == mode = "buying" /\ Step("holding", {Fill \o Opened, Opened}, TRUE)
Miss   == mode = "buying" /\ Step("buying", {Cleared}, FALSE)
GiveUp == mode = "buying" /\ Step("flat", {Failed, Cleared \o Failed}, FALSE)

\* A sell is submitted.
Sell == mode = "holding" /\ Step("selling", {<<>>}, told)

\* A sell leaves something, or fails; a reading of the wallet resizes.
Keep ==
  \/ mode = "selling" /\ Step("holding", {<<>>, Opened, Fill \o Opened}, TRUE)
  \/ mode = "holding" /\ Step("holding", {Opened}, TRUE)

\* The position is gone: sold, or found missing.
Leave ==
  \/ mode = "selling" /\ Step("flat", {Cleared, Traded, Fill \o Cleared,
                                       Fill \o Traded}, FALSE)
  \/ mode = "holding" /\ Step("flat", {Cleared, Traded}, FALSE)

Toggle == Step(mode, {<<"Paused">>, <<"Resumed">>}, told)
Quiet  == Step(mode, {<<>>}, told)

-----------------------------------------------------------------------------
Init == mode = "flat" /\ told = FALSE /\ emitted = <<>>

Next == \/ Start \/ Refuse \/ Buy \/ Miss \/ GiveUp
        \/ Sell \/ Keep \/ Leave \/ Toggle \/ Quiet

Spec == Init /\ [][Next]_vars

\* A buy does not stay undecided.
FairSpec == Spec /\ WF_vars(Buy \/ GiveUp)
=============================================================================
