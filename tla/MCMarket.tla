------------------------------ MODULE MCMarket ------------------------------
(***************************************************************************)
(* Strategies for Market, as the shipped ones answer: RsiClassic and Elder *)
(* only open and flatten, the others also arm.  None answers while busy:   *)
(* RsiEmaScalp would abort, but only an order that expires in more than a  *)
(* minute, and every order expires in one.                                 *)
(***************************************************************************)
EXTENDS Market

Intents(op, args) == [op : {op}, arg : args]

Plain ==
  [k \in Kind |-> CASE k = "Idle" -> Intents("Open", {1})
                    [] k = "Open" -> Intents("Flatten", {0})
                    [] OTHER -> {}]

EnterOnly ==
  [k \in Kind |-> IF k = "Idle" THEN Intents("Open", {1}) ELSE {}]

Arming ==
  [k \in Kind |-> {i \in Intents("Open", {1}) \cup Intents("Arm", {1})
                          \cup Intents("Disarm", {0}) \cup Intents("Flatten", {0}) :
                     i.op \in MayAnswer[k]}]
=============================================================================
