---------------------------- MODULE MCEngineAlone ---------------------------
(***************************************************************************)
(* Small values for EngineAlone: a position of 2 against margins of 1 and  *)
(* 3 leaves nothing or something free, and orders of 0, 1 and 4 are below  *)
(* the minimum, within the margin and beyond it.                           *)
(***************************************************************************)
EXTENDS EngineAlone

AnyIntent ==
  [op : {"Open", "Close"}, arg : {0, 1, 4}]
    \cup [op : {"Flatten", "Disarm", "Abort"}, arg : {0}]
    \cup [op : {"Arm"}, arg : {1, 2}]

AnyAnswer == [k \in Kind |-> AnyIntent]
=============================================================================
