----------------------------- MODULE MCExecutor -----------------------------
(***************************************************************************)
(* Small values for Executor: an order spends 8, a buy is quoted 3 tokens  *)
(* and yields 2 or 3, a sell is quoted 12 and yields 7 or 12.              *)
(***************************************************************************)
EXTENDS Executor

MCQuote == [Open |-> 3, Close |-> 12]
MCFills == [Open |-> {2, 3}, Close |-> {7, 12}]
OneFill == [Open |-> {3}, Close |-> {12}]
=============================================================================
