----------------------------- MODULE MCCandles -----------------------------
(***************************************************************************)
(* A minute of two units, of which a live candle closes in the second,     *)
(* estimates off by up to three, so that two minutes may be skipped or     *)
(* come back, and timeframes of one and two minutes.                       *)
(***************************************************************************)
EXTENDS Candles
=============================================================================
