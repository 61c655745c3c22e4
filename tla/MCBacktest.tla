----------------------------- MODULE MCBacktest -----------------------------
(***************************************************************************)
(* Backtest on short series of candles.  The rates are in twentieths, so   *)
(* that slippage and fees show on small amounts.                           *)
(***************************************************************************)
EXTENDS Backtest
=============================================================================
