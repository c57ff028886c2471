------------------------- MODULE MCMarketDataClient -------------------------
(***************************************************************************)
(* Instances of MarketDataClient for TLC; the cfg files give the           *)
(* constants.                                                              *)
(***************************************************************************)
EXTENDS MarketDataClient
=============================================================================
