-------------------------- MODULE MCOrderbookSide --------------------------
(***************************************************************************)
(* Instances of OrderbookSide for TLC: three orders, so that a new price   *)
(* can fall before, between and behind the levels in use.                  *)
(***************************************************************************)
EXTENDS OrderbookSide

\* int32_t prices: a combination may trade at a negative one.
MCPrices == -1 .. 2
============================================================================
