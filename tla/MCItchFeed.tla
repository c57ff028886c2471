----------------------------- MODULE MCItchFeed -----------------------------
(***************************************************************************)
(* Instances of ItchFeed for TLC.  The cfg files give the constants; one   *)
(* book is enough because no operation touches two, and two ids per side   *)
(* give levels shared by two orders; MCOrderbookSide has more prices.      *)
(***************************************************************************)
EXTENDS ItchFeed
=============================================================================
