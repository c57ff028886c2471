--------------------------- MODULE MCTokenCounter ---------------------------
(***************************************************************************)
(* Instances of TokenCounter for TLC: decimal tokens of a few digits.      *)
(***************************************************************************)
EXTENDS TokenCounter
=============================================================================
