----------------------------- MODULE MCBookSync -----------------------------
(***************************************************************************)
(* Instances of BookSync for TLC: every legal session of LastSeq messages  *)
(* about the keys the cfg files allow.                                     *)
(***************************************************************************)
EXTENDS BookSync
=============================================================================
