----------------------------- MODULE MCSession ------------------------------
(***************************************************************************)
(* Instances of Session for TLC; the cfg files give the other constants.   *)
(***************************************************************************)
EXTENDS Session

\* Only the packets of a client that can log in are cut, in the middle.
MCCuts == [c \in Clients |-> IF c \in Impostors THEN {} ELSE {5}]
NoCuts == [c \in Clients |-> {}]
=============================================================================
