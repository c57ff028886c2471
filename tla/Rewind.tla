------------------------------- MODULE Rewind -------------------------------
(***************************************************************************)
(* What a client that joins a running session promises about the messages  *)
(* it has missed, however the network behaves: it works through them in    *)
(* ascending order, passes over none it has not received, and counts as    *)
(* up to date once it has passed the last one, not before.                 *)
(***************************************************************************)
EXTENDS Integers

CONSTANTS LastSeq,  \* messages in the session
          MaxCount  \* messages in one packet

VARIABLES phase,  \* "Initial", "Rewinding" or "Continuous"
          from,   \* the first number that is still missing
          till,   \* the end of the missing numbers, exclusive
          got     \* the numbers received

rewindVars == << phase, from, till, got >>

Init == phase = "Initial" /\ from = 0 /\ till = 0 /\ got = {}

\* A packet begins at seq, and everything before it counts as missing, even if some
\* of it has been received.  This happens once.
Join(seq) ==
    /\ phase = "Initial" /\ seq > 1
    /\ phase' = "Rewinding" /\ from' = 1 /\ till' = seq

\* A packet arrives while numbers are missing; those up to next are in it.
Advance(numbers) ==
    /\ phase = "Rewinding"
    /\ \E next \in from .. till :
           /\ from .. next - 1 \subseteq numbers
           /\ from' = next
           /\ phase' = IF next = till THEN "Continuous" ELSE "Rewinding"
    /\ UNCHANGED till

\* A packet arrives while none is.
Follow == phase # "Rewinding" /\ UNCHANGED << phase, from, till >>

Receive(seq, count) ==
    LET numbers == seq .. seq + count - 1
    IN  /\ got' = got \cup numbers
        /\ Join(seq) \/ Advance(numbers) \/ Follow

Next == \E seq \in 1 .. LastSeq + 1, count \in 0 .. MaxCount : Receive(seq, count)

Spec == Init /\ [][Next]_rewindVars
=============================================================================
