-------------------------------- MODULE Wire --------------------------------
(***************************************************************************)
(* TCP connections and epoll, external to the repository and modelled from *)
(* the calls of lib/network/: what the kernels and the network between a   *)
(* server process and its clients hold.                                    *)
(***************************************************************************)
EXTENDS SoupBinTcp, SequencesExt, FiniteSetsExt

CONSTANTS Clients,     \* client processes; each one connects once
          SendBuffer,  \* bytes the kernel takes for a client that does not read
          Cuts         \* sizes of segments that end before the bytes on their way (bound)

Listener == "listener"

ASSUME WireAssumption ==
    /\ IsFiniteSet(Clients) /\ Listener \notin Clients
    /\ SendBuffer \in Nat \ {0}
    /\ Cuts \in [Clients -> SUBSET (Nat \ {0})]

\* A client that has closed its end is "closing" until the server sees it, and
\* "resetting" if it has also been sent bytes it will not read.
ConnStates == {"none", "refused", "up", "closing", "resetting", "fin", "rst"}

VARIABLES
    conn,       \* the client's end of the connection, as far as the server knows
    net,        \* bytes on their way from a client
    rcv,        \* bytes from a client that the server has not read
    snd,        \* bytes from the server that a client has not read
    shut,       \* has the server's end been closed?
    reset,      \* has the client's kernel been told so by a reset?
    listening,  \* does the server listen?
    backlog,    \* connections not accepted yet
    interest,   \* clients in the epoll interest list
    ready       \* what has become ready and epoll_wait has not reported yet

streamVars == << net, rcv, snd >>
wireVars == << conn, net, rcv, snd, shut, reset, listening, backlog, interest, ready >>

WireInit ==
    /\ conn = [c \in Clients |-> "none"]
    /\ net = [c \in Clients |-> << >>]
    /\ rcv = [c \in Clients |-> << >>]
    /\ snd = [c \in Clients |-> << >>]
    /\ shut = [c \in Clients |-> FALSE]
    /\ reset = [c \in Clients |-> FALSE]
    /\ listening = FALSE
    /\ backlog = << >>
    /\ interest = {}
    /\ ready = {}

\* An edge: something has happened on a connection in the interest list.
Raise(c) == ready' = IF c \in interest THEN ready \cup {c} ELSE ready

Drop(bytes, n) == SubSeq(bytes, n + 1, Len(bytes))

\* Bytes reach the server.
Arrive(c) ==
    /\ net[c] # << >> /\ ~shut[c]
    /\ \E n \in {Len(net[c])} \cup {k \in Cuts[c] : k < Len(net[c])} :
           /\ rcv' = [rcv EXCEPT ![c] = @ \o SubSeq(net[c], 1, n)]
           /\ net' = [net EXCEPT ![c] = Drop(@, n)]
    /\ Raise(c)
    /\ UNCHANGED << conn, snd, shut, reset, listening, backlog, interest >>

\* Bytes reach a closed end and are answered by a reset.
Bounce(c) ==
    /\ net[c] # << >> /\ shut[c]
    /\ net' = [net EXCEPT ![c] = << >>]
    /\ reset' = [reset EXCEPT ![c] = TRUE]
    /\ UNCHANGED << conn, rcv, snd, shut, listening, backlog, interest, ready >>

\* The end of a client's stream reaches the server, behind its bytes.
FinArrives(c) ==
    /\ conn[c] \in {"closing", "resetting"} /\ net[c] = << >>
    /\ conn' = [conn EXCEPT ![c] = IF @ = "closing" THEN "fin" ELSE "rst"]
    /\ Raise(c)
    /\ UNCHANGED << streamVars, shut, reset, listening, backlog, interest >>
=============================================================================
