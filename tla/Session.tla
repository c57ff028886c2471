------------------------------ MODULE Session -------------------------------
(***************************************************************************)
(* The exchange emulator and its clients: TcpServer and TcpClient over the *)
(* Wire between them.                                                      *)
(***************************************************************************)
EXTENDS TcpServer, TcpClient

vars == << wireVars, serverVars, clientVars >>

Init == WireInit /\ ServerInit /\ ClientInit

Network(c) == Arrive(c) \/ Bounce(c) \/ FinArrives(c)

\* What the owners of the server and of the accessors decide to do.
Owner ==
    \/ (start \/ startThrows \/ stop) /\ UNCHANGED clientVars
    \/ \E c \in Clients : (construct(c) \/ login(c) \/ logout(c) \/ kill(c)) /\ UNCHANGED serverVars

\* What goes on by itself.
Server == (ServerThread \/ stopJoined) /\ UNCHANGED clientVars
Client(c) == (ReaderThread(c) \/ joined(c)) /\ UNCHANGED serverVars
Transport(c) == Network(c) /\ UNCHANGED << serverVars, clientVars >>

Next ==
    \/ Owner
    \/ Server
    \/ \E c \in Clients : Client(c) \/ Transport(c)

\* The server's thread runs whenever it can, and the network delivers; nobody has to
\* log in, to log out or to stop, and no client has to read.
Fairness ==
    /\ WF_vars(Server)
    /\ \A c \in Clients : WF_vars(Transport(c))

Spec == Init /\ [][Next]_vars /\ Fairness

----------------------------------------------------------------------------
(* Properties. *)

\* Types of both processes and of the wire.
TypeOK ==
    /\ conn \in [Clients -> ConnStates]
    /\ net \in [Clients -> Seq(Byte)] /\ rcv \in [Clients -> Seq(Byte)] /\ snd \in [Clients -> Seq(Byte)]
    /\ shut \in [Clients -> BOOLEAN] /\ reset \in [Clients -> BOOLEAN]
    /\ listening \in BOOLEAN /\ backlog \in Seq(Clients)
    /\ interest \subseteq Clients /\ ready \subseteq Clients \cup {Listener}
    /\ m_running \in BOOLEAN /\ m_clients \subseteq Clients
    /\ owner \in {"new", "running", "joining", "stopped"}
    /\ pc \in {"none", "test", "wait", "event", "accept", "read", "write", "hangup", "ended", "crashed"}
    /\ fault \in Faults \cup {"none"}
    /\ main \in [Clients -> {"new", "running", "joining", "destroyed", "killed"}]
    /\ reader \in [Clients -> {"none", "read", "process", "ended"}]
    /\ \A c \in Clients : Len(m_buffer[c]) \in 0 .. BufferSize /\ offset[c] \in 0 .. Len(m_buffer[c])

\* Edge-triggered events are reported once: when the server thread waits and nothing
\* is ready, no connection waits to be accepted, and no client has bytes or an end of
\* stream that the server has not read.  The exceptions are connections left behind by
\* an accept that failed, and a client epoll_ctl has refused.
NoLostWakeup ==
    pc = "wait" /\ ready = {} =>
        /\ backlog = << >> \/ fault = "accept"
        /\ \A c \in m_clients :
               \/ rcv[c] = << >> /\ conn[c] \notin {"fin", "rst"}
               \/ fault = "epoll_ctl" /\ c \notin interest

\* However the stream is cut into reads, handleMessage is given whole messages only,
\* and one per login at most.
FramesIntact ==
    \A c \in Clients :
        /\ \A i \in 1 .. Len(handled[c]) : handled[c][i] = LoginAccepted
        /\ Len(handled[c]) <= logins[c]

\* The reader never asks for no bytes, which it would take for the end of the stream.
RoomToRead == \A c \in Clients : reader[c] = "read" => Len(m_buffer[c]) < BufferSize

\* The readers of the clients run whenever they can.  The server has no part in this:
\* it is a premise of the properties below, and not of the specification.
ClientsRead == \A c \in Clients : WF_vars(Client(c))

\* stop() returns, if the clients that are alive go on reading.  Where they do not, only
\* one thing can keep the server thread for ever: TcpClientConnection::write, which goes
\* round as long as the kernel takes no more bytes for a client.  Neither epoll_wait
\* nor the loops around accept and read can.
StopReturns ==
    ClientsRead \/ []<>(pc # "write") => (owner = "joining" ~> owner = "stopped")

\* When the server has stopped, or died, no client is left in a read that cannot
\* return, nor its destructor in join().
NobodyLeftWaiting ==
    ClientsRead =>
        \A c \in Clients : owner = "stopped" /\ main[c] = "joining" ~> main[c] \in {"destroyed", "killed"}

\* A client that logs out is let go: its destructor returns.
LogoutReturns ==
    ClientsRead => \A c \in Clients : main[c] = "joining" ~> main[c] \in {"destroyed", "killed"}
=============================================================================
