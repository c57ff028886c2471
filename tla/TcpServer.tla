----------------------------- MODULE TcpServer ------------------------------
(***************************************************************************)
(* TcpServer (lib/network/tcp_server.cpp) with TcpServerSocket and         *)
(* TcpClientConnection, running the exchange emulator's message handler:   *)
(* the edge-triggered epoll loop of the server thread, and start() and     *)
(* stop() called by another thread.                                        *)
(*                                                                         *)
(* A connection stands for its descriptor.  System calls the loop makes    *)
(* for itself may fail (Faults), one of them once.                         *)
(***************************************************************************)
EXTENDS Wire

CONSTANTS MaxEvents,    \* m_maxEvents
          ReadSize,     \* BUFFER_SIZE of handleClientData
          Faults        \* the system calls of which one may fail

ASSUME ServerAssumption ==
    /\ MaxEvents \in Nat \ {0} /\ ReadSize \in Nat \ {0}
    /\ Faults \subseteq {"accept", "epoll_ctl"}

VARIABLES
    m_running,
    m_clients,  \* the connections in m_clients
    owner,      \* the thread that owns the server: "new", "running", "joining", "stopped"
    pc,         \* where the server thread is
    events,     \* what is left of m_events
    sending,    \* what is left of the buffer being written
    fault       \* the system call that has failed, or "none"

threadVars == << pc, events, sending, fault >>
serverVars == << m_running, m_clients, owner, pc, events, sending, fault >>

ServerInit ==
    /\ m_running = FALSE
    /\ m_clients = {}
    /\ owner = "new"
    /\ pc = "none"
    /\ events = << >>
    /\ sending = << >>
    /\ fault = "none"

----------------------------------------------------------------------------
(* The thread that owns the server. *)

\* TcpServerSocket::TcpServerSocket: the socket is bound and listens.
Listen == listening' = TRUE

\* The socket cannot be created, bound or made to listen: the exception ends main().
startThrows ==
    /\ owner = "new"
    /\ owner' = "stopped"
    /\ UNCHANGED << m_running, m_clients, threadVars, wireVars >>

start ==
    /\ owner = "new"
    /\ Listen
    /\ m_running' = TRUE
    /\ owner' = "running"
    /\ pc' = "test"
    /\ UNCHANGED << m_clients, events, sending, conn, streamVars, shut, reset, backlog, interest, ready, fault >>

stop ==
    /\ owner = "running" /\ m_running
    /\ m_running' = FALSE
    /\ owner' = "joining"
    /\ UNCHANGED << m_clients, threadVars, wireVars >>

\* Closing the listening socket also ends the connections nobody has accepted.
CloseAll ==
    /\ shut' = [c \in Clients |-> shut[c] \/ c \in m_clients \/ c \in Range(backlog)]
    /\ m_clients' = {}
    /\ listening' = FALSE /\ backlog' = << >> /\ interest' = {} /\ ready' = {}
    /\ UNCHANGED << conn, streamVars, reset >>

\* Mutant: only the listening socket is closed.
stopJoinedKeepsClients ==
    /\ owner = "joining" /\ pc = "ended"
    /\ owner' = "stopped"
    /\ listening' = FALSE
    /\ UNCHANGED << m_running, m_clients, threadVars, conn, streamVars, shut, reset, backlog, interest, ready >>

\* join() has returned: the rest of stop().
stopJoined ==
    /\ owner = "joining" /\ pc = "ended"
    /\ owner' = "stopped"
    /\ CloseAll
    /\ UNCHANGED << m_running, threadVars >>

----------------------------------------------------------------------------
(* The server thread. *)

\* The process dies of a signal, and the kernel closes its descriptors.
Crash ==
    /\ pc' = "crashed"
    /\ m_running' = FALSE
    /\ owner' = "stopped"
    /\ events' = << >> /\ sending' = << >>
    /\ CloseAll
    /\ UNCHANGED fault

\* A system call fails, which none has done before.
Fails(call) == call \in Faults /\ fault = "none" /\ fault' = call

\* The condition of the loop of serverLoop.
testRunning == pc' = IF m_running THEN "wait" ELSE "ended"

\* The thread begins.
serverLoop ==
    /\ pc = "test"
    /\ testRunning
    /\ UNCHANGED << m_running, m_clients, owner, events, sending, wireVars, fault >>

\* Mutant: no timeout.
epollWaitForever ==
    /\ pc = "wait" /\ ready # {}
    /\ \E s \in SetToSeqs(ready) :
           events' = [i \in 1 .. Len(s) |-> [who |-> s[i], hup |-> s[i] # Listener /\ conn[s[i]] = "rst"]]
    /\ ready' = {}
    /\ pc' = "event"
    /\ UNCHANGED << m_running, m_clients, owner, sending, conn, streamVars, shut, reset, listening, backlog, interest, fault >>

\* epoll_wait reports what is ready, at most MaxEvents of it, once; after 100 ms it
\* reports nothing.  EPOLLHUP and EPOLLERR come with a reset.
epollWait ==
    /\ pc = "wait"
    /\ \E batch \in SUBSET ready :
           /\ Cardinality(batch) = Min({Cardinality(ready), MaxEvents})
           /\ \E s \in SetToSeqs(batch) :
                  events' = [i \in 1 .. Len(s) |->
                                [who |-> s[i], hup |-> s[i] # Listener /\ conn[s[i]] = "rst"]]
           /\ ready' = ready \ batch
    /\ pc' = "event"
    /\ UNCHANGED << m_running, m_clients, owner, sending, conn, streamVars, shut, reset, listening, backlog, interest, fault >>

Current == Head(events).who

\* handleClientData returns; EPOLLHUP and EPOLLERR are looked at next.
EndOfData == IF Head(events).hup THEN pc' = "hangup" /\ UNCHANGED events
             ELSE pc' = "event" /\ events' = Tail(events)

\* The loop over m_events: the next event, or the next round.
nextEvent ==
    /\ pc = "event"
    /\ \/ events = << >> /\ testRunning /\ UNCHANGED events
       \/ events # << >> /\ Current = Listener /\ pc' = "accept" /\ UNCHANGED events
       \/ events # << >> /\ Current # Listener
             /\ IF Current \in m_clients THEN pc' = "read" /\ UNCHANGED events ELSE EndOfData
    /\ UNCHANGED << m_running, m_clients, owner, sending, wireVars, fault >>

\* TcpServerSocket::acceptConnection takes the connection that has waited longest.
acceptConnection == backlog' = Tail(backlog)

\* epoll reports at once what the client has sent already.
addClientToEpoll(c) ==
    /\ interest' = interest \cup {c}
    /\ ready' = IF rcv[c] # << >> \/ conn[c] \in {"fin", "rst"} THEN ready \cup {c} ELSE ready

\* Mutant: one connection per event.
handleNewConnectionOnce ==
    /\ pc = "accept"
    /\ IF backlog = << >>
       THEN UNCHANGED << m_clients, backlog, interest, ready >>
       ELSE LET c == Head(backlog)
            IN  /\ acceptConnection
                /\ m_clients' = m_clients \cup {c}
                /\ addClientToEpoll(c)
    /\ pc' = "event" /\ events' = Tail(events)
    /\ UNCHANGED << m_running, owner, sending, conn, streamVars, shut, reset, listening, fault >>

\* One round of the loop of handleNewConnection: accept, add to m_clients and to
\* epoll; or leave when nobody is waiting.
handleNewConnection ==
    /\ pc = "accept"
    /\ IF backlog = << >>
       THEN /\ pc' = "event" /\ events' = Tail(events)
            /\ UNCHANGED << m_clients, backlog, interest, ready >>
       ELSE LET c == Head(backlog)
            IN  /\ acceptConnection
                /\ m_clients' = m_clients \cup {c}
                /\ addClientToEpoll(c)
                /\ UNCHANGED << pc, events >>
    /\ UNCHANGED << m_running, owner, sending, conn, streamVars, shut, reset, listening, fault >>

\* accept fails for another reason than an empty backlog, such as too many open files:
\* the loop is left like one that has accepted everybody.
acceptFails ==
    /\ pc = "accept" /\ backlog # << >> /\ Fails("accept")
    /\ pc' = "event" /\ events' = Tail(events)
    /\ UNCHANGED << m_running, m_clients, owner, sending, wireVars >>

\* addClientToEpoll fails, and only logs it: the client is in m_clients for good.
addClientToEpollFails ==
    /\ pc = "accept" /\ backlog # << >> /\ Fails("epoll_ctl")
    /\ acceptConnection
    /\ m_clients' = m_clients \cup {Head(backlog)}
    /\ UNCHANGED << m_running, owner, pc, events, sending, conn, streamVars, shut, reset, listening, interest, ready >>

\* removeClient: out of epoll, closed and out of m_clients, if it is there.
removeClient(c) ==
    /\ m_clients' = m_clients \ {c}
    /\ interest' = interest \ {c}
    /\ ready' = ready \ {c}
    /\ shut' = [shut EXCEPT ![c] = @ \/ c \in m_clients]

disconnectClient(c) == removeClient(c)

\* sendToClient begins to write to a client that is still there.
sendToClient(c, buffer) ==
    IF c \in m_clients THEN pc' = "write" /\ sending' = buffer ELSE UNCHANGED << pc, sending >>

hangUp ==
    /\ pc = "hangup"
    /\ removeClient(Current)
    /\ pc' = "event" /\ events' = Tail(events)
    /\ UNCHANGED << m_running, owner, sending, conn, streamVars, reset, listening, backlog, fault >>

\* read returns bytes, which go to the message handler as they are.
readChunk ==
    /\ pc = "read" /\ Current \in m_clients /\ rcv[Current] # << >>
    /\ LET n == Min({Len(rcv[Current]), ReadSize})
           outcome == handleSoupBinTcpMessage(SubSeq(rcv[Current], 1, n))
       IN  /\ rcv' = [rcv EXCEPT ![Current] = Drop(@, n)]
           /\ \/ /\ outcome = "drop"
                 /\ UNCHANGED << m_clients, pc, sending, shut, interest, ready >>
              \/ /\ outcome = "answer"
                 /\ sendToClient(Current, LoginAccepted)
                 /\ UNCHANGED << m_clients, shut, interest, ready >>
              \/ /\ outcome = "disconnect"
                 /\ disconnectClient(Current)
                 /\ UNCHANGED << pc, sending >>
    /\ UNCHANGED << m_running, owner, events, conn, net, snd, reset, listening, backlog, fault >>

\* read returns 0 or an error: the client is removed.
readEnd ==
    /\ pc = "read" /\ Current \in m_clients /\ rcv[Current] = << >>
    /\ conn[Current] \in {"fin", "rst"}
    /\ removeClient(Current)
    /\ EndOfData
    /\ UNCHANGED << m_running, owner, sending, conn, streamVars, reset, listening, backlog, fault >>

\* read returns EAGAIN.
readAgain ==
    /\ pc = "read" /\ Current \in m_clients /\ rcv[Current] = << >>
    /\ conn[Current] \notin {"fin", "rst"}
    /\ EndOfData
    /\ UNCHANGED << m_running, m_clients, owner, sending, wireVars, fault >>

\* The handler has disconnected the client, and the loop reads through its iterator
\* once more: the process dies, or read fails on what it takes for a descriptor.
readErased ==
    /\ pc = "read" /\ Current \notin m_clients
    /\ \/ Crash
       \/ EndOfData /\ UNCHANGED << m_running, m_clients, owner, sending, wireVars, fault >>

\* TcpClientConnection::write, one system call; EAGAIN is retried at once.
writeSome ==
    /\ pc = "write"
    /\ \/ /\ conn[Current] = "up" /\ Len(snd[Current]) < SendBuffer
          /\ LET n == Min({Len(sending), SendBuffer - Len(snd[Current])})
             IN  /\ snd' = [snd EXCEPT ![Current] = @ \o SubSeq(sending, 1, n)]
                 /\ sending' = Drop(sending, n)
                 /\ pc' = IF n = Len(sending) THEN "read" ELSE "write"
          /\ UNCHANGED << m_running, m_clients, owner, conn, shut, reset, listening, backlog, interest, ready, fault >>
       \/ \* the client is gone: its kernel answers with a reset
          /\ conn[Current] \in {"closing", "resetting", "fin"}
          /\ conn' = [conn EXCEPT ![Current] = IF @ = "fin" THEN "rst" ELSE "resetting"]
          /\ Raise(Current)
          /\ sending' = << >> /\ pc' = "read"
          /\ UNCHANGED << m_running, m_clients, owner, snd, shut, reset, listening, backlog, interest, fault >>
       \/ \* EPIPE or ECONNRESET: write returns
          /\ conn[Current] = "rst"
          /\ sending' = << >> /\ pc' = "read"
          /\ UNCHANGED << m_running, m_clients, owner, conn, snd, shut, reset, listening, backlog, interest, ready, fault >>
    /\ UNCHANGED << events, net, rcv >>

\* The EPIPE is preceded by SIGPIPE, which nothing in the repository ignores.
writeSignal == pc = "write" /\ conn[Current] = "rst" /\ Crash

ServerThread ==
    \/ serverLoop \/ epollWait \/ nextEvent \/ handleNewConnection
    \/ acceptFails \/ addClientToEpollFails
    \/ readChunk \/ readEnd \/ readAgain \/ readErased \/ hangUp \/ writeSome \/ writeSignal
=============================================================================
