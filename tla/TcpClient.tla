----------------------------- MODULE TcpClient ------------------------------
(***************************************************************************)
(* The processes at the other end: TcpClient (lib/network/tcp_client.cpp)  *)
(* over TcpSocket (lib/network/tcp_socket.cpp), with the reader thread     *)
(* that cuts the stream into messages, and the thread that constructs a    *)
(* BistMarketAccessor (lib/client/order_entry_client.cpp), logs in and     *)
(* destroys it.                                                            *)
(*                                                                         *)
(* Nothing in the repository sets stopRequested, so startRead only ends    *)
(* when a read fails.                                                      *)
(***************************************************************************)
EXTENDS Wire

CONSTANTS BufferSize,   \* BUFFER_SIZE, the size of m_buffer
          Impostors,    \* clients whose credentials are not accepted
          Mortal,       \* clients that may be killed at any time
          MaxLogins     \* login() calls of one client (bound)

ASSUME ClientAssumption ==
    /\ BufferSize \in Nat /\ BufferSize >= Len(LoginAccepted)
    /\ Impostors \subseteq Clients /\ Mortal \subseteq Clients
    /\ MaxLogins \in Nat

VARIABLES
    main,      \* the thread that owns the accessor
    reader,    \* the thread in startRead
    m_buffer,  \* the m_dataSize bytes of m_buffer
    offset,    \* offset in processBuffer
    handled,   \* messages given to handleMessage, in order
    logins     \* login() calls made

readerVars == << m_buffer, offset, handled >>
clientVars == << main, reader, m_buffer, offset, handled, logins >>

ClientInit ==
    /\ main = [c \in Clients |-> "new"]
    /\ reader = [c \in Clients |-> "none"]
    /\ m_buffer = [c \in Clients |-> << >>]
    /\ offset = [c \in Clients |-> 0]
    /\ handled = [c \in Clients |-> << >>]
    /\ logins = [c \in Clients |-> 0]

\* TcpSocket::write: a descriptor without a connection, or with one that was reset,
\* only makes it return.
Write(c, packet) ==
    net' = IF conn[c] = "up" /\ ~reset[c] THEN [net EXCEPT ![c] = @ \o packet] ELSE net

----------------------------------------------------------------------------
(* The thread that owns the accessor. *)

\* The constructor connects and starts the reader; a refused connection is logged.
construct(c) ==
    /\ main[c] = "new"
    /\ conn' = [conn EXCEPT ![c] = IF listening THEN "up" ELSE "refused"]
    /\ backlog' = IF listening THEN Append(backlog, c) ELSE backlog
    /\ ready' = IF listening THEN ready \cup {Listener} ELSE ready
    /\ main' = [main EXCEPT ![c] = "running"]
    /\ reader' = [reader EXCEPT ![c] = "read"]
    /\ UNCHANGED << readerVars, logins, streamVars, shut, reset, listening, interest >>

login(c) ==
    /\ main[c] = "running" /\ logins[c] < MaxLogins
    /\ Write(c, LoginRequest(IF c \in Impostors THEN BadCredentials ELSE GoodCredentials))
    /\ logins' = [logins EXCEPT ![c] = @ + 1]
    /\ UNCHANGED << main, reader, readerVars, conn, rcv, snd, shut, reset, listening, backlog, interest, ready >>

\* The destructor logs out and then joins the reader.
logout(c) ==
    /\ main[c] = "running"
    /\ Write(c, LogoutRequest)
    /\ main' = [main EXCEPT ![c] = "joining"]
    /\ UNCHANGED << reader, readerVars, logins, conn, rcv, snd, shut, reset, listening, backlog, interest, ready >>

\* The reader has ended; ~TcpSocket closes the descriptor.
joined(c) ==
    /\ main[c] = "joining" /\ reader[c] = "ended"
    /\ main' = [main EXCEPT ![c] = "destroyed"]
    /\ conn' = [conn EXCEPT ![c] = IF @ = "up" THEN "closing" ELSE @]
    /\ UNCHANGED << reader, readerVars, logins, streamVars, shut, reset, listening, backlog, interest, ready >>

\* The process is killed: by its user, since trading_client has no other end, or by
\* SIGPIPE when it writes on a connection that was reset.
kill(c) ==
    /\ main[c] \in {"running", "joining"} /\ (c \in Mortal \/ reset[c])
    /\ main' = [main EXCEPT ![c] = "killed"]
    /\ reader' = [reader EXCEPT ![c] = "ended"]
    /\ \/ /\ conn' = [conn EXCEPT ![c] = IF @ = "up" THEN "closing" ELSE @]
          /\ UNCHANGED << net, ready >>
       \/ \* bytes it has not read turn the close into a reset
          /\ conn[c] = "up" /\ snd[c] # << >>
          /\ conn' = [conn EXCEPT ![c] = "rst"]
          /\ net' = [net EXCEPT ![c] = << >>]
          /\ Raise(c)
    /\ UNCHANGED << readerVars, logins, rcv, snd, shut, reset, listening, backlog, interest >>

----------------------------------------------------------------------------
(* The reader thread. *)

\* read returns bytes, as many as there are and m_buffer has room for.
readFromSocket(c) ==
    /\ reader[c] = "read" /\ snd[c] # << >> /\ Len(m_buffer[c]) < BufferSize
    /\ LET n == Min({Len(snd[c]), BufferSize - Len(m_buffer[c])})
       IN  /\ m_buffer' = [m_buffer EXCEPT ![c] = @ \o SubSeq(snd[c], 1, n)]
           /\ snd' = [snd EXCEPT ![c] = Drop(@, n)]
    /\ reader' = [reader EXCEPT ![c] = "process"]
    /\ UNCHANGED << main, offset, handled, logins, conn, net, rcv, shut, reset, listening, backlog, interest, ready >>

\* read returns 0 or an error, also when it has been asked for no bytes.
readFails(c) ==
    /\ reader[c] = "read"
    /\ \/ Len(m_buffer[c]) = BufferSize
       \/ conn[c] = "refused"
       \/ snd[c] = << >> /\ (shut[c] \/ reset[c])
    /\ reader' = [reader EXCEPT ![c] = "ended"]
    /\ UNCHANGED << main, readerVars, logins, wireVars >>

Rest(c) == Drop(m_buffer[c], offset[c])
Complete(bytes) == Len(bytes) >= HeaderSize /\ Len(bytes) >= HeaderSize + PacketLength(bytes)

\* Mutant: the offset does not move.
processMessageAgain(c) ==
    /\ reader[c] = "process" /\ Complete(Rest(c)) /\ Len(handled[c]) < 3
    /\ handled' = [handled EXCEPT ![c] = Append(@, SubSeq(Rest(c), 1, HeaderSize + PacketLength(Rest(c))))]
    /\ UNCHANGED << main, reader, m_buffer, offset, logins, wireVars >>

\* One round of the loop of processBuffer: a whole message goes to handleMessage,
\* which sends an order once the login has been accepted.
processMessage(c) ==
    /\ reader[c] = "process" /\ Complete(Rest(c))
    /\ LET message == SubSeq(Rest(c), 1, HeaderSize + PacketLength(Rest(c)))
       IN  /\ handled' = [handled EXCEPT ![c] = Append(@, message)]
           /\ offset' = [offset EXCEPT ![c] = @ + Len(message)]
           /\ IF message[3] = TypeLoginAccepted THEN Write(c, EnterOrder) ELSE UNCHANGED net
    /\ UNCHANGED << main, reader, m_buffer, logins, conn, rcv, snd, shut, reset, listening, backlog, interest, ready >>

\* Mutant: the offset survives the move.
processEndWrongCount(c) ==
    /\ reader[c] = "process" /\ ~Complete(Rest(c))
    /\ m_buffer' = [m_buffer EXCEPT ![c] = Rest(c)]
    /\ reader' = [reader EXCEPT ![c] = "read"]
    /\ UNCHANGED << main, offset, handled, logins, wireVars >>

\* Mutant: what has been handled stays in the buffer.
processEndKeepsAll(c) ==
    /\ reader[c] = "process" /\ ~Complete(Rest(c))
    /\ reader' = [reader EXCEPT ![c] = "read"]
    /\ UNCHANGED << main, readerVars, logins, wireVars >>

\* The end of processBuffer: what is left moves to the front of the buffer.
processEnd(c) ==
    /\ reader[c] = "process" /\ ~Complete(Rest(c))
    /\ m_buffer' = [m_buffer EXCEPT ![c] = Rest(c)]
    /\ offset' = [offset EXCEPT ![c] = 0]
    /\ reader' = [reader EXCEPT ![c] = "read"]
    /\ UNCHANGED << main, handled, logins, wireVars >>

ReaderThread(c) == readFromSocket(c) \/ readFails(c) \/ processMessage(c) \/ processEnd(c)
=============================================================================
