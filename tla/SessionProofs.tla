--------------------------- MODULE SessionProofs ----------------------------
(***************************************************************************)
(* The exchange emulator and its clients, for every number of clients and  *)
(* logins, every size of the buffers and every way the streams are cut: no *)
(* edge-triggered event is missed, handleMessage is given whole messages,  *)
(* and the reader always has room to read.                                 *)
(***************************************************************************)
EXTENDS Session, SequenceTheorems, FiniteSetTheorems, TLAPS

----------------------------------------------------------------------------
(* The inductive invariant. *)

\* The types, by the part of the system that has the variables.
WireTypes ==
    /\ conn \in [Clients -> ConnStates]
    /\ net \in [Clients -> Seq(Byte)] /\ rcv \in [Clients -> Seq(Byte)] /\ snd \in [Clients -> Seq(Byte)]
    /\ shut \in [Clients -> BOOLEAN] /\ reset \in [Clients -> BOOLEAN]
    /\ listening \in BOOLEAN /\ backlog \in Seq(Clients)
    /\ interest \subseteq Clients /\ ready \subseteq Clients \cup {Listener}

Event == [who : Clients \cup {Listener}, hup : BOOLEAN]

\* The server thread has an event at hand while it handles one, and what is written
\* goes to a client that is still there.
ServerTypes ==
    /\ m_running \in BOOLEAN /\ m_clients \subseteq Clients
    /\ owner \in {"new", "running", "joining", "stopped"}
    /\ pc \in {"none", "test", "wait", "event", "accept", "read", "write", "hangup", "ended", "crashed"}
    /\ fault \in Faults \cup {"none"}
    /\ events \in Seq(Event) /\ sending \in Seq(Byte)
    /\ pc \in {"accept", "read", "write", "hangup"} => events # << >>
    /\ pc = "accept" => Current = Listener
    /\ pc \in {"read", "write", "hangup"} => Current \in Clients
    /\ pc \in {"none", "test", "wait", "ended"} => events = << >>
    /\ pc = "write" => Current \in m_clients
    /\ owner = "new" => pc = "none"

ClientTypes ==
    /\ main \in [Clients -> {"new", "running", "joining", "destroyed", "killed"}]
    /\ reader \in [Clients -> {"none", "read", "process", "ended"}]
    /\ m_buffer \in [Clients -> Seq(Byte)] /\ offset \in [Clients -> Nat]
    /\ handled \in [Clients -> Seq(Seq(Byte))] /\ logins \in [Clients -> Nat]
    /\ \A c \in Clients : Len(m_buffer[c]) <= BufferSize /\ offset[c] <= Len(m_buffer[c])

Types == WireTypes /\ ServerTypes /\ ClientTypes

\* A connection waits to be accepted once, is in m_clients only after that, and is in
\* the interest list from then on, unless epoll_ctl has failed.
Registered ==
    /\ interest \subseteq m_clients
    /\ \A c \in m_clients : c \in interest \/ fault = "epoll_ctl"
    /\ \A i, j \in 1 .. Len(backlog) : i # j => backlog[i] # backlog[j]
    /\ \A i \in 1 .. Len(backlog) : backlog[i] \notin m_clients /\ main[backlog[i]] # "new"
    /\ \A c \in m_clients : main[c] # "new"

\* epoll_wait will report it, or has reported it and the loop has not finished with it.
Told(who) == who \in ready \/ \E i \in 1 .. Len(events) : events[i].who = who

\* Whoever waits for the server has been told of.
NothingMissed ==
    /\ backlog # << >> => Told(Listener) \/ fault = "accept"
    /\ \A c \in interest : rcv[c] # << >> \/ conn[c] \in {"fin", "rst"} => Told(c)

\* The answers a client has not handled yet: in its buffer, on their way, and the rest
\* of the one being written, as long as writing it can succeed.
Owed(c) == IF pc = "write" /\ Current = c /\ conn[c] = "up" THEN sending ELSE << >>
Stream(c) == (Rest(c) \o snd[c]) \o Owed(c)

Answers(bytes) == \A i \in 1 .. Len(bytes) : bytes[i] = LoginAccepted[((i - 1) % 4) + 1]

\* Bytes that may be taken for the type of a login request.
Asks(bytes) == Cardinality({i \in 1 .. Len(bytes) : bytes[i] = TypeLoginRequest})

\* The stream of a client's answers begins where a message begins, is cut off only
\* when the client is gone, and answers no more than was asked.
Framed(stream, state, count, asking, asked) ==
    /\ stream \in Seq(Byte) /\ Answers(stream)
    /\ state \in {"none", "up"} => Len(stream) % 4 = 0
    /\ asking \in Nat
    /\ 4 * (count + asking) + Len(stream) <= 4 * asked

FramedClient(c) ==
    Framed(Stream(c), conn[c], Len(handled[c]), Asks(rcv[c]) + Asks(net[c]), logins[c])

Streams == \A c \in Clients : FramedClient(c)

\* Before its constructor has run, a client has neither a connection nor a reader.
NotYet ==
    \A c \in Clients :
        main[c] = "new" => conn[c] = "none" /\ reader[c] = "none" /\ offset[c] = 0 /\ m_buffer[c] = << >>

\* The reader comes back to read with less than a message in the buffer.
ShortRest == \A c \in Clients : reader[c] = "read" => offset[c] = 0 /\ Len(m_buffer[c]) < 4

\* What has been handled are answers.
HandledWhole == \A c \in Clients : \A i \in 1 .. Len(handled[c]) : handled[c][i] = LoginAccepted

SessionInv ==
    Types /\ Registered /\ NothingMissed /\ NotYet /\ Streams /\ ShortRest /\ HandledWhole
----------------------------------------------------------------------------
(* Sequences of bytes. *)

\* The packets, byte by byte.
LEMMA Packets ==
    /\ LoginAccepted = << 0, 2, TypeLoginAccepted, 49 >>
    /\ EnterOrder = << 0, 2, TypeUnsequencedData, 79 >>
    /\ LogoutRequest = << 0, 3, TypeLogoutRequest >>
    /\ \A k : LoginRequest(k) = << 0, 2, TypeLoginRequest, k >>
<1>1. Header(2) = << 0, 2 >> /\ Header(3) = << 0, 3 >>
  BY DEF Header
<1>2. ASSUME NEW a, NEW b, NEW d, NEW e
      PROVE  << a, b >> \o << d, e >> = << a, b, d, e >>
  <2> DEFINE S == {a, b, d, e}
             s == << a, b >>
             t == << d, e >>
             u == << a, b, d, e >>
  <2>1. s \in Seq(S) /\ t \in Seq(S) /\ u \in Seq(S) /\ Len(s) = 2 /\ Len(t) = 2 /\ Len(u) = 4
    OBVIOUS
  <2>2. /\ s \o t \in Seq(S) /\ Len(s \o t) = Len(s) + Len(t)
        /\ \A i \in 1 .. Len(s) + Len(t) : (s \o t)[i] = IF i <= Len(s) THEN s[i] ELSE t[i - Len(s)]
    BY <2>1, ConcatProperties, Zenon
  <2>3. \A i \in 1 .. 4 : (s \o t)[i] = u[i]
    BY <2>1, <2>2
  <2>4. Len(s \o t) = 4
    BY <2>1, <2>2
  <2> HIDE DEF s, t, u, S
  <2>5. s \o t = u
    BY <2>1, <2>2, <2>3, <2>4, SeqEqual
  <2> QED
    BY <2>5 DEF s, t, u
<1>3. ASSUME NEW a, NEW b, NEW d
      PROVE  << a, b >> \o << d >> = << a, b, d >>
  <2> DEFINE S == {a, b, d}
             s == << a, b >>
             t == << d >>
             u == << a, b, d >>
  <2>1. s \in Seq(S) /\ t \in Seq(S) /\ u \in Seq(S) /\ Len(s) = 2 /\ Len(t) = 1 /\ Len(u) = 3
    OBVIOUS
  <2>2. /\ s \o t \in Seq(S) /\ Len(s \o t) = Len(s) + Len(t)
        /\ \A i \in 1 .. Len(s) + Len(t) : (s \o t)[i] = IF i <= Len(s) THEN s[i] ELSE t[i - Len(s)]
    BY <2>1, ConcatProperties, Zenon
  <2>3. \A i \in 1 .. 3 : (s \o t)[i] = u[i]
    BY <2>1, <2>2
  <2>4. Len(s \o t) = 3
    BY <2>1, <2>2
  <2> HIDE DEF s, t, u, S
  <2>5. s \o t = u
    BY <2>1, <2>2, <2>3, <2>4, SeqEqual
  <2> QED
    BY <2>5 DEF s, t, u
<1> QED
  BY <1>1, <1>2, <1>3, Zenon DEF LoginAccepted, EnterOrder, LogoutRequest, LoginRequest

\* A sequence cut in two.
LEMMA CutInTwo ==
    ASSUME NEW S, NEW s \in Seq(S), NEW n \in 0 .. Len(s)
    PROVE  /\ SubSeq(s, 1, n) \in Seq(S) /\ Len(SubSeq(s, 1, n)) = n
           /\ \A i \in 1 .. n : SubSeq(s, 1, n)[i] = s[i]
           /\ Drop(s, n) \in Seq(S) /\ Len(Drop(s, n)) = Len(s) - n
           /\ \A i \in 1 .. Len(s) - n : Drop(s, n)[i] = s[n + i]
           /\ SubSeq(s, 1, n) \o Drop(s, n) = s
<1>1. Len(s) \in Nat /\ \A i \in 1 .. Len(s) : s[i] \in S
  BY LenProperties
<1>2. /\ SubSeq(s, 1, n) \in Seq(S) /\ Len(SubSeq(s, 1, n)) = n
      /\ \A i \in 1 .. n : SubSeq(s, 1, n)[i] = s[i]
  <2>1. \A i \in 1 .. n : s[i] \in S
    BY <1>1
  <2>2. n \in Int /\ 1 \in Int
    BY <1>1
  <2> QED
    BY <1>1, <2>1, <2>2, SubSeqProperties
<1>3. /\ Drop(s, n) \in Seq(S) /\ Len(Drop(s, n)) = Len(s) - n
      /\ \A i \in 1 .. Len(s) - n : Drop(s, n)[i] = s[n + i]
  <2>1. \A i \in n + 1 .. Len(s) : s[i] \in S
    BY <1>1
  <2>2. n + 1 \in Int /\ Len(s) \in Int
    BY <1>1
  <2> QED
    BY <1>1, <2>1, <2>2, SubSeqProperties DEF Drop
<1>4. SubSeq(s, 1, n) \o SubSeq(s, n + 1, Len(s)) = SubSeq(s, 1, Len(s))
  <2>1. 1 \in 1 .. Len(s) + 1 /\ n \in 1 - 1 .. Len(s) /\ Len(s) \in n .. Len(s)
    BY <1>1
  <2> QED
    BY <2>1, ConcatAdjacentSubSeq
<1> QED
  BY <1>2, <1>3, <1>4, SubSeqFull DEF Drop

\* What a stream of answers is made of.
LEMMA AnswersGrow ==
    ASSUME NEW s \in Seq(Byte), Answers(s), Len(s) % 4 = 0
    PROVE  /\ s \o LoginAccepted \in Seq(Byte) /\ Len(s \o LoginAccepted) = Len(s) + 4
           /\ (Len(s) + 4) % 4 = 0
           /\ Answers(s \o LoginAccepted)
<1>1. LoginAccepted \in Seq(Byte) /\ Len(LoginAccepted) = 4
  BY Packets DEF Byte, TypeLoginAccepted
<1>2. /\ s \o LoginAccepted \in Seq(Byte) /\ Len(s \o LoginAccepted) = Len(s) + 4
      /\ \A i \in 1 .. Len(s) + 4 :
             (s \o LoginAccepted)[i] = IF i <= Len(s) THEN s[i] ELSE LoginAccepted[i - Len(s)]
  <2>1. /\ s \o LoginAccepted \in Seq(Byte) /\ Len(s \o LoginAccepted) = Len(s) + Len(LoginAccepted)
        /\ \A i \in 1 .. Len(s) + Len(LoginAccepted) :
               (s \o LoginAccepted)[i] = IF i <= Len(s) THEN s[i] ELSE LoginAccepted[i - Len(s)]
    BY <1>1, ConcatProperties, Zenon
  <2> QED
    BY <1>1, <2>1, Zenon
<1>3. Len(s) \in Nat /\ (Len(s) + 4) % 4 = 0
  BY LenProperties
<1>4. ASSUME NEW i \in 1 .. Len(s) + 4
      PROVE  (s \o LoginAccepted)[i] = LoginAccepted[((i - 1) % 4) + 1]
  <2>1. CASE i <= Len(s)
    BY <1>2, <1>3, <2>1 DEF Answers
  <2>2. CASE i > Len(s)
    <3>1. i - Len(s) = ((i - 1) % 4) + 1
      BY <1>3, <2>2
    <3> QED
      BY <1>2, <1>3, <2>2, <3>1
  <2>3. i <= Len(s) \/ i > Len(s)
    BY ONLY <1>3, i \in 1 .. Len(s) + 4
  <2> QED
    BY <2>1, <2>2, <2>3
<1> QED
  BY <1>2, <1>3, <1>4 DEF Answers

\* A stream of answers without its first one is a stream of answers.
LEMMA AnswersShrink ==
    ASSUME NEW s \in Seq(Byte), Answers(s), Len(s) >= 4
    PROVE  /\ SubSeq(s, 1, 4) = LoginAccepted
           /\ Drop(s, 4) \in Seq(Byte) /\ Len(Drop(s, 4)) = Len(s) - 4
           /\ (Len(s) - 4) % 4 = Len(s) % 4
           /\ Answers(Drop(s, 4))
<1>1. Len(s) \in Nat /\ (Len(s) - 4) % 4 = Len(s) % 4
  BY LenProperties
<1>2. 4 \in 0 .. Len(s)
  BY <1>1
<1>3. /\ SubSeq(s, 1, 4) \in Seq(Byte) /\ Len(SubSeq(s, 1, 4)) = 4
      /\ \A i \in 1 .. 4 : SubSeq(s, 1, 4)[i] = s[i]
      /\ Drop(s, 4) \in Seq(Byte) /\ Len(Drop(s, 4)) = Len(s) - 4
      /\ \A i \in 1 .. Len(s) - 4 : Drop(s, 4)[i] = s[4 + i]
  BY <1>2, CutInTwo
<1>4. LoginAccepted \in Seq(Byte) /\ Len(LoginAccepted) = 4
  BY Packets DEF Byte, TypeLoginAccepted
<1>5. ASSUME NEW i \in 1 .. 4 PROVE SubSeq(s, 1, 4)[i] = LoginAccepted[i]
  <2>1. ((i - 1) % 4) + 1 = i /\ i \in 1 .. Len(s)
    BY <1>1
  <2> QED
    BY <1>3, <2>1 DEF Answers
<1>6. SubSeq(s, 1, 4) = LoginAccepted
  BY <1>3, <1>4, <1>5, SeqEqual
<1>7. ASSUME NEW i \in 1 .. Len(s) - 4 PROVE Drop(s, 4)[i] = LoginAccepted[((i - 1) % 4) + 1]
  <2>1. ((4 + i - 1) % 4) = ((i - 1) % 4) /\ 4 + i \in 1 .. Len(s)
    BY <1>1
  <2> QED
    BY <1>3, <2>1 DEF Answers
<1> QED
  BY <1>1, <1>3, <1>6, <1>7 DEF Answers

\* A stream of answers that is cut off still begins with answers.
LEMMA AnswersPrefix ==
    ASSUME NEW s \in Seq(Byte), NEW t \in Seq(Byte), Answers(s \o t)
    PROVE  Answers(s)
<1>1. Len(s) \in Nat /\ Len(t) \in Nat
  BY LenProperties
<1>2. /\ Len(s \o t) = Len(s) + Len(t)
      /\ \A i \in 1 .. Len(s) + Len(t) : (s \o t)[i] = IF i <= Len(s) THEN s[i] ELSE t[i - Len(s)]
  BY ConcatProperties
<1> QED
  BY <1>1, <1>2 DEF Answers

\* The login requests in a sequence, and in two.
LEMMA AsksFinite ==
    ASSUME NEW s \in Seq(Byte)
    PROVE  /\ IsFiniteSet({i \in 1 .. Len(s) : s[i] = TypeLoginRequest})
           /\ Asks(s) \in Nat
<1>1. Len(s) \in Nat
  BY LenProperties
<1>2. IsFiniteSet(1 .. Len(s))
  BY <1>1, FS_Interval
<1>3. {i \in 1 .. Len(s) : s[i] = TypeLoginRequest} \subseteq 1 .. Len(s)
  OBVIOUS
<1>4. IsFiniteSet({i \in 1 .. Len(s) : s[i] = TypeLoginRequest})
  BY <1>2, <1>3, FS_Subset
<1> QED
  BY <1>4, FS_CardinalityType DEF Asks

\* Appending bytes adds the requests in them.
LEMMA AsksConcat ==
    ASSUME NEW s \in Seq(Byte), NEW t \in Seq(Byte)
    PROVE  Asks(s \o t) = Asks(s) + Asks(t)
<1> DEFINE n == Len(s)
           A == {i \in 1 .. Len(s) : s[i] = TypeLoginRequest}
           B == {i \in 1 .. Len(t) : t[i] = TypeLoginRequest}
           C == {i + n : i \in B}
           f == [i \in B |-> i + n]
<1>1. Len(s) \in Nat /\ Len(t) \in Nat
  BY LenProperties
<1>2. /\ Len(s \o t) = Len(s) + Len(t)
      /\ \A i \in 1 .. Len(s) + Len(t) : (s \o t)[i] = IF i <= Len(s) THEN s[i] ELSE t[i - Len(s)]
  BY ConcatProperties
<1>3. IsFiniteSet(A) /\ IsFiniteSet(B) /\ Asks(s) = Cardinality(A) /\ Asks(t) = Cardinality(B)
      /\ Asks(s) \in Nat /\ Asks(t) \in Nat
  BY AsksFinite DEF Asks
<1>4. IsFiniteSet(C) /\ Cardinality(C) = Cardinality(B)
  <2>1. f \in Bijection(B, C)
    <3>1. \A i \in B : i \in Int
      BY <1>1
    <3>2. f \in [B -> C] /\ \A y \in C : \E i \in B : f[i] = y
      OBVIOUS
    <3>3. \A i, j \in B : f[i] = f[j] => i = j
      BY <1>1, <3>1
    <3>4. DOMAIN f = B
      OBVIOUS
    <3> HIDE DEF f, B, C
    <3> QED
      BY <3>2, <3>3, <3>4 DEF Bijection, Injection, Surjection, IsInjective
  <2>2. ExistsBijection(B, C)
    BY <2>1 DEF ExistsBijection
  <2> QED
    BY <1>3, <2>2, FS_Bijection
<1>5. A \cap C = {}
  BY <1>1
<1>6. {i \in 1 .. Len(s \o t) : (s \o t)[i] = TypeLoginRequest} = A \cup C
  <2>1. ASSUME NEW i \in 1 .. Len(s \o t), (s \o t)[i] = TypeLoginRequest PROVE i \in A \cup C
    <3>1. CASE i <= Len(s)
      BY <1>1, <1>2, <2>1, <3>1
    <3>2. CASE i > Len(s)
      <4>1. i - n \in 1 .. Len(t) /\ i \in 1 .. Len(s) + Len(t)
        BY <1>1, <1>2, <3>2
      <4>2. i - n \in B
        BY <1>1, <1>2, <2>1, <3>2, <4>1
      <4>3. i = (i - n) + n
        BY <1>1, <1>2
      <4> QED
        BY <4>2, <4>3
    <3> QED
      BY <1>1, <1>2, <3>1, <3>2
  <2>2. ASSUME NEW i \in A PROVE i \in 1 .. Len(s \o t) /\ (s \o t)[i] = TypeLoginRequest
    BY <1>1, <1>2
  <2>3. ASSUME NEW j \in B PROVE j + n \in 1 .. Len(s \o t) /\ (s \o t)[j + n] = TypeLoginRequest
    <3>1. j + n \in 1 .. Len(s) + Len(t) /\ ~(j + n <= Len(s)) /\ (j + n) - Len(s) = j
      BY <1>1
    <3> QED
      BY <1>2, <3>1
  <2> QED
    BY <2>1, <2>2, <2>3
<1>7. Cardinality(A \cup C) = Cardinality(A) + Cardinality(C) - Cardinality(A \cap C)
  BY <1>3, <1>4, FS_Union
<1>8. Asks(s \o t) = Cardinality(A \cup C)
  BY <1>6 DEF Asks
<1>9. Cardinality(A \cap C) = 0
  BY <1>5, FS_EmptySet
<1> HIDE DEF A, B, C
<1> QED
  BY <1>3, <1>4, <1>7, <1>8, <1>9

\* Cutting bytes in two loses no request and counts none twice.
LEMMA AsksCut ==
    ASSUME NEW s \in Seq(Byte), NEW n \in 0 .. Len(s)
    PROVE  /\ Asks(s) = Asks(SubSeq(s, 1, n)) + Asks(Drop(s, n))
           /\ Asks(SubSeq(s, 1, n)) \in Nat /\ Asks(Drop(s, n)) \in Nat
<1>1. /\ SubSeq(s, 1, n) \in Seq(Byte) /\ Drop(s, n) \in Seq(Byte)
      /\ SubSeq(s, 1, n) \o Drop(s, n) = s
  BY CutInTwo
<1> QED
  BY <1>1, AsksConcat, AsksFinite

\* Only a login request holds the byte of one.
LEMMA AsksPackets ==
    /\ << >> \in Seq(Byte) /\ Asks(<< >>) = 0
    /\ EnterOrder \in Seq(Byte) /\ Asks(EnterOrder) = 0
    /\ LogoutRequest \in Seq(Byte) /\ Asks(LogoutRequest) = 0
    /\ \A k \in {GoodCredentials, BadCredentials} :
           LoginRequest(k) \in Seq(Byte) /\ Asks(LoginRequest(k)) = 1
<1> USE DEF Byte, TypeLoginRequest, TypeUnsequencedData, TypeLogoutRequest, GoodCredentials, BadCredentials
<1>1. << >> \in Seq(Byte) /\ {i \in 1 .. Len(<< >>) : << >>[i] = TypeLoginRequest} = {}
  OBVIOUS
<1>2. EnterOrder \in Seq(Byte) /\ {i \in 1 .. Len(EnterOrder) : EnterOrder[i] = TypeLoginRequest} = {}
  BY Packets
<1>3. LogoutRequest \in Seq(Byte) /\ {i \in 1 .. Len(LogoutRequest) : LogoutRequest[i] = TypeLoginRequest} = {}
  BY Packets
<1>4. ASSUME NEW k \in {GoodCredentials, BadCredentials}
      PROVE  LoginRequest(k) \in Seq(Byte) /\ Asks(LoginRequest(k)) = 1
  <2> DEFINE s == << 0, 2, TypeLoginRequest, k >>
  <2>1. LoginRequest(k) = s
    BY Packets
  <2>2. s \in Seq(Byte) /\ Len(s) = 4 /\ s[1] = 0 /\ s[2] = 2 /\ s[3] = TypeLoginRequest /\ s[4] # TypeLoginRequest
    OBVIOUS
  <2> HIDE DEF s
  <2>3. {i \in 1 .. Len(s) : s[i] = TypeLoginRequest} = {3}
    <3>1. ASSUME NEW i \in 1 .. 4, s[i] = TypeLoginRequest PROVE i = 3
      <4>1. i = 1 \/ i = 2 \/ i = 3 \/ i = 4
        OBVIOUS
      <4> QED
        BY <2>2, <3>1, <4>1
    <3> QED
      BY <2>2, <3>1
  <2>4. Asks(s) = Cardinality({3}) /\ Cardinality({3}) = 1
    BY <2>3, FS_Singleton, Zenon DEF Asks
  <2> QED
    BY <2>1, <2>2, <2>4
<1> QED
  BY <1>1, <1>2, <1>3, <1>4, FS_EmptySet DEF Asks

\* The emulator answers only bytes that hold one.
LEMMA AnswerNeedsAsk ==
    ASSUME NEW s \in Seq(Byte), handleSoupBinTcpMessage(s) = "answer"
    PROVE  Asks(s) >= 1
<1>1. Len(s) \in Nat
  BY LenProperties
<1>2. Len(s) >= 3 /\ s[3] = TypeLoginRequest
  BY <1>1 DEF handleSoupBinTcpMessage, HeaderSize
<1>3. 3 \in {i \in 1 .. Len(s) : s[i] = TypeLoginRequest}
  BY <1>1, <1>2
<1>4. Cardinality({i \in 1 .. Len(s) : s[i] = TypeLoginRequest}) # 0
  BY <1>3, AsksFinite, FS_EmptySet
<1>5. Asks(s) # 0 /\ Asks(s) \in Nat
  BY <1>4, AsksFinite DEF Asks
<1> QED
  BY <1>5

\* The size of a read is the smaller of what there is and the room for it.
LEMMA MinOfTwo ==
    ASSUME NEW a \in Int, NEW b \in Int
    PROVE  /\ Min({a, b}) \in {a, b}
           /\ Min({a, b}) <= a /\ Min({a, b}) <= b
BY DEF Min

\* What read and write transfer: as much as there is, and as fits.
LEMMA Transfer ==
    ASSUME NEW s \in Seq(Byte), NEW room \in Nat, NEW n, n = Min({Len(s), room})
    PROVE  /\ Len(s) \in Nat /\ n \in 0 .. Len(s) /\ n \in Nat /\ n <= room
           /\ n = Len(s) \/ n = room
           /\ SubSeq(s, 1, n) \in Seq(Byte) /\ Len(SubSeq(s, 1, n)) = n
           /\ Drop(s, n) \in Seq(Byte) /\ Len(Drop(s, n)) = Len(s) - n
           /\ SubSeq(s, 1, n) \o Drop(s, n) = s
<1>1. Len(s) \in Nat
  BY LenProperties
<1>2. n \in {Len(s), room} /\ n <= Len(s) /\ n <= room
  <2>1. Len(s) \in Int /\ room \in Int
    BY <1>1
  <2> QED
    BY <2>1, MinOfTwo, Zenon
<1>3. n \in 0 .. Len(s) /\ n \in Nat
  BY <1>1, <1>2
<1> QED
  BY <1>1, <1>2, <1>3, CutInTwo

----------------------------------------------------------------------------
(* Types. *)

\* The types proved are those the run checks, and more.
LEMMA TypesImply == Types => TypeOK
BY LenProperties DEF Types, WireTypes, ServerTypes, ClientTypes, TypeOK

\* The connections keep their types.
LEMMA WireTypesStep ==
    ASSUME Types, Next
    PROVE  WireTypes'
<1> USE DEF Types, WireTypes, ServerTypes, ClientTypes, vars, wireVars, streamVars, serverVars, threadVars, clientVars, readerVars
<1>1. ASSUME startThrows, UNCHANGED clientVars PROVE WireTypes'
  BY <1>1 DEF startThrows
<1>2. ASSUME start, UNCHANGED clientVars PROVE WireTypes'
  BY <1>2 DEF start, Listen
<1>3. ASSUME stop, UNCHANGED clientVars PROVE WireTypes'
  BY <1>3 DEF stop
<1>4. ASSUME stopJoined, UNCHANGED clientVars PROVE WireTypes'
  <2>1. << >> \in Seq(Clients)
    OBVIOUS
  <2> QED
    BY <1>4, <2>1 DEF stopJoined, CloseAll
<1>5. ASSUME serverLoop, UNCHANGED clientVars PROVE WireTypes'
  BY <1>5 DEF serverLoop
<1>6. ASSUME epollWait, UNCHANGED clientVars PROVE WireTypes'
  BY <1>6 DEF epollWait
<1>7. ASSUME nextEvent, UNCHANGED clientVars PROVE WireTypes'
  BY <1>7 DEF nextEvent
<1>8. ASSUME handleNewConnection, UNCHANGED clientVars PROVE WireTypes'
  <2>1. CASE backlog = << >>
    BY <1>8, <2>1 DEF handleNewConnection
  <2>2. CASE backlog # << >>
    <3>1. Head(backlog) \in Clients /\ Tail(backlog) \in Seq(Clients)
      BY <2>2, HeadTailProperties
    <3> QED
      BY <1>8, <2>2, <3>1 DEF handleNewConnection, acceptConnection, addClientToEpoll
  <2> QED
    BY <2>1, <2>2
<1>9. ASSUME acceptFails, UNCHANGED clientVars PROVE WireTypes'
  BY <1>9 DEF acceptFails
<1>10. ASSUME addClientToEpollFails, UNCHANGED clientVars PROVE WireTypes'
  <2>1. Tail(backlog) \in Seq(Clients)
    BY <1>10, HeadTailProperties DEF addClientToEpollFails
  <2> QED
    BY <1>10, <2>1 DEF addClientToEpollFails, acceptConnection
<1>11. ASSUME readChunk, UNCHANGED clientVars PROVE WireTypes'
  <2> DEFINE n == Min({Len(rcv[Current]), ReadSize})
  <2>1. Current \in Clients
    BY <1>11 DEF readChunk
  <2>2. rcv[Current] \in Seq(Byte) /\ ReadSize \in Nat
    BY <2>1, ServerAssumption
  <2>3. Drop(rcv[Current], n) \in Seq(Byte)
    BY <2>2, Transfer
  <2>4. /\ rcv' = [rcv EXCEPT ![Current] = Drop(@, n)]
        /\ UNCHANGED << conn, net, snd, reset, listening, backlog >>
        /\ UNCHANGED << shut, interest, ready >> \/ removeClient(Current)
    BY <1>11 DEF readChunk, disconnectClient
  <2> HIDE DEF n
  <2> QED
    BY <2>1, <2>3, <2>4 DEF removeClient
<1>12. ASSUME readEnd, UNCHANGED clientVars PROVE WireTypes'
  BY <1>12 DEF readEnd, removeClient
<1>13. ASSUME readAgain, UNCHANGED clientVars PROVE WireTypes'
  BY <1>13 DEF readAgain
<1>14. ASSUME readErased, UNCHANGED clientVars PROVE WireTypes'
  <2>1. << >> \in Seq(Clients)
    OBVIOUS
  <2> QED
    BY <1>14, <2>1 DEF readErased, Crash, CloseAll
<1>15. ASSUME hangUp, UNCHANGED clientVars PROVE WireTypes'
  BY <1>15 DEF hangUp, removeClient
<1>16. ASSUME writeSome, UNCHANGED clientVars PROVE WireTypes'
  <2>1. Current \in Clients /\ UNCHANGED << net, rcv >>
    BY <1>16 DEF writeSome
  <2>2. CASE conn[Current] = "up"
    <3> DEFINE room == SendBuffer - Len(snd[Current])
               n == Min({Len(sending), room})
    <3>1. /\ Len(snd[Current]) < SendBuffer
          /\ snd' = [snd EXCEPT ![Current] = @ \o SubSeq(sending, 1, n)]
          /\ UNCHANGED << conn, shut, reset, listening, backlog, interest, ready >>
      BY <1>16, <2>2 DEF writeSome
    <3>2. snd[Current] \in Seq(Byte) /\ Len(snd[Current]) \in Nat /\ sending \in Seq(Byte)
      BY <2>1, LenProperties
    <3>4. room \in Nat
      BY <3>1, <3>2, WireAssumption
    <3> HIDE DEF room
    <3>5. SubSeq(sending, 1, n) \in Seq(Byte)
      BY <3>2, <3>4, Transfer
    <3> HIDE DEF n
    <3>3. snd[Current] \o SubSeq(sending, 1, n) \in Seq(Byte)
      BY <3>2, <3>5, ConcatProperties
    <3> HIDE DEF n
    <3> QED
      BY <2>1, <3>1, <3>3
  <2>3. CASE conn[Current] # "up"
    <3>1. "rst" \in ConnStates /\ "resetting" \in ConnStates
      BY DEF ConnStates
    <3> QED
      BY <1>16, <2>1, <2>3, <3>1 DEF writeSome, Raise
  <2> QED
    BY <2>2, <2>3
<1>17. ASSUME writeSignal, UNCHANGED clientVars PROVE WireTypes'
  <2>1. << >> \in Seq(Clients)
    OBVIOUS
  <2> QED
    BY <1>17, <2>1 DEF writeSignal, Crash, CloseAll
<1>18. ASSUME NEW c \in Clients, construct(c), UNCHANGED serverVars PROVE WireTypes'
  <2>1. Append(backlog, c) \in Seq(Clients)
    OBVIOUS
  <2>2. "up" \in ConnStates /\ "refused" \in ConnStates
    BY DEF ConnStates
  <2> QED
    BY <1>18, <2>1, <2>2 DEF construct
<1>19. ASSUME NEW c \in Clients, login(c), UNCHANGED serverVars PROVE WireTypes'
  <2> DEFINE k == IF c \in Impostors THEN BadCredentials ELSE GoodCredentials
  <2>1. LoginRequest(k) \in Seq(Byte)
    BY AsksPackets
  <2>2. net[c] \o LoginRequest(k) \in Seq(Byte)
    BY <2>1, ConcatProperties
  <2> HIDE DEF k
  <2>3. Write(c, LoginRequest(k)) /\ UNCHANGED << conn, rcv, snd, shut, reset, listening, backlog, interest, ready >>
    BY <1>19 DEF login, k
  <2> QED
    BY <2>2, <2>3 DEF Write
<1>20. ASSUME NEW c \in Clients, logout(c), UNCHANGED serverVars PROVE WireTypes'
  <2>1. net[c] \o LogoutRequest \in Seq(Byte)
    BY AsksPackets, ConcatProperties
  <2> QED
    BY <1>20, <2>1 DEF logout, Write
<1>21. ASSUME NEW c \in Clients, kill(c), UNCHANGED serverVars PROVE WireTypes'
  <2>1. "closing" \in ConnStates /\ "rst" \in ConnStates /\ << >> \in Seq(Byte)
    BY DEF ConnStates
  <2> QED
    <3>1. CASE conn' = [conn EXCEPT ![c] = IF @ = "up" THEN "closing" ELSE @] /\ UNCHANGED << net, ready >>
      BY <1>21, <2>1, <3>1 DEF kill
    <3>2. CASE conn' = [conn EXCEPT ![c] = "rst"] /\ net' = [net EXCEPT ![c] = << >>] /\ Raise(c)
      BY <1>21, <2>1, <3>2 DEF kill, Raise
    <3> QED
      BY <1>21, <3>1, <3>2 DEF kill
<1>22. ASSUME NEW c \in Clients, readFromSocket(c), UNCHANGED serverVars PROVE WireTypes'
  <2> DEFINE room == BufferSize - Len(m_buffer[c])
             n == Min({Len(snd[c]), room})
  <2>1. snd[c] \in Seq(Byte) /\ Len(m_buffer[c]) \in Nat /\ Len(m_buffer[c]) < BufferSize
    BY <1>22, LenProperties DEF readFromSocket
  <2>3. /\ snd' = [snd EXCEPT ![c] = Drop(@, n)]
        /\ UNCHANGED << conn, net, rcv, shut, reset, listening, backlog, interest, ready >>
    BY <1>22 DEF readFromSocket
  <2>4. room \in Nat
    BY <2>1, ClientAssumption
  <2> HIDE DEF room
  <2>2. Drop(snd[c], n) \in Seq(Byte)
    BY <2>1, <2>4, Transfer
  <2> HIDE DEF n
  <2> QED
    BY <2>2, <2>3
<1>23. ASSUME NEW c \in Clients, readFails(c), UNCHANGED serverVars PROVE WireTypes'
  BY <1>23 DEF readFails
<1>24. ASSUME NEW c \in Clients, processMessage(c), UNCHANGED serverVars PROVE WireTypes'
  <2>1. net[c] \o EnterOrder \in Seq(Byte)
    BY AsksPackets, ConcatProperties
  <2> QED
    BY <1>24, <2>1 DEF processMessage, Write
<1>25. ASSUME NEW c \in Clients, processEnd(c), UNCHANGED serverVars PROVE WireTypes'
  BY <1>25 DEF processEnd
<1>26. ASSUME NEW c \in Clients, joined(c), UNCHANGED serverVars PROVE WireTypes'
  <2>1. "closing" \in ConnStates
    BY DEF ConnStates
  <2> QED
    BY <1>26, <2>1 DEF joined
<1>27. ASSUME NEW c \in Clients, Arrive(c), UNCHANGED << serverVars, clientVars >> PROVE WireTypes'
  <2>1. PICK n \in {Len(net[c])} \cup {k \in Cuts[c] : k < Len(net[c])} :
            /\ rcv' = [rcv EXCEPT ![c] = @ \o SubSeq(net[c], 1, n)]
            /\ net' = [net EXCEPT ![c] = Drop(@, n)]
    BY <1>27 DEF Arrive
  <2>2. n \in 0 .. Len(net[c])
    BY LenProperties, WireAssumption
  <2>3. rcv[c] \o SubSeq(net[c], 1, n) \in Seq(Byte) /\ Drop(net[c], n) \in Seq(Byte)
    BY <2>2, CutInTwo, ConcatProperties
  <2> QED
    BY <1>27, <2>1, <2>3 DEF Arrive, Raise
<1>28. ASSUME NEW c \in Clients, Bounce(c), UNCHANGED << serverVars, clientVars >> PROVE WireTypes'
  <2>1. << >> \in Seq(Byte)
    OBVIOUS
  <2> QED
    BY <1>28, <2>1 DEF Bounce
<1>29. ASSUME NEW c \in Clients, FinArrives(c), UNCHANGED << serverVars, clientVars >> PROVE WireTypes'
  <2>1. "fin" \in ConnStates /\ "rst" \in ConnStates
    BY DEF ConnStates
  <2> QED
    BY <1>29, <2>1 DEF FinArrives, Raise
<1> QED
BY <1>1, <1>2, <1>3, <1>4, <1>5, <1>6, <1>7, <1>8, <1>9, <1>10, <1>11, <1>12, <1>13, <1>14, <1>15,
     <1>16, <1>17, <1>18, <1>19, <1>20, <1>21, <1>22, <1>23, <1>24, <1>25, <1>26, <1>27, <1>28,
     <1>29 DEF Next, Owner, Server, Client, Transport, ServerThread, ReaderThread, Network

\* The event the loop is at.
LEMMA EventAtHand ==
    ASSUME Types, events # << >>
    PROVE  /\ Head(events) \in Event /\ Tail(events) \in Seq(Event)
           /\ Current \in Clients \cup {Listener}
<1>1. Head(events) \in Event /\ Tail(events) \in Seq(Event)
  BY HeadTailProperties DEF Types, ServerTypes
<1> QED
  BY <1>1 DEF Current, Event

\* The server is done reading: the event stays at hand when its hangup comes next.
LEMMA EndOfDataKeeps ==
    ASSUME Types, events # << >>, Current \in Clients, EndOfData
    PROVE  /\ events' \in Seq(Event) /\ pc' \in {"hangup", "event"}
           /\ pc' = "hangup" => events' # << >> /\ Current' \in Clients
BY EventAtHand DEF EndOfData, Current, Types, ServerTypes

\* What epoll_wait reports are events.
LEMMA BatchOfEvents ==
    ASSUME Types, NEW batch \in SUBSET ready, NEW s \in SetToSeqs(batch), NEW es,
           es = [i \in 1 .. Len(s) |-> [who |-> s[i], hup |-> s[i] # Listener /\ conn[s[i]] = "rst"]]
    PROVE  /\ es \in Seq(Event) /\ Len(es) = Len(s) /\ Len(s) \in Nat
           /\ \A i \in 1 .. Len(s) : es[i].who = s[i]
           /\ \A w \in batch : \E i \in 1 .. Len(s) : s[i] = w
<1> DEFINE n == Cardinality(batch)
<1>1. IsFiniteSet(batch) /\ n \in Nat
  <2>1. IsFiniteSet(Clients \cup {Listener})
    BY WireAssumption, FS_AddElement
  <2>2. batch \in SUBSET (Clients \cup {Listener})
    BY DEF Types, WireTypes
  <2> QED
    BY <2>1, <2>2, FS_Subset, FS_CardinalityType
<1>2. s \in [1 .. n -> batch] /\ \A i, j \in 1 .. n : i # j => s[i] # s[j]
  BY DEF SetToSeqs
<1> HIDE DEF n
<1>3. s \in Seq(batch) /\ Len(s) = n
  BY <1>1, <1>2
<1>4. \A i \in 1 .. n : s[i] \in Clients \cup {Listener}
  BY <1>2 DEF Types, WireTypes
<1>5. es \in [1 .. n -> Event]
  BY <1>3, <1>4 DEF Event
<1>6. es \in Seq(Event) /\ Len(es) = n
  BY <1>1, <1>5
<1>7. s \in Injection(1 .. n, batch)
  BY <1>2 DEF Injection, IsInjective
<1>8. Cardinality(1 .. n) = n
  BY <1>1, FS_Interval
<1>9. s \in Surjection(1 .. n, batch)
  BY <1>1, <1>7, <1>8, FS_Injection DEF n
<1>10. \A w \in batch : \E i \in 1 .. n : s[i] = w
  BY <1>9 DEF Surjection
<1> QED
  BY <1>1, <1>3, <1>6, <1>10

\* The server keeps its types.
LEMMA ServerTypesStep ==
    ASSUME Types, Next
    PROVE  ServerTypes'
<1> USE DEF Types, WireTypes, ServerTypes, ClientTypes, Current, vars, wireVars, streamVars, serverVars, threadVars, clientVars, readerVars
<1>1. ASSUME startThrows, UNCHANGED clientVars PROVE ServerTypes'
  BY <1>1 DEF startThrows
<1>2. ASSUME start, UNCHANGED clientVars PROVE ServerTypes'
  BY <1>2 DEF start
<1>3. ASSUME stop, UNCHANGED clientVars PROVE ServerTypes'
  BY <1>3 DEF stop
<1>4. ASSUME stopJoined, UNCHANGED clientVars PROVE ServerTypes'
  BY <1>4 DEF stopJoined, CloseAll
<1>5. ASSUME serverLoop, UNCHANGED clientVars PROVE ServerTypes'
  BY <1>5 DEF serverLoop, testRunning
<1>6. ASSUME epollWait, UNCHANGED clientVars PROVE ServerTypes'
  <2>0. PICK batch \in SUBSET ready : \E s \in SetToSeqs(batch) :
            events' = [i \in 1 .. Len(s) |-> [who |-> s[i], hup |-> s[i] # Listener /\ conn[s[i]] = "rst"]]
    BY <1>6 DEF epollWait
  <2>1. PICK s \in SetToSeqs(batch) :
            events' = [i \in 1 .. Len(s) |-> [who |-> s[i], hup |-> s[i] # Listener /\ conn[s[i]] = "rst"]]
    BY <2>0
  <2>2. events' \in Seq(Event)
    <3> HIDE DEF Types
    <3>1. Types
      OBVIOUS
    <3> QED
      BY <2>1, <3>1, BatchOfEvents, Zenon
  <2> QED
    BY <1>6, <2>2 DEF epollWait
<1>7. ASSUME nextEvent, UNCHANGED clientVars PROVE ServerTypes'
  <2>1. CASE events = << >>
    BY <1>7, <2>1 DEF nextEvent, testRunning
  <2>2. CASE events # << >> /\ Current = Listener
    BY <1>7, <2>2 DEF nextEvent
  <2>3. CASE events # << >> /\ Current # Listener
    <3>1. Current \in Clients
      BY <2>3, EventAtHand
    <3>2. CASE Current \in m_clients
      BY <1>7, <2>3, <3>1, <3>2 DEF nextEvent
    <3>3. CASE Current \notin m_clients
      <4>1. EndOfData
        BY <1>7, <2>3, <3>3 DEF nextEvent
      <4>2. /\ events' \in Seq(Event) /\ pc' \in {"hangup", "event"}
            /\ pc' = "hangup" => events' # << >> /\ Current' \in Clients
        BY <2>3, <3>1, <4>1, EndOfDataKeeps
      <4> QED
        BY <1>7, <4>2 DEF nextEvent
    <3> QED
      BY <3>2, <3>3
  <2> QED
    BY <2>1, <2>2, <2>3
<1>8. ASSUME handleNewConnection, UNCHANGED clientVars PROVE ServerTypes'
  <2>1. Tail(events) \in Seq(Event)
    BY <1>8, EventAtHand DEF handleNewConnection
  <2>2. CASE backlog = << >>
    BY <1>8, <2>1, <2>2 DEF handleNewConnection
  <2>3. CASE backlog # << >>
    <3>1. Head(backlog) \in Clients
      BY <2>3, HeadTailProperties
    <3> QED
      BY <1>8, <2>3, <3>1 DEF handleNewConnection
  <2> QED
    BY <2>2, <2>3
<1>9. ASSUME acceptFails, UNCHANGED clientVars PROVE ServerTypes'
  <2>1. Tail(events) \in Seq(Event)
    BY <1>9, EventAtHand DEF acceptFails
  <2> QED
    BY <1>9, <2>1 DEF acceptFails, Fails
<1>10. ASSUME addClientToEpollFails, UNCHANGED clientVars PROVE ServerTypes'
  <2>1. Head(backlog) \in Clients
    BY <1>10, HeadTailProperties DEF addClientToEpollFails
  <2> QED
    BY <1>10, <2>1 DEF addClientToEpollFails, Fails
<1>11. ASSUME readChunk, UNCHANGED clientVars PROVE ServerTypes'
  <2>1. /\ pc = "read" /\ Current \in m_clients
        /\ UNCHANGED << m_running, owner, events, fault >>
        /\ \/ UNCHANGED << m_clients, pc, sending >>
           \/ pc' = "write" /\ sending' = LoginAccepted /\ UNCHANGED m_clients
           \/ m_clients' = m_clients \ {Current} /\ UNCHANGED << pc, sending >>
    BY <1>11 DEF readChunk, sendToClient, disconnectClient, removeClient
  <2>2. LoginAccepted \in Seq(Byte)
    BY Packets DEF Byte, TypeLoginAccepted
  <2> QED
    BY <2>1, <2>2
<1>12. ASSUME readEnd, UNCHANGED clientVars PROVE ServerTypes'
  <2>1. events # << >> /\ Current \in Clients /\ EndOfData
    BY <1>12 DEF readEnd
  <2>2. /\ events' \in Seq(Event) /\ pc' \in {"hangup", "event"}
        /\ pc' = "hangup" => events' # << >> /\ Current' \in Clients
    BY <2>1, EndOfDataKeeps
  <2> QED
    BY <1>12, <2>2 DEF readEnd, removeClient
<1>13. ASSUME readAgain, UNCHANGED clientVars PROVE ServerTypes'
  <2>1. events # << >> /\ Current \in Clients /\ EndOfData
    BY <1>13 DEF readAgain
  <2>2. /\ events' \in Seq(Event) /\ pc' \in {"hangup", "event"}
        /\ pc' = "hangup" => events' # << >> /\ Current' \in Clients
    BY <2>1, EndOfDataKeeps
  <2> QED
    BY <1>13, <2>2 DEF readAgain
<1>14. ASSUME readErased, UNCHANGED clientVars PROVE ServerTypes'
  <2>1. CASE Crash
    <3>1. << >> \in Seq(Event) /\ << >> \in Seq(Byte)
      OBVIOUS
    <3> QED
      BY <2>1, <3>1 DEF Crash, CloseAll
  <2>2. CASE EndOfData /\ UNCHANGED << m_running, m_clients, owner, sending, wireVars, fault >>
    <3>1. events # << >> /\ Current \in Clients
      BY <1>14 DEF readErased
    <3>2. /\ events' \in Seq(Event) /\ pc' \in {"hangup", "event"}
          /\ pc' = "hangup" => events' # << >> /\ Current' \in Clients
      BY <2>2, <3>1, EndOfDataKeeps
    <3> QED
      BY <1>14, <2>2, <3>2 DEF readErased
  <2> QED
    BY <1>14, <2>1, <2>2 DEF readErased
<1>15. ASSUME hangUp, UNCHANGED clientVars PROVE ServerTypes'
  <2>1. Tail(events) \in Seq(Event)
    BY <1>15, EventAtHand DEF hangUp
  <2> QED
    BY <1>15, <2>1 DEF hangUp, removeClient
<1>16. ASSUME writeSome, UNCHANGED clientVars PROVE ServerTypes'
  <2>1. Current \in Clients /\ UNCHANGED << m_running, m_clients, owner, events, fault >> /\ pc' \in {"read", "write"}
    BY <1>16 DEF writeSome
  <2>2. sending' \in Seq(Byte)
    <3>1. CASE conn[Current] = "up"
      <4> DEFINE room == SendBuffer - Len(snd[Current])
                 n == Min({Len(sending), room})
      <4>1. Len(snd[Current]) < SendBuffer /\ sending' = Drop(sending, n)
        BY <1>16, <3>1 DEF writeSome
      <4>2. Len(snd[Current]) \in Nat
        BY <2>1, LenProperties
      <4>3. room \in Nat
        BY <4>1, <4>2, WireAssumption
      <4> HIDE DEF room
      <4> QED
        BY <4>1, <4>3, Transfer
    <3>2. CASE conn[Current] # "up"
      <4>1. << >> \in Seq(Byte)
        OBVIOUS
      <4> QED
        BY <1>16, <3>2, <4>1 DEF writeSome
    <3> QED
      BY <3>1, <3>2
  <2> QED
    BY <1>16, <2>1, <2>2 DEF writeSome
<1>17. ASSUME writeSignal, UNCHANGED clientVars PROVE ServerTypes'
  <2>1. << >> \in Seq(Event) /\ << >> \in Seq(Byte)
    OBVIOUS
  <2> QED
    BY <1>17, <2>1 DEF writeSignal, Crash, CloseAll
<1>18. ASSUME NEW c \in Clients, construct(c), UNCHANGED serverVars PROVE ServerTypes'
  BY <1>18
<1>19. ASSUME NEW c \in Clients, login(c), UNCHANGED serverVars PROVE ServerTypes'
  BY <1>19
<1>20. ASSUME NEW c \in Clients, logout(c), UNCHANGED serverVars PROVE ServerTypes'
  BY <1>20
<1>21. ASSUME NEW c \in Clients, kill(c), UNCHANGED serverVars PROVE ServerTypes'
  BY <1>21
<1>22. ASSUME NEW c \in Clients, readFromSocket(c), UNCHANGED serverVars PROVE ServerTypes'
  BY <1>22
<1>23. ASSUME NEW c \in Clients, readFails(c), UNCHANGED serverVars PROVE ServerTypes'
  BY <1>23
<1>24. ASSUME NEW c \in Clients, processMessage(c), UNCHANGED serverVars PROVE ServerTypes'
  BY <1>24
<1>25. ASSUME NEW c \in Clients, processEnd(c), UNCHANGED serverVars PROVE ServerTypes'
  BY <1>25
<1>26. ASSUME NEW c \in Clients, joined(c), UNCHANGED serverVars PROVE ServerTypes'
  BY <1>26
<1>27. ASSUME NEW c \in Clients, Arrive(c), UNCHANGED << serverVars, clientVars >> PROVE ServerTypes'
  BY <1>27
<1>28. ASSUME NEW c \in Clients, Bounce(c), UNCHANGED << serverVars, clientVars >> PROVE ServerTypes'
  BY <1>28
<1>29. ASSUME NEW c \in Clients, FinArrives(c), UNCHANGED << serverVars, clientVars >> PROVE ServerTypes'
  BY <1>29
<1> QED
BY <1>1, <1>2, <1>3, <1>4, <1>5, <1>6, <1>7, <1>8, <1>9, <1>10, <1>11, <1>12, <1>13, <1>14, <1>15,
     <1>16, <1>17, <1>18, <1>19, <1>20, <1>21, <1>22, <1>23, <1>24, <1>25, <1>26, <1>27, <1>28,
     <1>29 DEF Next, Owner, Server, Client, Transport, ServerThread, ReaderThread, Network

\* What processBuffer has not looked at yet.
LEMMA RestType ==
    ASSUME Types, NEW c \in Clients
    PROVE  /\ Rest(c) \in Seq(Byte) /\ Len(Rest(c)) = Len(m_buffer[c]) - offset[c]
           /\ Len(Rest(c)) \in Nat /\ Len(Rest(c)) <= BufferSize
<1>1. m_buffer[c] \in Seq(Byte) /\ offset[c] \in 0 .. Len(m_buffer[c]) /\ Len(m_buffer[c]) \in Nat
  BY LenProperties DEF Types, ClientTypes
<1>2. Rest(c) \in Seq(Byte) /\ Len(Rest(c)) = Len(m_buffer[c]) - offset[c]
  BY <1>1, CutInTwo DEF Rest
<1> QED
  BY <1>1, <1>2, ClientAssumption DEF Types, ClientTypes

\* A complete message lies within the buffer.
LEMMA MessageFits ==
    ASSUME Types, NEW c \in Clients, Complete(Rest(c)),
           NEW message, message = SubSeq(Rest(c), 1, HeaderSize + PacketLength(Rest(c)))
    PROVE  /\ message \in Seq(Byte) /\ Len(message) \in Nat
           /\ offset[c] + Len(message) <= Len(m_buffer[c])
<1> DEFINE r == Rest(c)
           n == HeaderSize + PacketLength(r)
<1>1. r \in Seq(Byte) /\ Len(r) = Len(m_buffer[c]) - offset[c] /\ Len(r) \in Nat
  BY RestType
<1>2. Len(r) >= 2 /\ Len(r) >= n
  BY DEF Complete, HeaderSize
<1>3. r[1] \in Byte /\ r[2] \in Byte
  BY <1>1, <1>2
<1> HIDE DEF r
<1>4. n \in Nat
  <2>1. r[1] \in Nat /\ r[2] \in Nat
    BY ONLY <1>3 DEF Byte
  <2> QED
    BY <2>1 DEF PacketLength, HeaderSize
<1> HIDE DEF n
<1>5. n \in 0 .. Len(r)
  BY <1>1, <1>2, <1>4
<1>6. SubSeq(r, 1, n) \in Seq(Byte) /\ Len(SubSeq(r, 1, n)) = n
  BY <1>1, <1>5, CutInTwo
<1>7. message = SubSeq(r, 1, n)
  BY DEF r, n
<1>8. m_buffer[c] \in Seq(Byte) /\ Len(m_buffer[c]) \in Nat /\ offset[c] \in Nat
  BY LenProperties DEF Types, ClientTypes
<1>9. offset[c] + n <= Len(m_buffer[c])
  BY <1>1, <1>2, <1>4, <1>8
<1> QED
  BY <1>4, <1>6, <1>7, <1>9

\* The clients keep their types.
LEMMA ClientTypesStep ==
    ASSUME Types, Next
    PROVE  ClientTypes'
<1> USE DEF Types, WireTypes, ServerTypes, ClientTypes, vars, wireVars, streamVars, serverVars, threadVars, clientVars, readerVars
<1>1. ASSUME startThrows, UNCHANGED clientVars PROVE ClientTypes'
  BY <1>1
<1>2. ASSUME start, UNCHANGED clientVars PROVE ClientTypes'
  BY <1>2
<1>3. ASSUME stop, UNCHANGED clientVars PROVE ClientTypes'
  BY <1>3
<1>4. ASSUME stopJoined, UNCHANGED clientVars PROVE ClientTypes'
  BY <1>4
<1>5. ASSUME serverLoop, UNCHANGED clientVars PROVE ClientTypes'
  BY <1>5
<1>6. ASSUME epollWait, UNCHANGED clientVars PROVE ClientTypes'
  BY <1>6
<1>7. ASSUME nextEvent, UNCHANGED clientVars PROVE ClientTypes'
  BY <1>7
<1>8. ASSUME handleNewConnection, UNCHANGED clientVars PROVE ClientTypes'
  BY <1>8
<1>9. ASSUME acceptFails, UNCHANGED clientVars PROVE ClientTypes'
  BY <1>9
<1>10. ASSUME addClientToEpollFails, UNCHANGED clientVars PROVE ClientTypes'
  BY <1>10
<1>11. ASSUME readChunk, UNCHANGED clientVars PROVE ClientTypes'
  BY <1>11
<1>12. ASSUME readEnd, UNCHANGED clientVars PROVE ClientTypes'
  BY <1>12
<1>13. ASSUME readAgain, UNCHANGED clientVars PROVE ClientTypes'
  BY <1>13
<1>14. ASSUME readErased, UNCHANGED clientVars PROVE ClientTypes'
  BY <1>14
<1>15. ASSUME hangUp, UNCHANGED clientVars PROVE ClientTypes'
  BY <1>15
<1>16. ASSUME writeSome, UNCHANGED clientVars PROVE ClientTypes'
  BY <1>16
<1>17. ASSUME writeSignal, UNCHANGED clientVars PROVE ClientTypes'
  BY <1>17
<1>18. ASSUME NEW c \in Clients, construct(c), UNCHANGED serverVars PROVE ClientTypes'
  BY <1>18 DEF construct
<1>19. ASSUME NEW c \in Clients, login(c), UNCHANGED serverVars PROVE ClientTypes'
  <2>1. logins' = [logins EXCEPT ![c] = @ + 1] /\ UNCHANGED << main, reader, m_buffer, offset, handled >>
    BY <1>19 DEF login
  <2>2. logins[c] + 1 \in Nat
    OBVIOUS
  <2> QED
    BY <2>1, <2>2
<1>20. ASSUME NEW c \in Clients, logout(c), UNCHANGED serverVars PROVE ClientTypes'
  BY <1>20 DEF logout
<1>21. ASSUME NEW c \in Clients, kill(c), UNCHANGED serverVars PROVE ClientTypes'
  BY <1>21 DEF kill
<1>22. ASSUME NEW c \in Clients, readFromSocket(c), UNCHANGED serverVars PROVE ClientTypes'
  <2> DEFINE room == BufferSize - Len(m_buffer[c])
             n == Min({Len(snd[c]), room})
  <2>1. /\ snd[c] \in Seq(Byte) /\ m_buffer[c] \in Seq(Byte)
        /\ Len(m_buffer[c]) \in Nat /\ Len(m_buffer[c]) < BufferSize
    BY <1>22, LenProperties DEF readFromSocket
  <2>2. /\ m_buffer' = [m_buffer EXCEPT ![c] = @ \o SubSeq(snd[c], 1, n)]
        /\ reader' = [reader EXCEPT ![c] = "process"] /\ UNCHANGED << main, offset, handled, logins >>
    BY <1>22 DEF readFromSocket
  <2>3. room \in Nat /\ Len(m_buffer[c]) + room = BufferSize
    BY <2>1, ClientAssumption
  <2> HIDE DEF room
  <2>4. SubSeq(snd[c], 1, n) \in Seq(Byte) /\ Len(SubSeq(snd[c], 1, n)) = n /\ n \in Nat /\ n <= room
    <3> HIDE DEF Types, WireTypes, ServerTypes, ClientTypes
    <3> QED
      BY <2>1, <2>3, Transfer
  <2> HIDE DEF n
  <2>5. /\ m_buffer[c] \o SubSeq(snd[c], 1, n) \in Seq(Byte)
        /\ Len(m_buffer[c] \o SubSeq(snd[c], 1, n)) = Len(m_buffer[c]) + n
    BY <2>1, <2>4, ConcatProperties
  <2>6. m_buffer' \in [Clients -> Seq(Byte)] /\ reader' \in [Clients -> {"none", "read", "process", "ended"}]
    BY <2>2, <2>5
  <2>7. ASSUME NEW d \in Clients PROVE Len(m_buffer'[d]) <= BufferSize /\ offset[d] <= Len(m_buffer'[d])
    <3>1. CASE d = c
      <4>1. Len(m_buffer'[d]) = Len(m_buffer[c]) + n
        BY <2>2, <2>5, <3>1
      <4>2. Len(m_buffer[c]) + n <= BufferSize /\ offset[d] <= Len(m_buffer[c]) + n
        BY <2>1, <2>3, <2>4, <3>1, ClientAssumption
      <4> QED
        BY <4>1, <4>2
    <3>2. CASE d # c
      BY <2>2, <3>2
    <3> QED
      BY <3>1, <3>2
  <2> QED
    BY <2>2, <2>6, <2>7
<1>23. ASSUME NEW c \in Clients, readFails(c), UNCHANGED serverVars PROVE ClientTypes'
  BY <1>23 DEF readFails
<1>24. ASSUME NEW c \in Clients, processMessage(c), UNCHANGED serverVars PROVE ClientTypes'
  <2> DEFINE message == SubSeq(Rest(c), 1, HeaderSize + PacketLength(Rest(c)))
  <2>1. /\ handled' = [handled EXCEPT ![c] = Append(@, message)]
        /\ offset' = [offset EXCEPT ![c] = @ + Len(message)]
        /\ UNCHANGED << main, reader, m_buffer, logins >>
    BY <1>24 DEF processMessage
  <2>2. message \in Seq(Byte) /\ Len(message) \in Nat /\ offset[c] + Len(message) <= Len(m_buffer[c])
    BY <1>24, MessageFits DEF processMessage
  <2> HIDE DEF message
  <2>3. handled' \in [Clients -> Seq(Seq(Byte))] /\ offset' \in [Clients -> Nat]
    <3>1. Append(handled[c], message) \in Seq(Seq(Byte))
      BY <2>2
    <3>2. offset[c] + Len(message) \in Nat
      BY <2>2
    <3> QED
      BY <2>1, <3>1, <3>2
  <2>4. \A d \in Clients : Len(m_buffer[d]) <= BufferSize /\ offset'[d] <= Len(m_buffer[d])
    BY <2>1, <2>2
  <2> QED
    BY <2>1, <2>3, <2>4
<1>25. ASSUME NEW c \in Clients, processEnd(c), UNCHANGED serverVars PROVE ClientTypes'
  <2>1. Rest(c) \in Seq(Byte) /\ Len(Rest(c)) \in Nat /\ Len(Rest(c)) <= BufferSize
    BY RestType
  <2> HIDE DEF Types, ServerTypes, WireTypes
  <2>2. /\ m_buffer' = [m_buffer EXCEPT ![c] = Rest(c)] /\ offset' = [offset EXCEPT ![c] = 0]
        /\ reader' = [reader EXCEPT ![c] = "read"] /\ UNCHANGED << main, handled, logins >>
    BY <1>25 DEF processEnd
  <2>3. m_buffer' \in [Clients -> Seq(Byte)] /\ offset' \in [Clients -> Nat]
        /\ reader' \in [Clients -> {"none", "read", "process", "ended"}]
    BY <2>1, <2>2 DEF Types
  <2>4. ASSUME NEW d \in Clients PROVE Len(m_buffer'[d]) <= BufferSize /\ offset'[d] <= Len(m_buffer'[d])
    BY <2>1, <2>2 DEF Types
  <2> QED
    BY <2>2, <2>3, <2>4 DEF Types
<1>26. ASSUME NEW c \in Clients, joined(c), UNCHANGED serverVars PROVE ClientTypes'
  BY <1>26 DEF joined
<1>27. ASSUME NEW c \in Clients, Arrive(c), UNCHANGED << serverVars, clientVars >> PROVE ClientTypes'
  BY <1>27
<1>28. ASSUME NEW c \in Clients, Bounce(c), UNCHANGED << serverVars, clientVars >> PROVE ClientTypes'
  BY <1>28
<1>29. ASSUME NEW c \in Clients, FinArrives(c), UNCHANGED << serverVars, clientVars >> PROVE ClientTypes'
  BY <1>29
<1> QED
BY <1>1, <1>2, <1>3, <1>4, <1>5, <1>6, <1>7, <1>8, <1>9, <1>10, <1>11, <1>12, <1>13, <1>14, <1>15,
     <1>16, <1>17, <1>18, <1>19, <1>20, <1>21, <1>22, <1>23, <1>24, <1>25, <1>26, <1>27, <1>28,
     <1>29 DEF Next, Owner, Server, Client, Transport, ServerThread, ReaderThread, Network

----------------------------------------------------------------------------
(* No wakeup is lost. *)

\* The connections left when the first one has been accepted.
LEMMA BacklogTail ==
    ASSUME Types, Registered, backlog # << >>
    PROVE  /\ Head(backlog) \in Clients /\ Head(backlog) \notin m_clients /\ main[Head(backlog)] # "new"
           /\ Len(Tail(backlog)) \in Nat
           /\ \A i \in 1 .. Len(Tail(backlog)) :
                  /\ Tail(backlog)[i] # Head(backlog)
                  /\ Tail(backlog)[i] \notin m_clients /\ main[Tail(backlog)[i]] # "new"
           /\ \A i, j \in 1 .. Len(Tail(backlog)) : i # j => Tail(backlog)[i] # Tail(backlog)[j]
<1>1. backlog \in Seq(Clients) /\ Len(backlog) \in Nat \ {0}
  BY EmptySeq DEF Types, WireTypes
<1>2. /\ Head(backlog) = backlog[1] /\ Len(Tail(backlog)) = Len(backlog) - 1
      /\ \A i \in 1 .. Len(Tail(backlog)) : Tail(backlog)[i] = backlog[i + 1]
  BY <1>1, HeadTailProperties
<1>3. \A i \in 1 .. Len(Tail(backlog)) : i + 1 \in 1 .. Len(backlog) /\ i + 1 # 1
  BY <1>1, <1>2
<1>4. 1 \in 1 .. Len(backlog) /\ backlog[1] \in Clients
  BY <1>1
<1>5. \A i, j \in 1 .. Len(Tail(backlog)) : i # j => i + 1 # j + 1
  BY <1>1, <1>2
<1>6. Len(Tail(backlog)) \in Nat
  BY <1>1, <1>2
<1> QED
  BY <1>2, <1>3, <1>4, <1>5, <1>6 DEF Registered

\* The interest list and the backlog.
LEMMA RegisteredStep ==
    ASSUME Types, Registered, Next
    PROVE  Registered'
<1> USE DEF Types, WireTypes, ServerTypes, ClientTypes, Registered, vars, wireVars, streamVars, serverVars, threadVars, clientVars, readerVars
<1>1. ASSUME startThrows, UNCHANGED clientVars PROVE Registered'
  BY <1>1 DEF startThrows
<1>2. ASSUME start, UNCHANGED clientVars PROVE Registered'
  BY <1>2 DEF start
<1>3. ASSUME stop, UNCHANGED clientVars PROVE Registered'
  BY <1>3 DEF stop
<1>4. ASSUME stopJoined, UNCHANGED clientVars PROVE Registered'
  <2>1. UNCHANGED main /\ m_clients' = {} /\ interest' = {} /\ backlog' = << >>
    BY <1>4 DEF stopJoined, CloseAll
  <2> QED
    BY <2>1
<1>5. ASSUME serverLoop, UNCHANGED clientVars PROVE Registered'
  BY <1>5 DEF serverLoop
<1>6. ASSUME epollWait, UNCHANGED clientVars PROVE Registered'
  BY <1>6 DEF epollWait
<1>7. ASSUME nextEvent, UNCHANGED clientVars PROVE Registered'
  BY <1>7 DEF nextEvent
<1>8. ASSUME handleNewConnection, UNCHANGED clientVars PROVE Registered'
  <2>1. CASE backlog = << >>
    BY <1>8, <2>1 DEF handleNewConnection
  <2>2. CASE backlog # << >>
    <3>1. /\ backlog' = Tail(backlog) /\ m_clients' = m_clients \cup {Head(backlog)}
          /\ interest' = interest \cup {Head(backlog)} /\ UNCHANGED << main, fault >>
      BY <1>8, <2>2 DEF handleNewConnection, acceptConnection, addClientToEpoll
    <3> QED
      BY <2>2, <3>1, BacklogTail
  <2> QED
    BY <2>1, <2>2
<1>9. ASSUME acceptFails, UNCHANGED clientVars PROVE Registered'
  BY <1>9 DEF acceptFails, Fails
<1>10. ASSUME addClientToEpollFails, UNCHANGED clientVars PROVE Registered'
  <2>1. /\ backlog # << >> /\ backlog' = Tail(backlog) /\ m_clients' = m_clients \cup {Head(backlog)}
        /\ fault' = "epoll_ctl" /\ UNCHANGED << main, interest >>
    BY <1>10 DEF addClientToEpollFails, acceptConnection, Fails
  <2> QED
    BY <2>1, BacklogTail
<1>11. ASSUME readChunk, UNCHANGED clientVars PROVE Registered'
  <2>1. /\ UNCHANGED << backlog, fault, main >>
        /\ \/ UNCHANGED << m_clients, interest >>
           \/ m_clients' = m_clients \ {Current} /\ interest' = interest \ {Current}
    BY <1>11 DEF readChunk, disconnectClient, removeClient
  <2> QED
    BY <2>1
<1>12. ASSUME readEnd, UNCHANGED clientVars PROVE Registered'
  <2>1. /\ UNCHANGED << backlog, fault, main >>
        /\ m_clients' = m_clients \ {Current} /\ interest' = interest \ {Current}
    BY <1>12 DEF readEnd, removeClient
  <2> QED
    BY <2>1
<1>13. ASSUME readAgain, UNCHANGED clientVars PROVE Registered'
  BY <1>13 DEF readAgain
<1>14. ASSUME readErased, UNCHANGED clientVars PROVE Registered'
  <2>1. CASE Crash
    <3>1. UNCHANGED main /\ m_clients' = {} /\ interest' = {} /\ backlog' = << >>
      BY <1>14, <2>1 DEF Crash, CloseAll
    <3> QED
      BY <3>1
  <2>2. CASE UNCHANGED << m_clients, wireVars, fault >>
    BY <1>14, <2>2
  <2> QED
    BY <1>14, <2>1, <2>2 DEF readErased
<1>15. ASSUME hangUp, UNCHANGED clientVars PROVE Registered'
  <2>1. /\ UNCHANGED << backlog, fault, main >>
        /\ m_clients' = m_clients \ {Current} /\ interest' = interest \ {Current}
    BY <1>15 DEF hangUp, removeClient
  <2> QED
    BY <2>1
<1>16. ASSUME writeSome, UNCHANGED clientVars PROVE Registered'
  BY <1>16 DEF writeSome
<1>17. ASSUME writeSignal, UNCHANGED clientVars PROVE Registered'
  <2>1. UNCHANGED main /\ m_clients' = {} /\ interest' = {} /\ backlog' = << >>
    BY <1>17 DEF writeSignal, Crash, CloseAll
  <2> QED
    BY <2>1
<1>18. ASSUME NEW c \in Clients, construct(c), UNCHANGED serverVars PROVE Registered'
  <2>1. /\ main[c] = "new" /\ main' = [main EXCEPT ![c] = "running"]
        /\ backlog' = IF listening THEN Append(backlog, c) ELSE backlog
        /\ UNCHANGED << m_clients, interest, fault >>
    BY <1>18 DEF construct
  <2>7. \A i \in 1 .. Len(backlog) : backlog[i] \in Clients
    BY ElementOfSeq
  <2>2. c \notin m_clients /\ \A i \in 1 .. Len(backlog) : backlog[i] # c /\ backlog[i] \in Clients
    BY <2>1, <2>7
  <2>3. \A d \in Clients : main[d] # "new" => main'[d] # "new"
    BY <2>1
  <2>4. main'[c] # "new"
    BY <2>1
  <2>5. CASE ~listening
    BY <2>1, <2>2, <2>3, <2>5
  <2>6. CASE listening
    <3>1. backlog' = Append(backlog, c)
      BY <2>1, <2>6
    <3>2. /\ Len(backlog) \in Nat /\ Len(backlog') = Len(backlog) + 1
          /\ \A i \in 1 .. Len(backlog) : backlog'[i] = backlog[i]
          /\ backlog'[Len(backlog) + 1] = c
      BY <3>1
    <3>3. \A i \in 1 .. Len(backlog') : i \in 1 .. Len(backlog) \/ i = Len(backlog) + 1
      <4>1. Len(backlog) \in Nat /\ Len(backlog') = Len(backlog) + 1
        BY <3>2
      <4> QED
        BY ONLY <4>1
    <3> HIDE DEF Types, WireTypes, ServerTypes, ClientTypes
    <3>4. ASSUME NEW i \in 1 .. Len(backlog'), NEW j \in 1 .. Len(backlog'), i # j
          PROVE  backlog'[i] # backlog'[j]
      <4>1. CASE i = Len(backlog) + 1 \/ j = Len(backlog) + 1
        BY <2>2, <3>2, <3>3, <3>4, <4>1
      <4>2. CASE i \in 1 .. Len(backlog) /\ j \in 1 .. Len(backlog)
        BY <3>2, <3>4, <4>2
      <4> QED
        BY <3>3, <4>1, <4>2
    <3>5. \A i \in 1 .. Len(backlog') : backlog'[i] \notin m_clients /\ main'[backlog'[i]] # "new"
      BY <2>2, <2>3, <2>4, <3>2, <3>3
    <3>6. \A d \in m_clients : main'[d] # "new"
      BY <2>3 DEF Types, ServerTypes
    <3> QED
      BY <2>1, <3>4, <3>5, <3>6
  <2> QED
    BY <2>5, <2>6
<1>19. ASSUME NEW c \in Clients, login(c), UNCHANGED serverVars PROVE Registered'
  <2>1. \A d \in Clients : main[d] # "new" => main'[d] # "new"
    BY <1>19 DEF login
  <2>2. UNCHANGED << m_clients, interest, backlog, fault >>
    BY <1>19 DEF login
  <2>3. \A i \in 1 .. Len(backlog) : backlog[i] \in Clients
    BY ElementOfSeq
  <2> QED
    BY <2>1, <2>2, <2>3
<1>20. ASSUME NEW c \in Clients, logout(c), UNCHANGED serverVars PROVE Registered'
  <2>1. \A d \in Clients : main[d] # "new" => main'[d] # "new"
    BY <1>20 DEF logout
  <2>2. UNCHANGED << m_clients, interest, backlog, fault >>
    BY <1>20 DEF logout
  <2>3. \A i \in 1 .. Len(backlog) : backlog[i] \in Clients
    BY ElementOfSeq
  <2> QED
    BY <2>1, <2>2, <2>3
<1>21. ASSUME NEW c \in Clients, kill(c), UNCHANGED serverVars PROVE Registered'
  <2>1. \A d \in Clients : main[d] # "new" => main'[d] # "new"
    BY <1>21 DEF kill
  <2>2. UNCHANGED << m_clients, interest, backlog, fault >>
    BY <1>21 DEF kill
  <2>3. \A i \in 1 .. Len(backlog) : backlog[i] \in Clients
    BY ElementOfSeq
  <2> QED
    BY <2>1, <2>2, <2>3
<1>22. ASSUME NEW c \in Clients, readFromSocket(c), UNCHANGED serverVars PROVE Registered'
  BY <1>22 DEF readFromSocket
<1>23. ASSUME NEW c \in Clients, readFails(c), UNCHANGED serverVars PROVE Registered'
  BY <1>23 DEF readFails
<1>24. ASSUME NEW c \in Clients, processMessage(c), UNCHANGED serverVars PROVE Registered'
  BY <1>24 DEF processMessage
<1>25. ASSUME NEW c \in Clients, processEnd(c), UNCHANGED serverVars PROVE Registered'
  BY <1>25 DEF processEnd
<1>26. ASSUME NEW c \in Clients, joined(c), UNCHANGED serverVars PROVE Registered'
  <2>1. \A d \in Clients : main[d] # "new" => main'[d] # "new"
    BY <1>26 DEF joined
  <2>2. UNCHANGED << m_clients, interest, backlog, fault >>
    BY <1>26 DEF joined
  <2>3. \A i \in 1 .. Len(backlog) : backlog[i] \in Clients
    BY ElementOfSeq
  <2> QED
    BY <2>1, <2>2, <2>3
<1>27. ASSUME NEW c \in Clients, Arrive(c), UNCHANGED << serverVars, clientVars >> PROVE Registered'
  BY <1>27 DEF Arrive
<1>28. ASSUME NEW c \in Clients, Bounce(c), UNCHANGED << serverVars, clientVars >> PROVE Registered'
  BY <1>28 DEF Bounce
<1>29. ASSUME NEW c \in Clients, FinArrives(c), UNCHANGED << serverVars, clientVars >> PROVE Registered'
  BY <1>29 DEF FinArrives
<1> QED
BY <1>1, <1>2, <1>3, <1>4, <1>5, <1>6, <1>7, <1>8, <1>9, <1>10, <1>11, <1>12, <1>13, <1>14, <1>15,
     <1>16, <1>17, <1>18, <1>19, <1>20, <1>21, <1>22, <1>23, <1>24, <1>25, <1>26, <1>27, <1>28,
     <1>29 DEF Next, Owner, Server, Client, Transport, ServerThread, ReaderThread, Network

\* Going on to the next event forgets nobody but the current one.
LEMMA ToldTail ==
    ASSUME Types, NEW w, Told(w), w # Current, events # << >>,
           \/ UNCHANGED events
           \/ events' = Tail(events),
           w \in ready => w \in ready'
    PROVE  Told(w)'
<1>1. CASE w \in ready
  BY <1>1 DEF Told
<1>2. CASE \E i \in 1 .. Len(events) : events[i].who = w
  <2>1. PICK i \in 1 .. Len(events) : events[i].who = w
    BY <1>2
  <2>2. CASE UNCHANGED events
    BY <2>1, <2>2 DEF Told
  <2>3. CASE events' = Tail(events)
    <3>1. events \in Seq(Event) /\ Len(events) \in Nat
      BY LenProperties DEF Types, ServerTypes
    <3>2. Head(events) = events[1]
      BY <3>1
    <3>3. i # 1
      BY <2>1, <3>2 DEF Current
    <3>4. /\ Len(Tail(events)) = Len(events) - 1
          /\ \A j \in 1 .. Len(Tail(events)) : Tail(events)[j] = events[j + 1]
      BY <3>1, HeadTailProperties
    <3>5. i - 1 \in 1 .. Len(Tail(events)) /\ (i - 1) + 1 = i
      BY <3>1, <3>3, <3>4
    <3>6. Tail(events)[i - 1].who = w
      BY <2>1, <3>4, <3>5
    <3> QED
      BY <2>3, <3>5, <3>6, Zenon DEF Told
  <2> QED
    BY <2>2, <2>3
<1> QED
  BY <1>1, <1>2 DEF Told

\* A connection that changes its state raises an edge.
LEMMA ConnRaise ==
    ASSUME Types, NothingMissed, UNCHANGED << events, rcv, backlog, interest, fault >>,
           \/ UNCHANGED << conn, ready >>
           \/ \E c \in Clients, x \in ConnStates : conn' = [conn EXCEPT ![c] = x] /\ Raise(c)
    PROVE  NothingMissed'
<1>1. CASE UNCHANGED << conn, ready >>
  BY <1>1 DEF NothingMissed, Told
<1>2. ASSUME NEW c \in Clients, NEW x \in ConnStates, conn' = [conn EXCEPT ![c] = x], Raise(c)
      PROVE  NothingMissed'
  <2>1. ready \subseteq ready' /\ (c \in interest => c \in ready')
    BY <1>2 DEF Raise
  <2>2. \A w : Told(w) => Told(w)'
    BY <2>1 DEF Told
  <2>3. c \in interest => Told(c)'
    BY <2>1 DEF Told
  <2>4. \A d \in Clients : d # c => conn'[d] = conn[d]
    BY <1>2 DEF Types, WireTypes
  <2> QED
    BY <2>2, <2>3, <2>4 DEF NothingMissed, Types, WireTypes
<1> QED
  BY <1>1, <1>2

\* Everybody who waits is still known to epoll_wait or to the loop.
LEMMA NothingMissedStep ==
    ASSUME Types, Registered, NothingMissed, Next
    PROVE  NothingMissed'
<1> USE DEF vars, wireVars, streamVars, serverVars, threadVars, clientVars, readerVars
<1>1. ASSUME startThrows, UNCHANGED clientVars PROVE NothingMissed'
  BY <1>1 DEF startThrows, NothingMissed, Told
<1>2. ASSUME start, UNCHANGED clientVars PROVE NothingMissed'
  BY <1>2 DEF start, NothingMissed, Told
<1>3. ASSUME stop, UNCHANGED clientVars PROVE NothingMissed'
  BY <1>3 DEF stop, NothingMissed, Told
<1>4. ASSUME stopJoined, UNCHANGED clientVars PROVE NothingMissed'
  <2>1. interest' = {} /\ backlog' = << >>
    BY <1>4 DEF stopJoined, CloseAll
  <2> QED
    BY <2>1 DEF NothingMissed
<1>5. ASSUME serverLoop, UNCHANGED clientVars PROVE NothingMissed'
  BY <1>5 DEF serverLoop, NothingMissed, Told
<1>6. ASSUME epollWait, UNCHANGED clientVars PROVE NothingMissed'
  <2>0. PICK batch \in SUBSET ready :
            /\ \E s \in SetToSeqs(batch) :
                   events' = [i \in 1 .. Len(s) |-> [who |-> s[i], hup |-> s[i] # Listener /\ conn[s[i]] = "rst"]]
            /\ ready' = ready \ batch
    BY <1>6 DEF epollWait
  <2>1. PICK s \in SetToSeqs(batch) :
            events' = [i \in 1 .. Len(s) |-> [who |-> s[i], hup |-> s[i] # Listener /\ conn[s[i]] = "rst"]]
    BY <2>0
  <2>2. /\ Len(events') = Len(s) /\ \A i \in 1 .. Len(s) : events'[i].who = s[i]
        /\ \A w \in batch : \E i \in 1 .. Len(s) : s[i] = w
    BY <2>1, BatchOfEvents, Zenon
  <2>3. ASSUME NEW w, Told(w) PROVE Told(w)'
    <3>1. Len(events) = 0
      BY <1>6 DEF epollWait, Types, ServerTypes
    <3>2. w \in ready
      BY <2>3, <3>1 DEF Told
    <3>3. CASE w \in batch
      BY <2>2, <3>3, Zenon DEF Told
    <3>4. CASE w \notin batch
      BY <2>0, <3>2, <3>4 DEF Told
    <3> QED
      BY <3>3, <3>4
  <2>4. UNCHANGED << backlog, fault, interest, rcv, conn >>
    BY <1>6 DEF epollWait
  <2> QED
    BY <2>3, <2>4 DEF NothingMissed
<1>7. ASSUME nextEvent, UNCHANGED clientVars PROVE NothingMissed'
  <2>1. UNCHANGED << wireVars, fault >>
    BY <1>7 DEF nextEvent
  <2>2. CASE UNCHANGED events
    BY <2>1, <2>2 DEF NothingMissed, Told
  <2>3. CASE events # << >> /\ Current # Listener /\ Current \notin m_clients /\ events' = Tail(events)
    <3>1. ASSUME NEW w \in interest \cup {Listener}, Told(w) PROVE Told(w)'
      BY <2>1, <2>3, <3>1, ToldTail DEF Registered
    <3> QED
      BY <2>1, <3>1 DEF NothingMissed
  <2> QED
    BY <1>7, <2>2, <2>3 DEF nextEvent, EndOfData
<1>8. ASSUME handleNewConnection, UNCHANGED clientVars PROVE NothingMissed'
  <2>0. UNCHANGED << conn, rcv, fault >> /\ Current = Listener /\ events # << >>
    BY <1>8 DEF handleNewConnection, Types, ServerTypes
  <2>1. CASE backlog = << >>
    <3>1. events' = Tail(events) /\ UNCHANGED << backlog, interest, ready >>
      BY <1>8, <2>1 DEF handleNewConnection
    <3>2. ASSUME NEW c \in interest, Told(c) PROVE Told(c)'
      BY <2>0, <3>1, <3>2, ToldTail, WireAssumption DEF Types, WireTypes
    <3> QED
      BY <2>0, <2>1, <3>1, <3>2 DEF NothingMissed
  <2>2. CASE backlog # << >>
    <3>1. UNCHANGED events /\ interest' = interest \cup {Head(backlog)}
      BY <1>8, <2>2 DEF handleNewConnection, addClientToEpoll
    <3>2. /\ ready \subseteq ready'
          /\ rcv[Head(backlog)] # << >> \/ conn[Head(backlog)] \in {"fin", "rst"} => Head(backlog) \in ready'
      BY <1>8, <2>2 DEF handleNewConnection, addClientToEpoll
    <3>3. \A w : Told(w) => Told(w)'
      BY <3>1, <3>2 DEF Told
    <3>4. \A w \in ready' : Told(w)'
      BY DEF Told
    <3> QED
      BY <2>0, <2>2, <3>1, <3>2, <3>3, <3>4 DEF NothingMissed
  <2> QED
    BY <2>1, <2>2
<1>9. ASSUME acceptFails, UNCHANGED clientVars PROVE NothingMissed'
  <2>1. /\ UNCHANGED << conn, rcv, interest, ready >> /\ Current = Listener /\ events # << >>
        /\ events' = Tail(events) /\ fault' = "accept"
    BY <1>9 DEF acceptFails, Fails, Types, ServerTypes
  <2>2. ASSUME NEW c \in interest, Told(c) PROVE Told(c)'
    BY <2>1, <2>2, ToldTail, WireAssumption DEF Types, WireTypes
  <2> QED
    BY <2>1, <2>2 DEF NothingMissed
<1>10. ASSUME addClientToEpollFails, UNCHANGED clientVars PROVE NothingMissed'
  <2>1. /\ UNCHANGED << conn, rcv, interest, ready, events >> /\ fault = "none" /\ backlog # << >>
    BY <1>10 DEF addClientToEpollFails, Fails
  <2>2. \A w : Told(w)' <=> Told(w)
    BY <2>1 DEF Told
  <2> QED
    BY <2>1, <2>2 DEF NothingMissed
<1>11. ASSUME readChunk, UNCHANGED clientVars PROVE NothingMissed'
  <2>1. /\ UNCHANGED << conn, events, backlog, fault >> /\ Current \in Clients
        /\ \A c \in Clients : c # Current => rcv'[c] = rcv[c]
        /\ rcv[Current] # << >>
        /\ \/ UNCHANGED << interest, ready >>
           \/ interest' = interest \ {Current} /\ ready' = ready \ {Current}
    BY <1>11 DEF readChunk, disconnectClient, removeClient, Types, WireTypes, ServerTypes
  <2>2. ASSUME NEW w \in interest' \cup {Listener}, Told(w) PROVE Told(w)'
    BY <2>1, <2>2, WireAssumption DEF Told
  <2>3. interest' \subseteq interest /\ interest \subseteq Clients
    BY <2>1 DEF Types, WireTypes
  <2> QED
    BY <2>1, <2>2, <2>3 DEF NothingMissed
<1>12. ASSUME readEnd, UNCHANGED clientVars PROVE NothingMissed'
  <2>1. /\ UNCHANGED << conn, rcv, backlog, fault >> /\ Current \in Clients /\ events # << >>
        /\ UNCHANGED events \/ events' = Tail(events)
        /\ interest' = interest \ {Current} /\ ready' = ready \ {Current}
    BY <1>12 DEF readEnd, removeClient, EndOfData, Types, ServerTypes
  <2>2. ASSUME NEW w \in interest' \cup {Listener}, Told(w) PROVE Told(w)'
    <3>1. w # Current
      BY <2>1, WireAssumption
    <3> QED
      BY <2>1, <2>2, <3>1, ToldTail
  <2> QED
    BY <2>1, <2>2 DEF NothingMissed
<1>13. ASSUME readAgain, UNCHANGED clientVars PROVE NothingMissed'
  <2>1. /\ UNCHANGED << wireVars, fault >> /\ Current \in Clients /\ events # << >>
        /\ UNCHANGED events \/ events' = Tail(events)
        /\ rcv[Current] = << >> /\ conn[Current] \notin {"fin", "rst"}
    BY <1>13 DEF readAgain, EndOfData, Types, ServerTypes
  <2>2. ASSUME NEW w, w # Current, Told(w) PROVE Told(w)'
    BY <2>1, <2>2, ToldTail
  <2>3. Listener # Current
    BY <2>1, WireAssumption
  <2> QED
    BY <2>1, <2>2, <2>3 DEF NothingMissed
<1>14. ASSUME readErased, UNCHANGED clientVars PROVE NothingMissed'
  <2>1. CASE Crash
    <3>1. interest' = {} /\ backlog' = << >>
      BY <2>1 DEF Crash, CloseAll
    <3> QED
      BY <3>1 DEF NothingMissed
  <2>2. CASE EndOfData /\ UNCHANGED << m_running, m_clients, owner, sending, wireVars, fault >>
    <3>1. /\ Current \in Clients /\ Current \notin m_clients /\ events # << >>
          /\ UNCHANGED events \/ events' = Tail(events)
      BY <1>14, <2>2 DEF readErased, EndOfData, Types, ServerTypes
    <3>2. ASSUME NEW w \in interest \cup {Listener}, Told(w) PROVE Told(w)'
      <4>1. w # Current
        BY <3>1, WireAssumption DEF Registered
      <4> QED
        BY <2>2, <3>1, <3>2, <4>1, ToldTail
    <3> QED
      BY <2>2, <3>2 DEF NothingMissed
  <2> QED
    BY <1>14, <2>1, <2>2 DEF readErased
<1>15. ASSUME hangUp, UNCHANGED clientVars PROVE NothingMissed'
  <2>1. /\ UNCHANGED << conn, rcv, backlog, fault >> /\ Current \in Clients /\ events # << >>
        /\ UNCHANGED events \/ events' = Tail(events)
        /\ interest' = interest \ {Current} /\ ready' = ready \ {Current}
    BY <1>15 DEF hangUp, removeClient, Types, ServerTypes
  <2>2. ASSUME NEW w \in interest' \cup {Listener}, Told(w) PROVE Told(w)'
    <3>1. w # Current
      BY <2>1, WireAssumption
    <3> QED
      BY <2>1, <2>2, <3>1, ToldTail
  <2> QED
    BY <2>1, <2>2 DEF NothingMissed
<1>16. ASSUME writeSome, UNCHANGED clientVars PROVE NothingMissed'
  <2>1. UNCHANGED << events, rcv, backlog, interest, fault >>
    BY <1>16 DEF writeSome
  <2>2. \/ UNCHANGED << conn, ready >>
        \/ \E x \in ConnStates : conn' = [conn EXCEPT ![Current] = x] /\ Raise(Current)
    BY <1>16 DEF writeSome, ConnStates
  <2> QED
    BY <1>16, <2>1, <2>2, ConnRaise DEF writeSome, Types, ServerTypes
<1>17. ASSUME writeSignal, UNCHANGED clientVars PROVE NothingMissed'
  <2>1. interest' = {} /\ backlog' = << >>
    BY <1>17 DEF writeSignal, Crash, CloseAll
  <2> QED
    BY <2>1 DEF NothingMissed
<1>18. ASSUME NEW c \in Clients, construct(c), UNCHANGED serverVars PROVE NothingMissed'
  <2>1. /\ UNCHANGED << events, rcv, interest, fault >>
        /\ conn' = [conn EXCEPT ![c] = IF listening THEN "up" ELSE "refused"]
        /\ \/ backlog' = backlog /\ ready' = ready
           \/ ready' = ready \cup {Listener}
        /\ main[c] = "new"
    BY <1>18 DEF construct
  <2>2. c \notin interest
    BY <2>1 DEF Registered
  <2>3. \A d \in interest : conn'[d] = conn[d]
    BY <2>1, <2>2 DEF Types, WireTypes
  <2>4. \A w : Told(w) => Told(w)'
    BY <2>1 DEF Told
  <2>5. backlog' = backlog \/ Told(Listener)'
    BY <2>1 DEF Told
  <2> QED
    BY <2>1, <2>3, <2>4, <2>5 DEF NothingMissed
<1>19. ASSUME NEW c \in Clients, login(c), UNCHANGED serverVars PROVE NothingMissed'
  BY <1>19 DEF login, NothingMissed, Told
<1>20. ASSUME NEW c \in Clients, logout(c), UNCHANGED serverVars PROVE NothingMissed'
  BY <1>20 DEF logout, NothingMissed, Told
<1>21. ASSUME NEW c \in Clients, kill(c), UNCHANGED serverVars PROVE NothingMissed'
  <2>1. UNCHANGED << events, rcv, backlog, interest, fault >>
    BY <1>21 DEF kill
  <2>2. CASE conn' = [conn EXCEPT ![c] = IF @ = "up" THEN "closing" ELSE @] /\ UNCHANGED ready
    <3>1. \A d \in Clients : conn'[d] \in {"fin", "rst"} => conn[d] \in {"fin", "rst"}
      BY <2>2 DEF Types, WireTypes
    <3> QED
      BY <2>1, <2>2, <3>1 DEF NothingMissed, Told, Types, WireTypes
  <2>3. CASE conn' = [conn EXCEPT ![c] = "rst"] /\ Raise(c)
    <3>1. "rst" \in ConnStates
      BY DEF ConnStates
    <3> QED
      BY <2>1, <2>3, <3>1, ConnRaise
  <2> QED
    BY <1>21, <2>2, <2>3 DEF kill
<1>22. ASSUME NEW c \in Clients, readFromSocket(c), UNCHANGED serverVars PROVE NothingMissed'
  BY <1>22 DEF readFromSocket, NothingMissed, Told
<1>23. ASSUME NEW c \in Clients, readFails(c), UNCHANGED serverVars PROVE NothingMissed'
  BY <1>23 DEF readFails, NothingMissed, Told
<1>24. ASSUME NEW c \in Clients, processMessage(c), UNCHANGED serverVars PROVE NothingMissed'
  BY <1>24 DEF processMessage, NothingMissed, Told
<1>25. ASSUME NEW c \in Clients, processEnd(c), UNCHANGED serverVars PROVE NothingMissed'
  BY <1>25 DEF processEnd, NothingMissed, Told
<1>26. ASSUME NEW c \in Clients, joined(c), UNCHANGED serverVars PROVE NothingMissed'
  <2>1. UNCHANGED << events, rcv, backlog, interest, fault, ready >>
    BY <1>26 DEF joined
  <2>2. \A d \in Clients : conn'[d] \in {"fin", "rst"} => conn[d] \in {"fin", "rst"}
    BY <1>26 DEF joined, Types, WireTypes
  <2> QED
    BY <2>1, <2>2 DEF NothingMissed, Told, Types, WireTypes
<1>27. ASSUME NEW c \in Clients, Arrive(c), UNCHANGED << serverVars, clientVars >> PROVE NothingMissed'
  <2>1. UNCHANGED << events, conn, backlog, interest, fault >> /\ Raise(c)
    BY <1>27 DEF Arrive
  <2>2. \A d \in Clients : d # c => rcv'[d] = rcv[d]
    BY <1>27 DEF Arrive, Types, WireTypes
  <2>3. ready \subseteq ready' /\ (c \in interest => c \in ready')
    BY <2>1 DEF Raise
  <2>4. \A w : Told(w) => Told(w)'
    BY <2>1, <2>3 DEF Told
  <2>5. c \in interest => Told(c)'
    BY <2>3 DEF Told
  <2> QED
    BY <2>1, <2>2, <2>4, <2>5 DEF NothingMissed, Types, WireTypes
<1>28. ASSUME NEW c \in Clients, Bounce(c), UNCHANGED << serverVars, clientVars >> PROVE NothingMissed'
  BY <1>28 DEF Bounce, NothingMissed, Told
<1>29. ASSUME NEW c \in Clients, FinArrives(c), UNCHANGED << serverVars, clientVars >> PROVE NothingMissed'
  <2>1. UNCHANGED << events, rcv, backlog, interest, fault >>
    BY <1>29 DEF FinArrives
  <2>2. \E x \in ConnStates : conn' = [conn EXCEPT ![c] = x] /\ Raise(c)
    BY <1>29 DEF FinArrives, ConnStates
  <2> QED
    BY <2>1, <2>2, ConnRaise
<1> QED
BY <1>1, <1>2, <1>3, <1>4, <1>5, <1>6, <1>7, <1>8, <1>9, <1>10, <1>11, <1>12, <1>13, <1>14, <1>15,
     <1>16, <1>17, <1>18, <1>19, <1>20, <1>21, <1>22, <1>23, <1>24, <1>25, <1>26, <1>27, <1>28,
     <1>29 DEF Next, Owner, Server, Client, Transport, ServerThread, ReaderThread, Network

----------------------------------------------------------------------------
(* Messages stay whole. *)

\* A sequence behind another one, and cut twice.
LEMMA DropConcat ==
    ASSUME NEW s \in Seq(Byte), NEW t \in Seq(Byte)
    PROVE  Drop(s \o t, Len(s)) = t
<1>1. Len(s) \in Nat /\ Len(t) \in Nat
  BY LenProperties
<1>2. /\ s \o t \in Seq(Byte) /\ Len(s \o t) = Len(s) + Len(t)
      /\ \A i \in 1 .. Len(s) + Len(t) : (s \o t)[i] = IF i <= Len(s) THEN s[i] ELSE t[i - Len(s)]
  BY ConcatProperties
<1>3. Len(s) \in 0 .. Len(s \o t)
  BY <1>1, <1>2
<1> DEFINE u == s \o t
<1> HIDE DEF u
<1>4. /\ Drop(u, Len(s)) \in Seq(Byte) /\ Len(Drop(u, Len(s))) = Len(u) - Len(s)
      /\ \A i \in 1 .. Len(u) - Len(s) : Drop(u, Len(s))[i] = u[Len(s) + i]
  <2>1. u \in Seq(Byte) /\ Len(s) \in 0 .. Len(u)
    BY <1>2, <1>3 DEF u
  <2> QED
    BY <2>1, CutInTwo
<1>5. Len(u) - Len(s) = Len(t)
  BY <1>1, <1>2 DEF u
<1>6. ASSUME NEW i \in 1 .. Len(t) PROVE Drop(u, Len(s))[i] = t[i]
  <2>1. Len(s) + i \in 1 .. Len(s) + Len(t) /\ ~(Len(s) + i <= Len(s)) /\ (Len(s) + i) - Len(s) = i
    BY <1>1
  <2>2. u[Len(s) + i] = t[i]
    BY <1>2, <2>1 DEF u
  <2> QED
    BY <1>4, <1>5, <2>2
<1>7. Drop(u, Len(s)) = t
  BY <1>4, <1>5, <1>6, SeqEqual
<1> QED
  BY <1>7 DEF u

\* Dropping bytes in two goes.
LEMMA DropTwice ==
    ASSUME NEW s \in Seq(Byte), NEW m \in Nat, NEW n \in Nat, m + n <= Len(s)
    PROVE  Drop(Drop(s, m), n) = Drop(s, m + n)
<1>1. Len(s) \in Nat
  BY LenProperties
<1>2. m \in 0 .. Len(s) /\ m + n \in 0 .. Len(s) /\ n \in 0 .. Len(s) - m
  BY <1>1
<1>3. /\ Drop(s, m) \in Seq(Byte) /\ Len(Drop(s, m)) = Len(s) - m
      /\ \A i \in 1 .. Len(s) - m : Drop(s, m)[i] = s[m + i]
  BY <1>2, CutInTwo
<1>4. /\ Drop(s, m + n) \in Seq(Byte) /\ Len(Drop(s, m + n)) = Len(s) - (m + n)
      /\ \A i \in 1 .. Len(s) - (m + n) : Drop(s, m + n)[i] = s[(m + n) + i]
  BY <1>2, CutInTwo
<1> DEFINE u == Drop(s, m)
<1> HIDE DEF u
<1>5. u \in Seq(Byte) /\ Len(u) = Len(s) - m /\ n \in 0 .. Len(u)
  BY <1>2, <1>3 DEF u
<1>6. /\ Drop(u, n) \in Seq(Byte) /\ Len(Drop(u, n)) = Len(u) - n
      /\ \A i \in 1 .. Len(u) - n : Drop(u, n)[i] = u[n + i]
  BY <1>5, CutInTwo
<1>7. Len(u) - n = Len(s) - (m + n)
  BY <1>1, <1>5
<1>8. ASSUME NEW i \in 1 .. Len(s) - (m + n) PROVE Drop(u, n)[i] = Drop(s, m + n)[i]
  <2>1. n + i \in 1 .. Len(s) - m /\ m + (n + i) = (m + n) + i
    BY <1>1
  <2>2. u[n + i] = s[(m + n) + i]
    BY <1>3, <2>1 DEF u
  <2> QED
    BY <1>4, <1>6, <1>7, <2>2
<1>9. Drop(u, n) = Drop(s, m + n)
  BY <1>4, <1>6, <1>7, <1>8, SeqEqual
<1> QED
  BY <1>9 DEF u

\* The buffer, the bytes on their way and the rest of the answer, in either grouping.
LEMMA Regroup ==
    ASSUME NEW s \in Seq(Byte), NEW t \in Seq(Byte), NEW u \in Seq(Byte)
    PROVE  (s \o t) \o u = s \o (t \o u)
BY ConcatAssociative

\* An offset of zero drops nothing.
LEMMA DropNothing ==
    ASSUME NEW s \in Seq(Byte)
    PROVE  Drop(s, 0) = s
<1>1. 0 + 1 = 1
  OBVIOUS
<1> QED
  BY <1>1, SubSeqFull DEF Drop

\* The parts of a client's stream.
LEMMA StreamParts ==
    ASSUME Types, NEW c \in Clients
    PROVE  /\ Rest(c) \in Seq(Byte) /\ snd[c] \in Seq(Byte) /\ Owed(c) \in Seq(Byte)
           /\ Rest(c) \o snd[c] \in Seq(Byte)
           /\ Len(Rest(c)) \in Nat /\ Len(snd[c]) \in Nat /\ Len(Owed(c)) \in Nat
           /\ Len(Rest(c) \o snd[c]) = Len(Rest(c)) + Len(snd[c])
           /\ Stream(c) \in Seq(Byte)
           /\ Len(Stream(c)) = Len(Rest(c)) + Len(snd[c]) + Len(Owed(c))
<1>1. << >> \in Seq(Byte)
  OBVIOUS
<1>2. Rest(c) \in Seq(Byte) /\ snd[c] \in Seq(Byte) /\ Owed(c) \in Seq(Byte)
  BY <1>1, RestType DEF Owed, Types, WireTypes, ServerTypes
<1>3. Len(Rest(c)) \in Nat /\ Len(snd[c]) \in Nat /\ Len(Owed(c)) \in Nat
  BY <1>2, LenProperties
<1>4. Rest(c) \o snd[c] \in Seq(Byte) /\ Len(Rest(c) \o snd[c]) = Len(Rest(c)) + Len(snd[c])
  BY <1>2, ConcatProperties
<1>5. Stream(c) \in Seq(Byte) /\ Len(Stream(c)) = Len(Rest(c) \o snd[c]) + Len(Owed(c))
  BY <1>2, <1>4, ConcatProperties DEF Stream
<1> QED
  BY <1>2, <1>3, <1>4, <1>5

\* The numbers in the bound on the answers.
LEMMA Counts ==
    ASSUME Types, NEW c \in Clients
    PROVE  /\ Asks(rcv[c]) \in Nat /\ Asks(net[c]) \in Nat /\ logins[c] \in Nat
           /\ Len(handled[c]) \in Nat /\ Len(Stream(c)) \in Nat
BY StreamParts, AsksFinite, LenProperties DEF Types, WireTypes, ClientTypes

\* A step that does not concern the client.
LEMMA FramedKept ==
    ASSUME NEW c \in Clients, FramedClient(c),
           m_buffer'[c] = m_buffer[c], offset'[c] = offset[c], snd'[c] = snd[c], conn'[c] = conn[c],
           handled'[c] = handled[c], logins'[c] = logins[c], rcv'[c] = rcv[c], net'[c] = net[c],
           Owed(c)' = Owed(c)
    PROVE  FramedClient(c)'
<1>1. Stream(c)' = Stream(c)
  BY DEF Stream, Rest
<1> QED
  BY <1>1 DEF FramedClient

\* The stream loses at most its end, the requests their login; the client is gone.
LEMMA FramedCut ==
    ASSUME Types, NEW c \in Clients, FramedClient(c), conn'[c] \notin {"none", "up"},
           m_buffer'[c] = m_buffer[c], offset'[c] = offset[c], snd'[c] = snd[c],
           handled'[c] = handled[c], logins'[c] = logins[c], rcv'[c] = rcv[c],
           net'[c] \in {net[c], << >>}
    PROVE  FramedClient(c)'
<1> DEFINE s == Rest(c) \o snd[c]
<1>1. /\ s \in Seq(Byte) /\ Owed(c) \in Seq(Byte) /\ Len(s) \in Nat
      /\ Len(Stream(c)) = Len(s) + Len(Owed(c)) /\ Len(Owed(c)) \in Nat
  BY StreamParts
<1>2. Stream(c)' = s \o << >>
  BY DEF Stream, Rest, Owed
<1>3. Stream(c)' = s
  BY <1>1, <1>2, ConcatEmptySeq
<1>4. Answers(s)
  BY <1>1, AnswersPrefix DEF FramedClient, Framed, Stream
<1> HIDE DEF s
<1> DEFINE a == Asks(rcv[c]) + Asks(net[c])
           b == Asks(rcv[c]) + Asks(net'[c])
<1>5. a \in Nat /\ b \in Nat /\ b <= a
  BY Counts, AsksPackets
<1>6. logins[c] \in Nat /\ Len(handled[c]) \in Nat
  BY Counts
<1>7. 4 * (Len(handled[c]) + a) + Len(Stream(c)) <= 4 * logins[c]
  BY DEF FramedClient, Framed
<1> HIDE DEF a, b
<1>8. 4 * (Len(handled[c]) + b) + Len(s) <= 4 * logins[c]
  <2> DEFINE h == Len(handled[c])
             l == logins[c]
             n == Len(Stream(c))
             o == Len(Owed(c))
             m == Len(s)
  <2>1. /\ h \in Nat /\ l \in Nat /\ o \in Nat /\ m \in Nat /\ n = m + o
        /\ 4 * (h + a) + n <= 4 * l
    BY <1>1, <1>6, <1>7
  <2> HIDE DEF h, l, n, o, m
  <2>2. 4 * (h + b) + m <= 4 * l
    BY ONLY <1>5, <2>1
  <2> QED
    BY <2>2 DEF h, l, m
<1> QED
  BY <1>1, <1>3, <1>4, <1>5, <1>8 DEF FramedClient, Framed, b

\* Nothing is written before and after.
LEMMA OwedNothing ==
    ASSUME NEW c, \/ UNCHANGED << pc, events, sending, conn >>
                  \/ pc # "write" /\ pc' # "write"
    PROVE  Owed(c)' = Owed(c)
BY DEF Owed, Current

\* A step that touches no byte and no answer being written keeps every stream.
LEMMA StreamsKept ==
    ASSUME Streams, UNCHANGED << m_buffer, offset, snd, conn, handled, logins, rcv, net >>,
           \/ UNCHANGED << pc, events, sending >>
           \/ pc # "write" /\ pc' # "write"
    PROVE  Streams'
BY OwedNothing, FramedKept DEF Streams

\* A packet is written to the server, or lost.
LEMMA WriteAsks ==
    ASSUME Types, NEW c \in Clients, NEW packet \in Seq(Byte), Write(c, packet),
           NEW k, Asks(packet) = k
    PROVE  /\ Asks(net'[c]) \in Nat /\ Asks(net'[c]) <= Asks(net[c]) + k
           /\ \A d \in Clients : d # c => net'[d] = net[d]
<1>1. net \in [Clients -> Seq(Byte)] /\ net[c] \in Seq(Byte)
  BY DEF Types, WireTypes
<1>2. Asks(net[c] \o packet) = Asks(net[c]) + k /\ Asks(net[c]) \in Nat /\ k \in Nat
  BY <1>1, AsksConcat, AsksFinite
<1>3. net' = [net EXCEPT ![c] = net[c] \o packet] \/ net' = net
  BY DEF Write
<1>4. Asks(net'[c]) \in {Asks(net[c]) + k, Asks(net[c])}
  BY <1>1, <1>2, <1>3
<1> QED
  BY <1>1, <1>2, <1>3, <1>4

\* The client asks for no more than it adds to its logins.
LEMMA FramedAsks ==
    ASSUME Types, NEW c \in Clients, FramedClient(c), NEW k \in Nat, NEW asks \in Nat, NEW asked,
           asks <= Asks(net[c]) + k, asked = logins[c] + k
    PROVE  Framed(Stream(c), conn[c], Len(handled[c]), Asks(rcv[c]) + asks, asked)
<1> DEFINE h == Len(handled[c])
           r == Asks(rcv[c])
           a == Asks(net[c])
           l == logins[c]
           n == Len(Stream(c))
<1>1. h \in Nat /\ r \in Nat /\ a \in Nat /\ l \in Nat /\ n \in Nat
  BY Counts
<1>2. 4 * (h + (r + a)) + n <= 4 * l
  BY DEF FramedClient, Framed
<1>3. asks \in Nat /\ k \in Nat /\ asks <= a + k /\ asked = l + k
  OBVIOUS
<1>4. /\ Stream(c) \in Seq(Byte) /\ Answers(Stream(c))
      /\ conn[c] \in {"none", "up"} => Len(Stream(c)) % 4 = 0
  BY DEF FramedClient, Framed
<1> HIDE DEF h, r, a, l, n
<1>5. r + asks \in Nat /\ 4 * (h + (r + asks)) + n <= 4 * asked
  BY ONLY <1>1, <1>2, <1>3
<1> QED
  BY <1>4, <1>5 DEF Framed, h, r, n

\* What is left is answers too, and a complete message is one of them.
LEMMA RestAnswers ==
    ASSUME Types, NEW c \in Clients, FramedClient(c)
    PROVE  Answers(Rest(c)) /\ Answers(Rest(c) \o snd[c])
<1>1. Answers(Rest(c) \o snd[c])
  BY StreamParts, AnswersPrefix DEF FramedClient, Framed, Stream
<1> QED
  BY <1>1, StreamParts, AnswersPrefix

\* processBuffer's test for a complete message, on a stream of answers, is that four
\* bytes are there.
LEMMA ShortUnlessComplete ==
    ASSUME Types, NEW c \in Clients, FramedClient(c)
    PROVE  /\ Complete(Rest(c)) <=> Len(Rest(c)) >= 4
           /\ Complete(Rest(c)) => HeaderSize + PacketLength(Rest(c)) = 4
<1> DEFINE r == Rest(c)
<1>1. Answers(r) /\ r \in Seq(Byte) /\ Len(r) \in Nat
  BY RestAnswers, RestType
<1>2. LoginAccepted[1] = 0 /\ LoginAccepted[2] = 2
  BY Packets
<1> HIDE DEF r
<1>3. ASSUME Len(r) >= 2 PROVE HeaderSize + PacketLength(r) = 4
  <2>1. 1 \in 1 .. Len(r) /\ 2 \in 1 .. Len(r) /\ ((1 - 1) % 4) + 1 = 1 /\ ((2 - 1) % 4) + 1 = 2
    BY <1>1, <1>3
  <2>2. r[1] = 0 /\ r[2] = 2
    BY <1>1, <1>2, <2>1 DEF Answers
  <2> QED
    BY <2>2 DEF HeaderSize, PacketLength
<1>4. Complete(r) <=> Len(r) >= 4
  BY <1>1, <1>3 DEF Complete, HeaderSize
<1>5. Complete(r) => Len(r) >= 2
  BY DEF Complete, HeaderSize
<1> QED
  BY <1>3, <1>4, <1>5 DEF r

\* The message processBuffer takes from a stream of answers is one whole answer.
LEMMA WholeAnswer ==
    ASSUME Types, Streams, NEW c \in Clients, Complete(Rest(c))
    PROVE  /\ SubSeq(Rest(c), 1, HeaderSize + PacketLength(Rest(c))) = LoginAccepted
           /\ SubSeq(Rest(c), 1, 4) = LoginAccepted
           /\ Len(Rest(c)) >= 4 /\ LoginAccepted \in Seq(Byte) /\ Len(LoginAccepted) = 4
<1>1. FramedClient(c)
  BY DEF Streams
<1>2. Len(Rest(c)) >= 4 /\ HeaderSize + PacketLength(Rest(c)) = 4
  BY <1>1, ShortUnlessComplete
<1>3. SubSeq(Rest(c), 1, 4) = LoginAccepted
  BY <1>1, <1>2, RestAnswers, RestType, AnswersShrink
<1>4. LoginAccepted \in Seq(Byte) /\ Len(LoginAccepted) = 4
  BY Packets DEF Byte, TypeLoginAccepted
<1> QED
  BY <1>2, <1>3, <1>4

\* One message has been handled.
LEMMA FramedNext ==
    ASSUME Types, NEW c \in Clients, FramedClient(c), Len(Stream(c)) >= 4,
           NEW asks \in Nat, asks <= Asks(net[c]) + 0
    PROVE  Framed(Drop(Stream(c), 4), conn[c], Len(handled[c]) + 1, Asks(rcv[c]) + asks, logins[c])
<1> DEFINE h == Len(handled[c])
           r == Asks(rcv[c])
           a == Asks(net[c])
           l == logins[c]
           n == Len(Stream(c))
<1>1. h \in Nat /\ r \in Nat /\ a \in Nat /\ l \in Nat /\ n \in Nat
  BY Counts
<1>2. 4 * (h + (r + a)) + n <= 4 * l
  BY DEF FramedClient, Framed
<1>3. asks \in Nat /\ asks <= a + 0
  OBVIOUS
<1>4. /\ Stream(c) \in Seq(Byte) /\ Answers(Stream(c))
      /\ conn[c] \in {"none", "up"} => Len(Stream(c)) % 4 = 0
  BY DEF FramedClient, Framed
<1>5. /\ Drop(Stream(c), 4) \in Seq(Byte) /\ Len(Drop(Stream(c), 4)) = Len(Stream(c)) - 4
      /\ (Len(Stream(c)) - 4) % 4 = Len(Stream(c)) % 4
      /\ Answers(Drop(Stream(c), 4))
  BY <1>4, AnswersShrink
<1> HIDE DEF h, r, a, l, n
<1>6. r + asks \in Nat /\ 4 * ((h + 1) + (r + asks)) + (n - 4) <= 4 * l
  BY ONLY <1>1, <1>2, <1>3
<1> QED
  BY <1>4, <1>5, <1>6 DEF Framed, h, r, l, n

\* Bytes have been read and no answer is written, or one.
LEMMA FramedRead ==
    ASSUME Types, NEW c \in Clients, FramedClient(c),
           NEW x \in Nat, NEW y \in Nat, Asks(rcv[c]) = x + y
    PROVE  Framed(Stream(c), conn[c], Len(handled[c]), y + Asks(net[c]), logins[c])
<1> DEFINE h == Len(handled[c])
           a == Asks(net[c])
           l == logins[c]
           n == Len(Stream(c))
<1>1. h \in Nat /\ a \in Nat /\ l \in Nat /\ n \in Nat /\ x \in Nat /\ y \in Nat
  BY Counts
<1>2. 4 * (h + ((x + y) + a)) + n <= 4 * l
  BY DEF FramedClient, Framed
<1>4. /\ Stream(c) \in Seq(Byte) /\ Answers(Stream(c))
      /\ conn[c] \in {"none", "up"} => Len(Stream(c)) % 4 = 0
  BY DEF FramedClient, Framed
<1> HIDE DEF h, a, l, n
<1>6. y + a \in Nat /\ 4 * (h + (y + a)) + n <= 4 * l
  BY ONLY <1>1, <1>2
<1> QED
  BY <1>4, <1>6 DEF Framed, h, a, l, n

\* Answering a request that has been read extends the stream by one answer, and uses
\* the request up.
LEMMA FramedAnswer ==
    ASSUME Types, NEW c \in Clients, FramedClient(c), conn[c] = "up",
           NEW x \in Nat, NEW y \in Nat, Asks(rcv[c]) = x + y, x >= 1
    PROVE  Framed(Stream(c) \o LoginAccepted, conn[c], Len(handled[c]), y + Asks(net[c]), logins[c])
<1> DEFINE h == Len(handled[c])
           a == Asks(net[c])
           l == logins[c]
           n == Len(Stream(c))
<1>1. h \in Nat /\ a \in Nat /\ l \in Nat /\ n \in Nat /\ x \in Nat /\ y \in Nat /\ x >= 1
  BY Counts
<1>2. 4 * (h + ((x + y) + a)) + n <= 4 * l
  BY DEF FramedClient, Framed
<1>4. Stream(c) \in Seq(Byte) /\ Answers(Stream(c)) /\ Len(Stream(c)) % 4 = 0
  BY DEF FramedClient, Framed
<1>5. /\ Stream(c) \o LoginAccepted \in Seq(Byte) /\ Len(Stream(c) \o LoginAccepted) = Len(Stream(c)) + 4
      /\ (Len(Stream(c)) + 4) % 4 = 0 /\ Answers(Stream(c) \o LoginAccepted)
  BY <1>4, AnswersGrow
<1> HIDE DEF h, a, l, n
<1>6. y + a \in Nat /\ 4 * (h + (y + a)) + (n + 4) <= 4 * l
  BY ONLY <1>1, <1>2
<1> QED
  BY <1>5, <1>6 DEF Framed, h, a, l, n

\* A client goes.
LEMMA Gone ==
    ASSUME Types, Streams, NEW c \in Clients,
           UNCHANGED << m_buffer, offset, snd, handled, logins, rcv, pc, events, sending >>,
           conn'[c] \notin {"none", "up"} \/ (conn'[c] = conn[c] /\ net'[c] = net[c]),
           net'[c] \in {net[c], << >>},
           \A d \in Clients : d # c => conn'[d] = conn[d] /\ net'[d] = net[d]
    PROVE  Streams'
<1>1. ASSUME NEW d \in Clients PROVE FramedClient(d)'
  <2>1. CASE d # c \/ (conn'[c] = conn[c] /\ net'[c] = net[c])
    <3>1. conn'[d] = conn[d] /\ net'[d] = net[d]
      BY <2>1
    <3>2. Owed(d)' = Owed(d)
      BY <3>1 DEF Owed, Current
    <3> QED
      BY <3>1, <3>2, FramedKept DEF Streams
  <2>2. CASE d = c /\ conn'[c] \notin {"none", "up"}
    BY <2>2, FramedCut DEF Streams
  <2> QED
    BY <2>1, <2>2
<1> QED
  BY <1>1 DEF Streams

\* The streams of answers.
LEMMA StreamsStep ==
    ASSUME Types, Registered, NotYet, Streams, ShortRest, Next
    PROVE  Streams'
<1> USE DEF vars, wireVars, streamVars, serverVars, threadVars, clientVars, readerVars
<1>1. ASSUME startThrows, UNCHANGED clientVars PROVE Streams'
  <2>1. /\ UNCHANGED << m_buffer, offset, snd, conn, handled, logins, rcv, net >>
        /\ UNCHANGED << pc, events, sending >> \/ (pc # "write" /\ pc' # "write")
    BY <1>1 DEF startThrows, Types, ServerTypes
  <2> QED
    BY <2>1, StreamsKept
<1>2. ASSUME start, UNCHANGED clientVars PROVE Streams'
  <2>1. /\ UNCHANGED << m_buffer, offset, snd, conn, handled, logins, rcv, net >>
        /\ UNCHANGED << pc, events, sending >> \/ (pc # "write" /\ pc' # "write")
    BY <1>2 DEF start, Types, ServerTypes
  <2> QED
    BY <2>1, StreamsKept
<1>3. ASSUME stop, UNCHANGED clientVars PROVE Streams'
  <2>1. /\ UNCHANGED << m_buffer, offset, snd, conn, handled, logins, rcv, net >>
        /\ UNCHANGED << pc, events, sending >> \/ (pc # "write" /\ pc' # "write")
    BY <1>3 DEF stop, Types, ServerTypes
  <2> QED
    BY <2>1, StreamsKept
<1>4. ASSUME stopJoined, UNCHANGED clientVars PROVE Streams'
  <2>1. /\ UNCHANGED << m_buffer, offset, snd, conn, handled, logins, rcv, net >>
        /\ UNCHANGED << pc, events, sending >> \/ (pc # "write" /\ pc' # "write")
    BY <1>4 DEF stopJoined, CloseAll, Types, ServerTypes
  <2> QED
    BY <2>1, StreamsKept
<1>5. ASSUME serverLoop, UNCHANGED clientVars PROVE Streams'
  <2>1. /\ UNCHANGED << m_buffer, offset, snd, conn, handled, logins, rcv, net >>
        /\ UNCHANGED << pc, events, sending >> \/ (pc # "write" /\ pc' # "write")
    BY <1>5 DEF serverLoop, testRunning, Types, ServerTypes
  <2> QED
    BY <2>1, StreamsKept
<1>6. ASSUME epollWait, UNCHANGED clientVars PROVE Streams'
  <2>1. /\ UNCHANGED << m_buffer, offset, snd, conn, handled, logins, rcv, net >>
        /\ UNCHANGED << pc, events, sending >> \/ (pc # "write" /\ pc' # "write")
    BY <1>6 DEF epollWait, Types, ServerTypes
  <2> QED
    BY <2>1, StreamsKept
<1>7. ASSUME nextEvent, UNCHANGED clientVars PROVE Streams'
  <2>1. /\ UNCHANGED << m_buffer, offset, snd, conn, handled, logins, rcv, net >>
        /\ UNCHANGED << pc, events, sending >> \/ (pc # "write" /\ pc' # "write")
    BY <1>7 DEF nextEvent, testRunning, EndOfData, Types, ServerTypes
  <2> QED
    BY <2>1, StreamsKept
<1>8. ASSUME handleNewConnection, UNCHANGED clientVars PROVE Streams'
  <2>1. /\ UNCHANGED << m_buffer, offset, snd, conn, handled, logins, rcv, net >>
        /\ UNCHANGED << pc, events, sending >> \/ (pc # "write" /\ pc' # "write")
    BY <1>8 DEF handleNewConnection, Types, ServerTypes
  <2> QED
    BY <2>1, StreamsKept
<1>9. ASSUME acceptFails, UNCHANGED clientVars PROVE Streams'
  <2>1. /\ UNCHANGED << m_buffer, offset, snd, conn, handled, logins, rcv, net >>
        /\ UNCHANGED << pc, events, sending >> \/ (pc # "write" /\ pc' # "write")
    BY <1>9 DEF acceptFails, Types, ServerTypes
  <2> QED
    BY <2>1, StreamsKept
<1>10. ASSUME addClientToEpollFails, UNCHANGED clientVars PROVE Streams'
  <2>1. /\ UNCHANGED << m_buffer, offset, snd, conn, handled, logins, rcv, net >>
        /\ UNCHANGED << pc, events, sending >> \/ (pc # "write" /\ pc' # "write")
    BY <1>10 DEF addClientToEpollFails, Types, ServerTypes
  <2> QED
    BY <2>1, StreamsKept
<1>11. ASSUME readChunk, UNCHANGED clientVars PROVE Streams'
  <2>0. PICK c \in Clients : c = Current
    BY <1>11 DEF readChunk, Types, ServerTypes
  <2> DEFINE n == Min({Len(rcv[c]), ReadSize})
             A == SubSeq(rcv[c], 1, n)
             B == Drop(rcv[c], n)
  <2>1. /\ pc = "read" /\ c \in m_clients
        /\ rcv' = [rcv EXCEPT ![c] = B]
        /\ UNCHANGED << m_buffer, offset, handled, logins, snd, conn, net, events >>
    BY <1>11, <2>0 DEF readChunk
  <2>2. \/ pc' # "write"
        \/ handleSoupBinTcpMessage(A) = "answer" /\ pc' = "write" /\ sending' = LoginAccepted
    BY <1>11, <2>0 DEF readChunk, sendToClient
  <2>3. rcv[c] \in Seq(Byte) /\ ReadSize \in Nat
    BY <2>1, ServerAssumption DEF Types, WireTypes
  <2>4. A \in Seq(Byte) /\ n \in 0 .. Len(rcv[c])
    BY <2>3, Transfer
  <2>5. Asks(rcv[c]) = Asks(A) + Asks(B) /\ Asks(A) \in Nat /\ Asks(B) \in Nat
    BY <2>3, <2>4, AsksCut
  <2> HIDE DEF n, A, B
  <2>6. rcv'[c] = B /\ \A d \in Clients : d # c => rcv'[d] = rcv[d]
    BY <2>1 DEF Types, WireTypes
  <2>7. ASSUME NEW d \in Clients, d # c PROVE FramedClient(d)'
    <3>1. Owed(d)' = Owed(d)
      BY <2>0, <2>1, <2>7 DEF Owed, Current
    <3> QED
      BY <2>1, <2>6, <2>7, <3>1, FramedKept DEF Streams
  <2>8. Rest(c)' = Rest(c) /\ Owed(c) = << >> /\ FramedClient(c) /\ snd'[c] = snd[c]
    BY <2>1 DEF Rest, Owed, Streams
  <2>9. ASSUME pc' = "write", conn[c] = "up" PROVE FramedClient(c)'
    <3>1. Asks(A) >= 1 /\ sending' = LoginAccepted
      BY <2>2, <2>4, <2>9, AnswerNeedsAsk
    <3>2. Owed(c)' = LoginAccepted
      BY <2>0, <2>1, <2>9, <3>1 DEF Owed, Current
    <3>3. Stream(c)' = Stream(c) \o LoginAccepted
      <4>1. Rest(c) \o snd[c] \in Seq(Byte)
        BY <2>1, StreamParts
      <4>2. Stream(c) = Rest(c) \o snd[c]
        BY <2>8, <4>1, ConcatEmptySeq DEF Stream
      <4> QED
        BY <2>8, <3>2, <4>2 DEF Stream
    <3>4. Framed(Stream(c) \o LoginAccepted, conn[c], Len(handled[c]), Asks(B) + Asks(net[c]), logins[c])
      BY <2>1, <2>5, <2>8, <2>9, <3>1, FramedAnswer
    <3> QED
      BY <2>1, <2>6, <3>3, <3>4 DEF FramedClient
  <2>10. ASSUME pc' # "write" \/ conn[c] # "up" PROVE FramedClient(c)'
    <3>1. Owed(c)' = << >>
      BY <2>0, <2>1, <2>10 DEF Owed, Current
    <3>2. Stream(c)' = Stream(c)
      BY <2>8, <3>1 DEF Stream
    <3>3. Framed(Stream(c), conn[c], Len(handled[c]), Asks(B) + Asks(net[c]), logins[c])
      BY <2>1, <2>5, <2>8, FramedRead
    <3> QED
      BY <2>1, <2>6, <3>2, <3>3 DEF FramedClient
  <2>11. FramedClient(c)'
    BY <2>9, <2>10
  <2> QED
    BY <2>7, <2>11 DEF Streams
<1>12. ASSUME readEnd, UNCHANGED clientVars PROVE Streams'
  <2>1. /\ UNCHANGED << m_buffer, offset, snd, conn, handled, logins, rcv, net >>
        /\ UNCHANGED << pc, events, sending >> \/ (pc # "write" /\ pc' # "write")
    BY <1>12 DEF readEnd, EndOfData, Types, ServerTypes
  <2> QED
    BY <2>1, StreamsKept
<1>13. ASSUME readAgain, UNCHANGED clientVars PROVE Streams'
  <2>1. /\ UNCHANGED << m_buffer, offset, snd, conn, handled, logins, rcv, net >>
        /\ UNCHANGED << pc, events, sending >> \/ (pc # "write" /\ pc' # "write")
    BY <1>13 DEF readAgain, EndOfData, Types, ServerTypes
  <2> QED
    BY <2>1, StreamsKept
<1>14. ASSUME readErased, UNCHANGED clientVars PROVE Streams'
  <2>1. /\ UNCHANGED << m_buffer, offset, snd, conn, handled, logins, rcv, net >>
        /\ UNCHANGED << pc, events, sending >> \/ (pc # "write" /\ pc' # "write")
    BY <1>14 DEF readErased, EndOfData, Crash, CloseAll, Types, ServerTypes
  <2> QED
    BY <2>1, StreamsKept
<1>15. ASSUME hangUp, UNCHANGED clientVars PROVE Streams'
  <2>1. /\ UNCHANGED << m_buffer, offset, snd, conn, handled, logins, rcv, net >>
        /\ UNCHANGED << pc, events, sending >> \/ (pc # "write" /\ pc' # "write")
    BY <1>15 DEF hangUp, Types, ServerTypes
  <2> QED
    BY <2>1, StreamsKept
<1>16. ASSUME writeSome, UNCHANGED clientVars PROVE Streams'
  <2>0. PICK c \in Clients : c = Current
    BY <1>16 DEF writeSome, Types, ServerTypes
  <2>1. /\ pc = "write"
        /\ UNCHANGED << m_buffer, offset, handled, logins, rcv, net, events >>
    BY <1>16 DEF writeSome, Types, ServerTypes
  <2>2. CASE conn[c] = "up"
    <3> DEFINE room == SendBuffer - Len(snd[c])
               n == Min({Len(sending), room})
               A == SubSeq(sending, 1, n)
               B == Drop(sending, n)
    <3>1. /\ Len(snd[c]) < SendBuffer
          /\ snd' = [snd EXCEPT ![c] = @ \o A] /\ sending' = B
          /\ pc' = IF n = Len(sending) THEN "read" ELSE "write"
          /\ UNCHANGED conn
      BY <1>16, <2>0, <2>2 DEF writeSome
    <3>2. snd[c] \in Seq(Byte) /\ Len(snd[c]) \in Nat /\ sending \in Seq(Byte)
      BY <2>1, LenProperties DEF Types, WireTypes, ServerTypes
    <3>3. room \in Nat
      BY <3>1, <3>2, WireAssumption
    <3> HIDE DEF room
    <3>4. A \in Seq(Byte) /\ B \in Seq(Byte) /\ A \o B = sending /\ Len(B) = Len(sending) - n /\ n \in Nat
          /\ Len(sending) \in Nat
      BY <3>2, <3>3, Transfer
    <3> HIDE DEF n, A, B
    <3>5. /\ snd'[c] = snd[c] \o A
          /\ \A d \in Clients : d # c => snd'[d] = snd[d]
      BY <2>1, <3>1 DEF Types, WireTypes
    <3>6. Owed(c) = sending /\ Owed(c)' = B
      <4>1. n = Len(sending) => B = << >>
        BY <3>4, EmptySeq
      <4> QED
        BY <2>0, <2>1, <2>2, <3>1, <4>1 DEF Owed, Current
    <3>7. ASSUME NEW d \in Clients, d # c PROVE Owed(d)' = Owed(d)
      BY <2>0, <2>1, <3>7 DEF Owed, Current
    <3>8. Rest(c)' = Rest(c) /\ Rest(c) \in Seq(Byte)
      BY <2>1, RestType DEF Rest
    <3>9. Stream(c)' = Stream(c)
      <4>1. Stream(c)' = (Rest(c) \o (snd[c] \o A)) \o B
        BY <3>5, <3>6, <3>8 DEF Stream
      <4>2. snd[c] \o A \in Seq(Byte) /\ Rest(c) \o snd[c] \in Seq(Byte)
        BY <3>2, <3>4, <3>8, ConcatProperties
      <4>3. Rest(c) \o (snd[c] \o A) = (Rest(c) \o snd[c]) \o A
        BY <3>2, <3>4, <3>8, Regroup
      <4>4. ((Rest(c) \o snd[c]) \o A) \o B = (Rest(c) \o snd[c]) \o (A \o B)
        BY <3>4, <4>2, Regroup
      <4> QED
        BY <3>4, <3>6, <4>1, <4>3, <4>4 DEF Stream
    <3>10. FramedClient(c)'
      BY <2>1, <3>1, <3>9 DEF Streams, FramedClient
    <3>11. ASSUME NEW d \in Clients, d # c PROVE FramedClient(d)'
      BY <2>1, <3>1, <3>5, <3>7, <3>11, FramedKept DEF Streams
    <3> QED
      BY <3>10, <3>11 DEF Streams
  <2>3. CASE conn[c] # "up"
    <3>1. /\ UNCHANGED snd /\ pc' = "read"
          /\ \/ conn' = conn
             \/ conn' = [conn EXCEPT ![c] = "rst"] \/ conn' = [conn EXCEPT ![c] = "resetting"]
      BY <1>16, <2>0, <2>3 DEF writeSome
    <3>2. /\ conn'[c] # "up"
          /\ \A d \in Clients : d # c => conn'[d] = conn[d]
          /\ conn'[c] = conn[c] \/ conn'[c] \notin {"none", "up"}
      BY <2>1, <2>3, <3>1 DEF Types, WireTypes
    <3>3. ASSUME NEW d \in Clients PROVE Owed(d)' = Owed(d)
      BY <2>0, <2>1, <2>3, <3>1, <3>2 DEF Owed
    <3>4. ASSUME NEW d \in Clients, conn'[d] = conn[d] PROVE FramedClient(d)'
      BY <2>1, <3>1, <3>3, <3>4, FramedKept DEF Streams
    <3>6. ASSUME NEW d \in Clients PROVE FramedClient(d)'
      <4>1. CASE conn'[d] = conn[d]
        BY <3>4, <4>1
      <4>2. CASE conn'[d] # conn[d]
        <5>1. d = c /\ conn'[d] \notin {"none", "up"}
          BY <3>2, <4>2
        <5> QED
          BY <2>1, <3>1, <5>1, FramedCut DEF Streams
      <4> QED
        BY <4>1, <4>2
    <3> QED
      BY <3>6 DEF Streams
  <2> QED
    BY <2>2, <2>3
<1>17. ASSUME writeSignal, UNCHANGED clientVars PROVE Streams'
  <2>1. UNCHANGED << m_buffer, offset, snd, conn, handled, logins, rcv, net >> /\ pc' = "crashed"
    BY <1>17 DEF writeSignal, Crash, CloseAll
  <2>2. ASSUME NEW d \in Clients PROVE Owed(d)' = Owed(d)
    BY <1>17, <2>1 DEF Owed, writeSignal
  <2> QED
    BY <2>1, <2>2, FramedKept DEF Streams
<1>18. ASSUME NEW c \in Clients, construct(c), UNCHANGED serverVars PROVE Streams'
  <2>1. /\ UNCHANGED << m_buffer, offset, snd, handled, logins, rcv, net, pc, events, sending >>
        /\ main[c] = "new" /\ conn[c] = "none"
        /\ conn' = [conn EXCEPT ![c] = IF listening THEN "up" ELSE "refused"]
    BY <1>18 DEF construct, NotYet
  <2>2. pc = "write" => Current # c
    BY <2>1 DEF Types, ServerTypes, Registered
  <2>3. \A d \in Clients : d # c => conn'[d] = conn[d]
    BY <2>1 DEF Types, WireTypes
  <2>4. ASSUME NEW d \in Clients PROVE Owed(d)' = Owed(d)
    BY <2>1, <2>2, <2>3 DEF Owed, Current
  <2>5. ASSUME NEW d \in Clients PROVE FramedClient(d)'
    <3>1. CASE d # c
      BY <2>1, <2>3, <2>4, <3>1, FramedKept DEF Streams
    <3>2. CASE d = c
      <4>1. Stream(d)' = Stream(d)
        BY <2>1, <2>4 DEF Stream, Rest
      <4> QED
        BY <2>1, <3>2, <4>1 DEF Streams, FramedClient, Framed
    <3> QED
      BY <3>1, <3>2
  <2> QED
    BY <2>5 DEF Streams
<1>19. ASSUME NEW c \in Clients, login(c), UNCHANGED serverVars PROVE Streams'
  <2> DEFINE k == IF c \in Impostors THEN BadCredentials ELSE GoodCredentials
  <2>1. LoginRequest(k) \in Seq(Byte) /\ Asks(LoginRequest(k)) = 1
    BY AsksPackets
  <2>2. /\ Write(c, LoginRequest(k)) /\ logins' = [logins EXCEPT ![c] = @ + 1]
        /\ UNCHANGED << m_buffer, offset, snd, conn, handled, rcv, pc, events, sending >>
    BY <1>19 DEF login
  <2> HIDE DEF k
  <2>3. /\ Asks(net'[c]) \in Nat /\ Asks(net'[c]) <= Asks(net[c]) + 1
        /\ \A d \in Clients : d # c => net'[d] = net[d]
    BY <2>1, <2>2, WriteAsks
  <2>4. ASSUME NEW d \in Clients, d # c PROVE FramedClient(d)'
    BY <2>2, <2>3, <2>4, OwedNothing, FramedKept DEF Streams, Types, ClientTypes
  <2>5. Stream(c)' = Stream(c)
    BY <2>2, OwedNothing DEF Stream, Rest
  <2>6. logins'[c] = logins[c] + 1
    BY <2>2 DEF Types, ClientTypes
  <2>7. FramedClient(c)'
    BY <2>2, <2>3, <2>5, <2>6, FramedAsks DEF Streams, FramedClient
  <2> QED
    BY <2>4, <2>7 DEF Streams
<1>20. ASSUME NEW c \in Clients, logout(c), UNCHANGED serverVars PROVE Streams'
  <2>1. LogoutRequest \in Seq(Byte) /\ Asks(LogoutRequest) = 0
    BY AsksPackets
  <2>2. /\ Write(c, LogoutRequest)
        /\ UNCHANGED << m_buffer, offset, snd, conn, handled, logins, rcv, pc, events, sending >>
    BY <1>20 DEF logout
  <2>3. /\ Asks(net'[c]) \in Nat /\ Asks(net'[c]) <= Asks(net[c]) + 0
        /\ \A d \in Clients : d # c => net'[d] = net[d]
    BY <2>1, <2>2, WriteAsks
  <2>4. ASSUME NEW d \in Clients, d # c PROVE FramedClient(d)'
    BY <2>2, <2>3, <2>4, OwedNothing, FramedKept DEF Streams
  <2>5. Stream(c)' = Stream(c)
    BY <2>2, OwedNothing DEF Stream, Rest
  <2>6. logins'[c] = logins[c] + 0
    BY <2>2, Counts
  <2>7. FramedClient(c)'
    BY <2>2, <2>3, <2>5, <2>6, FramedAsks DEF Streams, FramedClient
  <2> QED
    BY <2>4, <2>7 DEF Streams
<1>21. ASSUME NEW c \in Clients, kill(c), UNCHANGED serverVars PROVE Streams'
  <2>1. UNCHANGED << m_buffer, offset, snd, handled, logins, rcv, pc, events, sending >>
    BY <1>21 DEF kill
  <2>2. CASE conn' = [conn EXCEPT ![c] = IF @ = "up" THEN "closing" ELSE @] /\ UNCHANGED net
    <3>1. conn'[c] = "closing" \/ conn'[c] = conn[c]
      BY <2>2 DEF Types, WireTypes
    <3>2. \A d \in Clients : d # c => conn'[d] = conn[d]
      BY <2>2 DEF Types, WireTypes
    <3> QED
      BY <2>1, <2>2, <3>1, <3>2, Gone
  <2>3. CASE conn' = [conn EXCEPT ![c] = "rst"] /\ net' = [net EXCEPT ![c] = << >>]
    <3>1. conn'[c] = "rst" /\ conn'[c] \notin {"none", "up"} /\ net'[c] \in {net[c], << >>}
      BY <2>3 DEF Types, WireTypes
    <3>2. \A d \in Clients : d # c => conn'[d] = conn[d] /\ net'[d] = net[d]
      BY <2>3 DEF Types, WireTypes
    <3>3. ASSUME NEW d \in Clients, d # c PROVE FramedClient(d)'
      <4>1. Owed(d)' = Owed(d)
        BY <2>1, <3>2, <3>3 DEF Owed, Current
      <4> QED
        BY <2>1, <3>2, <3>3, <4>1, FramedKept DEF Streams
    <3>4. FramedClient(c)'
      BY <2>1, <3>1, FramedCut DEF Streams
    <3> QED
      BY <3>3, <3>4 DEF Streams
  <2> QED
    BY <1>21, <2>2, <2>3 DEF kill
<1>22. ASSUME NEW c \in Clients, readFromSocket(c), UNCHANGED serverVars PROVE Streams'
  <2> DEFINE room == BufferSize - Len(m_buffer[c])
             n == Min({Len(snd[c]), room})
             A == SubSeq(snd[c], 1, n)
             B == Drop(snd[c], n)
  <2>1. /\ snd[c] \in Seq(Byte) /\ m_buffer[c] \in Seq(Byte)
        /\ Len(m_buffer[c]) \in Nat /\ Len(m_buffer[c]) < BufferSize /\ offset[c] = 0
    BY <1>22, LenProperties DEF readFromSocket, Types, WireTypes, ClientTypes, ShortRest
  <2>2. /\ m_buffer' = [m_buffer EXCEPT ![c] = @ \o A] /\ snd' = [snd EXCEPT ![c] = B]
        /\ UNCHANGED << offset, handled, logins, conn, net, rcv, pc, events, sending >>
    BY <1>22 DEF readFromSocket
  <2>3. room \in Nat
    BY <2>1, ClientAssumption
  <2> HIDE DEF room
  <2>4. A \in Seq(Byte) /\ B \in Seq(Byte) /\ A \o B = snd[c]
    BY <2>1, <2>3, Transfer
  <2> HIDE DEF n, A, B
  <2>5. /\ m_buffer'[c] = m_buffer[c] \o A /\ snd'[c] = B
        /\ \A d \in Clients : d # c => m_buffer'[d] = m_buffer[d] /\ snd'[d] = snd[d]
    BY <2>2 DEF Types, WireTypes, ClientTypes
  <2>6. m_buffer[c] \o A \in Seq(Byte)
    BY <2>1, <2>4, ConcatProperties
  <2>7. Rest(c) = m_buffer[c]
    BY <2>1, DropNothing DEF Rest
  <2>8. Rest(c)' = m_buffer[c] \o A
    <3>1. Rest(c)' = Drop(m_buffer[c] \o A, 0)
      BY <2>1, <2>2, <2>5 DEF Rest
    <3> QED
      BY <2>6, <3>1, DropNothing
  <2>9. (m_buffer[c] \o A) \o B = m_buffer[c] \o snd[c]
    <3>1. (m_buffer[c] \o A) \o B = m_buffer[c] \o (A \o B)
      BY <2>1, <2>4, Regroup
    <3> QED
      BY <2>4, <3>1
  <2>10. Stream(c)' = Stream(c)
    BY <2>2, <2>5, <2>7, <2>8, <2>9, OwedNothing DEF Stream
  <2>11. FramedClient(c)'
    BY <2>2, <2>10 DEF Streams, FramedClient
  <2>12. ASSUME NEW d \in Clients, d # c PROVE FramedClient(d)'
    BY <2>2, <2>5, <2>12, OwedNothing, FramedKept DEF Streams
  <2> QED
    BY <2>11, <2>12 DEF Streams
<1>23. ASSUME NEW c \in Clients, readFails(c), UNCHANGED serverVars PROVE Streams'
  <2>1. /\ UNCHANGED << m_buffer, offset, snd, conn, handled, logins, rcv, net >>
        /\ UNCHANGED << pc, events, sending >> \/ (pc # "write" /\ pc' # "write")
    BY <1>23 DEF readFails, Types, ServerTypes
  <2> QED
    BY <2>1, StreamsKept
<1>24. ASSUME NEW c \in Clients, processMessage(c), UNCHANGED serverVars PROVE Streams'
  <2> DEFINE r == Drop(Rest(c), 4)
             t == (r \o snd[c]) \o Owed(c)
  <2>1. Complete(Rest(c))
    BY <1>24 DEF processMessage
  <2>2. /\ SubSeq(Rest(c), 1, HeaderSize + PacketLength(Rest(c))) = LoginAccepted
        /\ Len(Rest(c)) >= 4 /\ Len(LoginAccepted) = 4
    BY <2>1, WholeAnswer
  <2>3. /\ handled' = [handled EXCEPT ![c] = Append(@, LoginAccepted)]
        /\ offset' = [offset EXCEPT ![c] = @ + 4]
        /\ UNCHANGED << m_buffer, logins, conn, rcv, snd, pc, events, sending >>
        /\ Write(c, EnterOrder) \/ UNCHANGED net
    BY <1>24, <2>2 DEF processMessage
  <2>4. /\ Rest(c) \in Seq(Byte) /\ r \in Seq(Byte) /\ r = Drop(m_buffer[c], offset[c] + 4)
    <3>1. /\ m_buffer[c] \in Seq(Byte) /\ offset[c] \in Nat /\ Len(m_buffer[c]) \in Nat
          /\ Rest(c) \in Seq(Byte) /\ Len(Rest(c)) = Len(m_buffer[c]) - offset[c]
      BY RestType, LenProperties DEF Types, ClientTypes
    <3>2. 4 \in 0 .. Len(Rest(c)) /\ offset[c] + 4 <= Len(m_buffer[c]) /\ 4 \in Nat
      BY <2>2, <3>1
    <3> QED
      BY <3>1, <3>2, CutInTwo, DropTwice DEF Rest
  <2>5. /\ offset'[c] = offset[c] + 4 /\ Len(handled'[c]) = Len(handled[c]) + 1
        /\ \A d \in Clients : d # c => offset'[d] = offset[d] /\ handled'[d] = handled[d]
    BY <2>3 DEF Types, ClientTypes
  <2>6. Rest(c)' = r
    BY <2>3, <2>4, <2>5 DEF Rest
  <2>7. Stream(c)' = t
    BY <2>3, <2>6, OwedNothing DEF Stream
  <2>8. Stream(c) = LoginAccepted \o t
    <3>1. /\ snd[c] \in Seq(Byte) /\ Owed(c) \in Seq(Byte) /\ LoginAccepted \in Seq(Byte)
          /\ Rest(c) = LoginAccepted \o r
      <4>1. SubSeq(Rest(c), 1, 4) = LoginAccepted /\ 4 \in 0 .. Len(Rest(c))
        BY <2>1, WholeAnswer, StreamParts
      <4> QED
        BY <2>4, <4>1, StreamParts, CutInTwo
    <3> HIDE DEF r
    <3>2. r \o snd[c] \in Seq(Byte) /\ Rest(c) \o snd[c] = LoginAccepted \o (r \o snd[c])
      <4>1. r \in Seq(Byte)
        BY <2>4 DEF r
      <4>2. r \o snd[c] \in Seq(Byte)
        BY <3>1, <4>1, ConcatProperties
      <4>3. (LoginAccepted \o r) \o snd[c] = LoginAccepted \o (r \o snd[c])
        BY <3>1, <4>1, Regroup
      <4> QED
        BY <3>1, <4>2, <4>3
    <3>3. Stream(c) = (LoginAccepted \o (r \o snd[c])) \o Owed(c)
      BY <3>2 DEF Stream
    <3> QED
      BY <3>1, <3>2, <3>3, Regroup
  <2>9. t = Drop(Stream(c), 4)
    <3>1. LoginAccepted \in Seq(Byte) /\ r \in Seq(Byte) /\ snd[c] \in Seq(Byte) /\ Owed(c) \in Seq(Byte)
      BY <2>1, <2>4, WholeAnswer, StreamParts
    <3>2. t \in Seq(Byte)
      BY <3>1, ConcatProperties
    <3> HIDE DEF t
    <3>3. Drop(LoginAccepted \o t, Len(LoginAccepted)) = t
      BY <3>1, <3>2, DropConcat
    <3> QED
      BY <2>2, <2>8, <3>3
  <2>10. /\ Asks(net'[c]) \in Nat /\ Asks(net'[c]) <= Asks(net[c]) + 0
         /\ \A d \in Clients : d # c => net'[d] = net[d]
    <3>1. CASE Write(c, EnterOrder)
      BY <3>1, WriteAsks, AsksPackets
    <3>2. CASE UNCHANGED net
      BY <3>2, Counts
    <3> QED
      BY <2>3, <3>1, <3>2
  <2> HIDE DEF r, t
  <2>11. Len(Stream(c)) >= 4
    BY <2>2, StreamParts
  <2>12. FramedClient(c)'
    BY <2>3, <2>5, <2>7, <2>9, <2>10, <2>11, FramedNext DEF Streams, FramedClient
  <2>13. ASSUME NEW d \in Clients, d # c PROVE FramedClient(d)'
    BY <2>3, <2>5, <2>10, <2>13, OwedNothing, FramedKept DEF Streams
  <2> QED
    BY <2>12, <2>13 DEF Streams
<1>25. ASSUME NEW c \in Clients, processEnd(c), UNCHANGED serverVars PROVE Streams'
  <2>1. /\ m_buffer' = [m_buffer EXCEPT ![c] = Rest(c)] /\ offset' = [offset EXCEPT ![c] = 0]
        /\ UNCHANGED << handled, logins, wireVars, pc, events, sending >>
    BY <1>25 DEF processEnd
  <2>2. Rest(c) \in Seq(Byte)
    BY RestType
  <2>3. /\ m_buffer'[c] = Rest(c) /\ offset'[c] = 0
        /\ \A d \in Clients : d # c => m_buffer'[d] = m_buffer[d] /\ offset'[d] = offset[d]
    BY <2>1 DEF Types, ClientTypes
  <2>4. Rest(c)' = Rest(c)
    <3>1. Rest(c)' = Drop(Rest(c), 0)
      BY <2>3 DEF Rest
    <3> QED
      BY <2>2, <3>1, DropNothing
  <2>5. FramedClient(c)'
    <3>1. Stream(c)' = Stream(c)
      BY <2>1, <2>4, OwedNothing DEF Stream
    <3> QED
      BY <2>1, <3>1 DEF Streams, FramedClient
  <2>6. ASSUME NEW d \in Clients, d # c PROVE FramedClient(d)'
    BY <2>1, <2>3, <2>6, OwedNothing, FramedKept DEF Streams
  <2> QED
    BY <2>5, <2>6 DEF Streams
<1>26. ASSUME NEW c \in Clients, joined(c), UNCHANGED serverVars PROVE Streams'
  <2>1. UNCHANGED << m_buffer, offset, snd, handled, logins, rcv, net, pc, events, sending >>
    BY <1>26 DEF joined
  <2>2. /\ conn'[c] \notin {"none", "up"} \/ (conn'[c] = conn[c] /\ net'[c] = net[c])
        /\ net'[c] \in {net[c], << >>}
        /\ \A d \in Clients : d # c => conn'[d] = conn[d] /\ net'[d] = net[d]
    BY <1>26 DEF joined, Types, WireTypes
  <2> QED
    BY <2>1, <2>2, Gone
<1>27. ASSUME NEW c \in Clients, Arrive(c), UNCHANGED << serverVars, clientVars >> PROVE Streams'
  <2>1. PICK n \in {Len(net[c])} \cup {k \in Cuts[c] : k < Len(net[c])} :
            /\ rcv' = [rcv EXCEPT ![c] = @ \o SubSeq(net[c], 1, n)]
            /\ net' = [net EXCEPT ![c] = Drop(@, n)]
    BY <1>27 DEF Arrive
  <2>2. rcv[c] \in Seq(Byte) /\ net[c] \in Seq(Byte) /\ n \in 0 .. Len(net[c])
    BY LenProperties, WireAssumption DEF Types, WireTypes
  <2>3. /\ SubSeq(net[c], 1, n) \in Seq(Byte)
        /\ Asks(net[c]) = Asks(SubSeq(net[c], 1, n)) + Asks(Drop(net[c], n))
        /\ Asks(SubSeq(net[c], 1, n)) \in Nat /\ Asks(Drop(net[c], n)) \in Nat
    BY <2>2, CutInTwo, AsksCut
  <2>4. Asks(rcv[c] \o SubSeq(net[c], 1, n)) = Asks(rcv[c]) + Asks(SubSeq(net[c], 1, n)) /\ Asks(rcv[c]) \in Nat
    BY <2>2, <2>3, AsksConcat, AsksFinite
  <2>5. /\ rcv'[c] = rcv[c] \o SubSeq(net[c], 1, n) /\ net'[c] = Drop(net[c], n)
        /\ \A d \in Clients : d # c => rcv'[d] = rcv[d] /\ net'[d] = net[d]
    BY <2>1 DEF Types, WireTypes
  <2>6. Asks(rcv'[c]) + Asks(net'[c]) = Asks(rcv[c]) + Asks(net[c])
    <3> DEFINE x == Asks(SubSeq(net[c], 1, n))
               y == Asks(Drop(net[c], n))
    <3>1. Asks(rcv'[c]) = Asks(rcv[c]) + x /\ Asks(net'[c]) = y /\ Asks(net[c]) = x + y
      BY <2>3, <2>4, <2>5
    <3>2. x \in Nat /\ y \in Nat /\ Asks(rcv[c]) \in Nat
      BY <2>3, <2>4
    <3> HIDE DEF x, y
    <3> QED
      BY ONLY <3>1, <3>2
  <2>7. UNCHANGED << m_buffer, offset, snd, conn, handled, logins, pc, events, sending >>
    BY <1>27 DEF Arrive
  <2>8. ASSUME NEW d \in Clients, d # c PROVE FramedClient(d)'
    BY <2>5, <2>7, <2>8, OwedNothing, FramedKept DEF Streams
  <2>9. FramedClient(c)'
    <3>1. Stream(c)' = Stream(c)
      BY <2>7, OwedNothing DEF Stream, Rest
    <3> QED
      BY <2>6, <2>7, <3>1 DEF Streams, FramedClient
  <2> QED
    BY <2>8, <2>9 DEF Streams
<1>28. ASSUME NEW c \in Clients, Bounce(c), UNCHANGED << serverVars, clientVars >> PROVE Streams'
  <2>1. /\ net' = [net EXCEPT ![c] = << >>]
        /\ UNCHANGED << m_buffer, offset, snd, conn, handled, logins, rcv, pc, events, sending >>
    BY <1>28 DEF Bounce
  <2>2. Asks(net'[c]) = 0 /\ \A d \in Clients : d # c => net'[d] = net[d]
    BY <2>1, AsksPackets DEF Types, WireTypes
  <2>3. Asks(net'[c]) \in Nat /\ Asks(net'[c]) <= Asks(net[c]) + 0
    BY <2>2, Counts
  <2>4. ASSUME NEW d \in Clients, d # c PROVE FramedClient(d)'
    BY <2>1, <2>2, <2>4, OwedNothing, FramedKept DEF Streams
  <2>5. Stream(c)' = Stream(c)
    BY <2>1, OwedNothing DEF Stream, Rest
  <2>6. logins'[c] = logins[c] + 0
    BY <2>1, Counts
  <2>7. FramedClient(c)'
    BY <2>1, <2>3, <2>5, <2>6, FramedAsks DEF Streams, FramedClient
  <2> QED
    BY <2>4, <2>7 DEF Streams
<1>29. ASSUME NEW c \in Clients, FinArrives(c), UNCHANGED << serverVars, clientVars >> PROVE Streams'
  <2>1. UNCHANGED << m_buffer, offset, snd, handled, logins, rcv, net, pc, events, sending >>
    BY <1>29 DEF FinArrives
  <2>2. /\ conn'[c] \notin {"none", "up"} \/ (conn'[c] = conn[c] /\ net'[c] = net[c])
        /\ net'[c] \in {net[c], << >>}
        /\ \A d \in Clients : d # c => conn'[d] = conn[d] /\ net'[d] = net[d]
    BY <1>29 DEF FinArrives, Types, WireTypes
  <2> QED
    BY <2>1, <2>2, Gone
<1> QED
BY <1>1, <1>2, <1>3, <1>4, <1>5, <1>6, <1>7, <1>8, <1>9, <1>10, <1>11, <1>12, <1>13, <1>14, <1>15,
     <1>16, <1>17, <1>18, <1>19, <1>20, <1>21, <1>22, <1>23, <1>24, <1>25, <1>26, <1>27, <1>28,
     <1>29 DEF Next, Owner, Server, Client, Transport, ServerThread, ReaderThread, Network

\* Clients that have not begun.
LEMMA NotYetStep ==
    ASSUME Types, NotYet, Next
    PROVE  NotYet'
<1> USE DEF vars, wireVars, streamVars, serverVars, threadVars, clientVars, readerVars
<1>1. ASSUME startThrows, UNCHANGED clientVars PROVE NotYet'
  BY <1>1 DEF startThrows, NotYet
<1>2. ASSUME start, UNCHANGED clientVars PROVE NotYet'
  BY <1>2 DEF start, NotYet
<1>3. ASSUME stop, UNCHANGED clientVars PROVE NotYet'
  BY <1>3 DEF stop, NotYet
<1>4. ASSUME stopJoined, UNCHANGED clientVars PROVE NotYet'
  BY <1>4 DEF stopJoined, CloseAll, NotYet
<1>5. ASSUME serverLoop, UNCHANGED clientVars PROVE NotYet'
  BY <1>5 DEF serverLoop, NotYet
<1>6. ASSUME epollWait, UNCHANGED clientVars PROVE NotYet'
  BY <1>6 DEF epollWait, NotYet
<1>7. ASSUME nextEvent, UNCHANGED clientVars PROVE NotYet'
  BY <1>7 DEF nextEvent, NotYet
<1>8. ASSUME handleNewConnection, UNCHANGED clientVars PROVE NotYet'
  BY <1>8 DEF handleNewConnection, NotYet
<1>9. ASSUME acceptFails, UNCHANGED clientVars PROVE NotYet'
  BY <1>9 DEF acceptFails, NotYet
<1>10. ASSUME addClientToEpollFails, UNCHANGED clientVars PROVE NotYet'
  BY <1>10 DEF addClientToEpollFails, NotYet
<1>11. ASSUME readChunk, UNCHANGED clientVars PROVE NotYet'
  BY <1>11 DEF readChunk, NotYet
<1>12. ASSUME readEnd, UNCHANGED clientVars PROVE NotYet'
  BY <1>12 DEF readEnd, NotYet
<1>13. ASSUME readAgain, UNCHANGED clientVars PROVE NotYet'
  BY <1>13 DEF readAgain, NotYet
<1>14. ASSUME readErased, UNCHANGED clientVars PROVE NotYet'
  <2>1. UNCHANGED << main, reader, offset, m_buffer, conn >>
    BY <1>14 DEF readErased, Crash, CloseAll
  <2> QED
    BY <2>1 DEF NotYet
<1>15. ASSUME hangUp, UNCHANGED clientVars PROVE NotYet'
  BY <1>15 DEF hangUp, NotYet
<1>16. ASSUME writeSome, UNCHANGED clientVars PROVE NotYet'
  <2>1. UNCHANGED << main, reader, offset, m_buffer >> /\ Current \in Clients
    BY <1>16 DEF writeSome, Types, ServerTypes
  <2>2. \A d \in Clients : conn[d] = "none" => conn'[d] = "none"
    BY <1>16, <2>1 DEF writeSome, Types, WireTypes
  <2> QED
    BY <2>1, <2>2 DEF NotYet
<1>17. ASSUME writeSignal, UNCHANGED clientVars PROVE NotYet'
  <2>1. UNCHANGED << main, reader, offset, m_buffer, conn >>
    BY <1>17 DEF writeSignal, Crash, CloseAll
  <2> QED
    BY <2>1 DEF NotYet
<1>18. ASSUME NEW c \in Clients, construct(c), UNCHANGED serverVars PROVE NotYet'
  <2>1. \A d \in Clients :
            main'[d] = "new" => /\ main[d] = "new"
                                /\ conn'[d] = conn[d] /\ reader'[d] = reader[d]
                                /\ offset'[d] = offset[d] /\ m_buffer'[d] = m_buffer[d]
    BY <1>18 DEF construct, NotYet, Types, WireTypes, ClientTypes
  <2> QED
    BY <2>1 DEF NotYet
<1>19. ASSUME NEW c \in Clients, login(c), UNCHANGED serverVars PROVE NotYet'
  <2>1. \A d \in Clients :
            main'[d] = "new" => /\ main[d] = "new"
                                /\ conn'[d] = conn[d] /\ reader'[d] = reader[d]
                                /\ offset'[d] = offset[d] /\ m_buffer'[d] = m_buffer[d]
    BY <1>19 DEF login, NotYet, Types, WireTypes, ClientTypes
  <2> QED
    BY <2>1 DEF NotYet
<1>20. ASSUME NEW c \in Clients, logout(c), UNCHANGED serverVars PROVE NotYet'
  <2>1. \A d \in Clients :
            main'[d] = "new" => /\ main[d] = "new"
                                /\ conn'[d] = conn[d] /\ reader'[d] = reader[d]
                                /\ offset'[d] = offset[d] /\ m_buffer'[d] = m_buffer[d]
    BY <1>20 DEF logout, NotYet, Types, WireTypes, ClientTypes
  <2> QED
    BY <2>1 DEF NotYet
<1>21. ASSUME NEW c \in Clients, kill(c), UNCHANGED serverVars PROVE NotYet'
  <2>1. \A d \in Clients :
            main'[d] = "new" => /\ main[d] = "new"
                                /\ conn'[d] = conn[d] /\ reader'[d] = reader[d]
                                /\ offset'[d] = offset[d] /\ m_buffer'[d] = m_buffer[d]
    BY <1>21 DEF kill, NotYet, Types, WireTypes, ClientTypes
  <2> QED
    BY <2>1 DEF NotYet
<1>22. ASSUME NEW c \in Clients, readFromSocket(c), UNCHANGED serverVars PROVE NotYet'
  <2>1. \A d \in Clients :
            main'[d] = "new" => /\ main[d] = "new"
                                /\ conn'[d] = conn[d] /\ reader'[d] = reader[d]
                                /\ offset'[d] = offset[d] /\ m_buffer'[d] = m_buffer[d]
    BY <1>22 DEF readFromSocket, NotYet, Types, WireTypes, ClientTypes
  <2> QED
    BY <2>1 DEF NotYet
<1>23. ASSUME NEW c \in Clients, readFails(c), UNCHANGED serverVars PROVE NotYet'
  <2>1. \A d \in Clients :
            main'[d] = "new" => /\ main[d] = "new"
                                /\ conn'[d] = conn[d] /\ reader'[d] = reader[d]
                                /\ offset'[d] = offset[d] /\ m_buffer'[d] = m_buffer[d]
    BY <1>23 DEF readFails, NotYet, Types, WireTypes, ClientTypes
  <2> QED
    BY <2>1 DEF NotYet
<1>24. ASSUME NEW c \in Clients, processMessage(c), UNCHANGED serverVars PROVE NotYet'
  <2>1. \A d \in Clients :
            main'[d] = "new" => /\ main[d] = "new"
                                /\ conn'[d] = conn[d] /\ reader'[d] = reader[d]
                                /\ offset'[d] = offset[d] /\ m_buffer'[d] = m_buffer[d]
    BY <1>24 DEF processMessage, NotYet, Types, WireTypes, ClientTypes
  <2> QED
    BY <2>1 DEF NotYet
<1>25. ASSUME NEW c \in Clients, processEnd(c), UNCHANGED serverVars PROVE NotYet'
  <2>1. \A d \in Clients :
            main'[d] = "new" => /\ main[d] = "new"
                                /\ conn'[d] = conn[d] /\ reader'[d] = reader[d]
                                /\ offset'[d] = offset[d] /\ m_buffer'[d] = m_buffer[d]
    BY <1>25 DEF processEnd, NotYet, Types, WireTypes, ClientTypes
  <2> QED
    BY <2>1 DEF NotYet
<1>26. ASSUME NEW c \in Clients, joined(c), UNCHANGED serverVars PROVE NotYet'
  <2>1. \A d \in Clients :
            main'[d] = "new" => /\ main[d] = "new"
                                /\ conn'[d] = conn[d] /\ reader'[d] = reader[d]
                                /\ offset'[d] = offset[d] /\ m_buffer'[d] = m_buffer[d]
    BY <1>26 DEF joined, NotYet, Types, WireTypes, ClientTypes
  <2> QED
    BY <2>1 DEF NotYet
<1>27. ASSUME NEW c \in Clients, Arrive(c), UNCHANGED << serverVars, clientVars >> PROVE NotYet'
  <2>1. \A d \in Clients :
            main'[d] = "new" => /\ main[d] = "new"
                                /\ conn'[d] = conn[d] /\ reader'[d] = reader[d]
                                /\ offset'[d] = offset[d] /\ m_buffer'[d] = m_buffer[d]
    BY <1>27 DEF Arrive, NotYet, Types, WireTypes, ClientTypes
  <2> QED
    BY <2>1 DEF NotYet
<1>28. ASSUME NEW c \in Clients, Bounce(c), UNCHANGED << serverVars, clientVars >> PROVE NotYet'
  <2>1. \A d \in Clients :
            main'[d] = "new" => /\ main[d] = "new"
                                /\ conn'[d] = conn[d] /\ reader'[d] = reader[d]
                                /\ offset'[d] = offset[d] /\ m_buffer'[d] = m_buffer[d]
    BY <1>28 DEF Bounce, NotYet, Types, WireTypes, ClientTypes
  <2> QED
    BY <2>1 DEF NotYet
<1>29. ASSUME NEW c \in Clients, FinArrives(c), UNCHANGED << serverVars, clientVars >> PROVE NotYet'
  <2>1. \A d \in Clients :
            main'[d] = "new" => /\ main[d] = "new"
                                /\ conn'[d] = conn[d] /\ reader'[d] = reader[d]
                                /\ offset'[d] = offset[d] /\ m_buffer'[d] = m_buffer[d]
    BY <1>29 DEF FinArrives, NotYet, Types, WireTypes, ClientTypes
  <2> QED
    BY <2>1 DEF NotYet
<1> QED
BY <1>1, <1>2, <1>3, <1>4, <1>5, <1>6, <1>7, <1>8, <1>9, <1>10, <1>11, <1>12, <1>13, <1>14, <1>15,
     <1>16, <1>17, <1>18, <1>19, <1>20, <1>21, <1>22, <1>23, <1>24, <1>25, <1>26, <1>27, <1>28,
     <1>29 DEF Next, Owner, Server, Client, Transport, ServerThread, ReaderThread, Network

\* The reader's buffer.
LEMMA ShortRestStep ==
    ASSUME Types, NotYet, Streams, ShortRest, Next
    PROVE  ShortRest'
<1> USE DEF vars, wireVars, streamVars, serverVars, threadVars, clientVars, readerVars
<1>1. ASSUME startThrows, UNCHANGED clientVars PROVE ShortRest'
  BY <1>1 DEF ShortRest
<1>2. ASSUME start, UNCHANGED clientVars PROVE ShortRest'
  BY <1>2 DEF ShortRest
<1>3. ASSUME stop, UNCHANGED clientVars PROVE ShortRest'
  BY <1>3 DEF ShortRest
<1>4. ASSUME stopJoined, UNCHANGED clientVars PROVE ShortRest'
  BY <1>4 DEF ShortRest
<1>5. ASSUME serverLoop, UNCHANGED clientVars PROVE ShortRest'
  BY <1>5 DEF ShortRest
<1>6. ASSUME epollWait, UNCHANGED clientVars PROVE ShortRest'
  BY <1>6 DEF ShortRest
<1>7. ASSUME nextEvent, UNCHANGED clientVars PROVE ShortRest'
  BY <1>7 DEF ShortRest
<1>8. ASSUME handleNewConnection, UNCHANGED clientVars PROVE ShortRest'
  BY <1>8 DEF ShortRest
<1>9. ASSUME acceptFails, UNCHANGED clientVars PROVE ShortRest'
  BY <1>9 DEF ShortRest
<1>10. ASSUME addClientToEpollFails, UNCHANGED clientVars PROVE ShortRest'
  BY <1>10 DEF ShortRest
<1>11. ASSUME readChunk, UNCHANGED clientVars PROVE ShortRest'
  BY <1>11 DEF ShortRest
<1>12. ASSUME readEnd, UNCHANGED clientVars PROVE ShortRest'
  BY <1>12 DEF ShortRest
<1>13. ASSUME readAgain, UNCHANGED clientVars PROVE ShortRest'
  BY <1>13 DEF ShortRest
<1>14. ASSUME readErased, UNCHANGED clientVars PROVE ShortRest'
  BY <1>14 DEF ShortRest
<1>15. ASSUME hangUp, UNCHANGED clientVars PROVE ShortRest'
  BY <1>15 DEF ShortRest
<1>16. ASSUME writeSome, UNCHANGED clientVars PROVE ShortRest'
  BY <1>16 DEF ShortRest
<1>17. ASSUME writeSignal, UNCHANGED clientVars PROVE ShortRest'
  BY <1>17 DEF ShortRest
<1>18. ASSUME NEW c \in Clients, construct(c), UNCHANGED serverVars PROVE ShortRest'
  <2>1. /\ UNCHANGED << offset, m_buffer >>
        /\ \A d \in Clients : d # c => reader'[d] = reader[d]
        /\ offset[c] = 0 /\ m_buffer[c] = << >>
    BY <1>18 DEF construct, NotYet, Types, ClientTypes
  <2>2. Len(m_buffer[c]) < 4
    BY <2>1
  <2> QED
    BY <2>1, <2>2 DEF ShortRest
<1>19. ASSUME NEW c \in Clients, login(c), UNCHANGED serverVars PROVE ShortRest'
  <2>1. UNCHANGED << offset, m_buffer >> /\ \A d \in Clients : reader'[d] = "read" => reader[d] = "read"
    BY <1>19 DEF login, Types, ClientTypes
  <2> QED
    BY <2>1 DEF ShortRest
<1>20. ASSUME NEW c \in Clients, logout(c), UNCHANGED serverVars PROVE ShortRest'
  <2>1. UNCHANGED << offset, m_buffer >> /\ \A d \in Clients : reader'[d] = "read" => reader[d] = "read"
    BY <1>20 DEF logout, Types, ClientTypes
  <2> QED
    BY <2>1 DEF ShortRest
<1>21. ASSUME NEW c \in Clients, kill(c), UNCHANGED serverVars PROVE ShortRest'
  <2>1. UNCHANGED << offset, m_buffer >> /\ \A d \in Clients : reader'[d] = "read" => reader[d] = "read"
    BY <1>21 DEF kill, Types, ClientTypes
  <2> QED
    BY <2>1 DEF ShortRest
<1>22. ASSUME NEW c \in Clients, readFromSocket(c), UNCHANGED serverVars PROVE ShortRest'
  <2>1. UNCHANGED offset /\ \A d \in Clients : reader'[d] = "read" => d # c /\ reader[d] = "read" /\ m_buffer'[d] = m_buffer[d]
    BY <1>22 DEF readFromSocket, Types, ClientTypes
  <2> QED
    BY <2>1 DEF ShortRest
<1>23. ASSUME NEW c \in Clients, readFails(c), UNCHANGED serverVars PROVE ShortRest'
  <2>1. UNCHANGED << offset, m_buffer >> /\ \A d \in Clients : reader'[d] = "read" => reader[d] = "read"
    BY <1>23 DEF readFails, Types, ClientTypes
  <2> QED
    BY <2>1 DEF ShortRest
<1>24. ASSUME NEW c \in Clients, processMessage(c), UNCHANGED serverVars PROVE ShortRest'
  <2>1. UNCHANGED << m_buffer, reader >> /\ \A d \in Clients : reader[d] = "read" => offset'[d] = offset[d]
    BY <1>24 DEF processMessage, Types, ClientTypes
  <2> QED
    BY <2>1 DEF ShortRest
<1>25. ASSUME NEW c \in Clients, processEnd(c), UNCHANGED serverVars PROVE ShortRest'
  <2>1. /\ ~Complete(Rest(c)) /\ offset'[c] = 0 /\ m_buffer'[c] = Rest(c)
        /\ \A d \in Clients : d # c => /\ reader'[d] = reader[d] /\ offset'[d] = offset[d]
                                    /\ m_buffer'[d] = m_buffer[d]
    BY <1>25 DEF processEnd, Types, ClientTypes
  <2>2. Len(Rest(c)) < 4
    BY <2>1, ShortUnlessComplete, RestType DEF Streams
  <2> QED
    BY <2>1, <2>2 DEF ShortRest
<1>26. ASSUME NEW c \in Clients, joined(c), UNCHANGED serverVars PROVE ShortRest'
  <2>1. UNCHANGED << offset, m_buffer >> /\ \A d \in Clients : reader'[d] = "read" => reader[d] = "read"
    BY <1>26 DEF joined, Types, ClientTypes
  <2> QED
    BY <2>1 DEF ShortRest
<1>27. ASSUME NEW c \in Clients, Arrive(c), UNCHANGED << serverVars, clientVars >> PROVE ShortRest'
  BY <1>27 DEF ShortRest
<1>28. ASSUME NEW c \in Clients, Bounce(c), UNCHANGED << serverVars, clientVars >> PROVE ShortRest'
  BY <1>28 DEF ShortRest
<1>29. ASSUME NEW c \in Clients, FinArrives(c), UNCHANGED << serverVars, clientVars >> PROVE ShortRest'
  BY <1>29 DEF ShortRest
<1> QED
BY <1>1, <1>2, <1>3, <1>4, <1>5, <1>6, <1>7, <1>8, <1>9, <1>10, <1>11, <1>12, <1>13, <1>14, <1>15,
     <1>16, <1>17, <1>18, <1>19, <1>20, <1>21, <1>22, <1>23, <1>24, <1>25, <1>26, <1>27, <1>28,
     <1>29 DEF Next, Owner, Server, Client, Transport, ServerThread, ReaderThread, Network

\* The messages handed over.
LEMMA HandledWholeStep ==
    ASSUME Types, Streams, HandledWhole, Next
    PROVE  HandledWhole'
<1> USE DEF vars, wireVars, streamVars, serverVars, threadVars, clientVars, readerVars
<1>1. ASSUME startThrows, UNCHANGED clientVars PROVE HandledWhole'
  BY <1>1 DEF HandledWhole
<1>2. ASSUME start, UNCHANGED clientVars PROVE HandledWhole'
  BY <1>2 DEF HandledWhole
<1>3. ASSUME stop, UNCHANGED clientVars PROVE HandledWhole'
  BY <1>3 DEF HandledWhole
<1>4. ASSUME stopJoined, UNCHANGED clientVars PROVE HandledWhole'
  BY <1>4 DEF HandledWhole
<1>5. ASSUME serverLoop, UNCHANGED clientVars PROVE HandledWhole'
  BY <1>5 DEF HandledWhole
<1>6. ASSUME epollWait, UNCHANGED clientVars PROVE HandledWhole'
  BY <1>6 DEF HandledWhole
<1>7. ASSUME nextEvent, UNCHANGED clientVars PROVE HandledWhole'
  BY <1>7 DEF HandledWhole
<1>8. ASSUME handleNewConnection, UNCHANGED clientVars PROVE HandledWhole'
  BY <1>8 DEF HandledWhole
<1>9. ASSUME acceptFails, UNCHANGED clientVars PROVE HandledWhole'
  BY <1>9 DEF HandledWhole
<1>10. ASSUME addClientToEpollFails, UNCHANGED clientVars PROVE HandledWhole'
  BY <1>10 DEF HandledWhole
<1>11. ASSUME readChunk, UNCHANGED clientVars PROVE HandledWhole'
  BY <1>11 DEF HandledWhole
<1>12. ASSUME readEnd, UNCHANGED clientVars PROVE HandledWhole'
  BY <1>12 DEF HandledWhole
<1>13. ASSUME readAgain, UNCHANGED clientVars PROVE HandledWhole'
  BY <1>13 DEF HandledWhole
<1>14. ASSUME readErased, UNCHANGED clientVars PROVE HandledWhole'
  BY <1>14 DEF HandledWhole
<1>15. ASSUME hangUp, UNCHANGED clientVars PROVE HandledWhole'
  BY <1>15 DEF HandledWhole
<1>16. ASSUME writeSome, UNCHANGED clientVars PROVE HandledWhole'
  BY <1>16 DEF HandledWhole
<1>17. ASSUME writeSignal, UNCHANGED clientVars PROVE HandledWhole'
  BY <1>17 DEF HandledWhole
<1>18. ASSUME NEW c \in Clients, construct(c), UNCHANGED serverVars PROVE HandledWhole'
  BY <1>18 DEF construct, HandledWhole
<1>19. ASSUME NEW c \in Clients, login(c), UNCHANGED serverVars PROVE HandledWhole'
  BY <1>19 DEF login, HandledWhole
<1>20. ASSUME NEW c \in Clients, logout(c), UNCHANGED serverVars PROVE HandledWhole'
  BY <1>20 DEF logout, HandledWhole
<1>21. ASSUME NEW c \in Clients, kill(c), UNCHANGED serverVars PROVE HandledWhole'
  BY <1>21 DEF kill, HandledWhole
<1>22. ASSUME NEW c \in Clients, readFromSocket(c), UNCHANGED serverVars PROVE HandledWhole'
  BY <1>22 DEF readFromSocket, HandledWhole
<1>23. ASSUME NEW c \in Clients, readFails(c), UNCHANGED serverVars PROVE HandledWhole'
  BY <1>23 DEF readFails, HandledWhole
<1>24. ASSUME NEW c \in Clients, processMessage(c), UNCHANGED serverVars PROVE HandledWhole'
  <2>1. SubSeq(Rest(c), 1, HeaderSize + PacketLength(Rest(c))) = LoginAccepted
    BY <1>24, WholeAnswer DEF processMessage
  <2>2. handled' = [handled EXCEPT ![c] = Append(handled[c], LoginAccepted)]
    BY <1>24, <2>1 DEF processMessage
  <2>3. handled[c] \in Seq(Seq(Byte)) /\ Len(handled[c]) \in Nat /\ LoginAccepted \in Seq(Byte)
    BY <1>24, LenProperties, WholeAnswer DEF processMessage, Types, ClientTypes
  <2>4. /\ handled'[c] = Append(handled[c], LoginAccepted)
        /\ \A d \in Clients : d # c => handled'[d] = handled[d]
    BY <2>2 DEF Types, ClientTypes
  <2>5. \A i \in 1 .. Len(handled'[c]) : handled'[c][i] = LoginAccepted
    BY <2>3, <2>4 DEF HandledWhole
  <2> QED
    BY <2>4, <2>5 DEF HandledWhole
<1>25. ASSUME NEW c \in Clients, processEnd(c), UNCHANGED serverVars PROVE HandledWhole'
  BY <1>25 DEF processEnd, HandledWhole
<1>26. ASSUME NEW c \in Clients, joined(c), UNCHANGED serverVars PROVE HandledWhole'
  BY <1>26 DEF joined, HandledWhole
<1>27. ASSUME NEW c \in Clients, Arrive(c), UNCHANGED << serverVars, clientVars >> PROVE HandledWhole'
  BY <1>27 DEF HandledWhole
<1>28. ASSUME NEW c \in Clients, Bounce(c), UNCHANGED << serverVars, clientVars >> PROVE HandledWhole'
  BY <1>28 DEF HandledWhole
<1>29. ASSUME NEW c \in Clients, FinArrives(c), UNCHANGED << serverVars, clientVars >> PROVE HandledWhole'
  BY <1>29 DEF HandledWhole
<1> QED
BY <1>1, <1>2, <1>3, <1>4, <1>5, <1>6, <1>7, <1>8, <1>9, <1>10, <1>11, <1>12, <1>13, <1>14, <1>15,
     <1>16, <1>17, <1>18, <1>19, <1>20, <1>21, <1>22, <1>23, <1>24, <1>25, <1>26, <1>27, <1>28,
     <1>29 DEF Next, Owner, Server, Client, Transport, ServerThread, ReaderThread, Network

----------------------------------------------------------------------------
(* The theorems. *)

\* The state before anything has happened.
LEMMA InitInv == Init => SessionInv
<1> SUFFICES ASSUME Init PROVE SessionInv
  OBVIOUS
<1> USE DEF Init, WireInit, ServerInit, ClientInit
<1>1. WireTypes
  <2>1. conn \in [Clients -> ConnStates]
    BY DEF ConnStates
  <2>2. net \in [Clients -> Seq(Byte)] /\ rcv \in [Clients -> Seq(Byte)] /\ snd \in [Clients -> Seq(Byte)]
    OBVIOUS
  <2>3. shut \in [Clients -> BOOLEAN] /\ reset \in [Clients -> BOOLEAN] /\ listening \in BOOLEAN
    BY Zenon
  <2>4. backlog \in Seq(Clients) /\ interest \subseteq Clients /\ ready \subseteq Clients \cup {Listener}
    OBVIOUS
  <2> QED
    BY ONLY <2>1, <2>2, <2>3, <2>4, Zenon DEF WireTypes
<1>2. ServerTypes
  <2>1. m_running \in BOOLEAN
    BY Zenon
  <2>2. events = << >> /\ events \in Seq(Event) /\ sending \in Seq(Byte)
    OBVIOUS
  <2>3. m_clients \subseteq Clients /\ owner = "new" /\ pc = "none" /\ fault = "none"
    OBVIOUS
  <2> QED
    BY ONLY <2>1, <2>2, <2>3 DEF ServerTypes
<1>3. ClientTypes
  BY ClientAssumption DEF ClientTypes
<1>4. Registered /\ NothingMissed /\ NotYet /\ ShortRest /\ HandledWhole
  BY DEF Registered, NothingMissed, NotYet, ShortRest, HandledWhole
<1>5. ASSUME NEW c \in Clients PROVE FramedClient(c)
  <2>1. /\ m_buffer[c] = << >> /\ offset[c] = 0 /\ snd[c] = << >> /\ pc = "none" /\ conn[c] = "none"
        /\ handled[c] = << >> /\ rcv[c] = << >> /\ net[c] = << >> /\ logins[c] = 0
    OBVIOUS
  <2>2. << >> \in Seq(Byte) /\ Asks(<< >>) = 0 /\ Len(<< >>) = 0
    BY AsksPackets
  <2>3. Owed(c) = << >>
    BY <2>1 DEF Owed
  <2>4. Rest(c) = << >>
    BY <2>1, <2>2, DropNothing DEF Rest
  <2>5. << >> \o << >> = << >>
    BY <2>2, ConcatEmptySeq
  <2>6. Stream(c) = << >>
    BY <2>1, <2>3, <2>4, <2>5 DEF Stream
  <2>7. Framed(<< >>, "none", 0, 0 + 0, 0)
    BY <2>2 DEF Framed, Answers
  <2> QED
    BY <2>1, <2>2, <2>6, <2>7 DEF FramedClient
<1> QED
  BY <1>1, <1>2, <1>3, <1>4, <1>5 DEF SessionInv, Types, Streams

\* Every step.
LEMMA NextStep == SessionInv /\ [Next]_vars => SessionInv'
<1> SUFFICES ASSUME SessionInv, [Next]_vars PROVE SessionInv'
  OBVIOUS
<1> USE DEF SessionInv
<1>1. CASE UNCHANGED vars
  <2> USE <1>1 DEF vars, wireVars, serverVars, clientVars
  <2>1. Types'
    BY DEF Types, WireTypes, ServerTypes, ClientTypes, Current
  <2>2. Registered' /\ NothingMissed' /\ NotYet' /\ ShortRest' /\ HandledWhole'
    BY DEF Registered, NothingMissed, Told, NotYet, ShortRest, HandledWhole
  <2>3. Streams'
    BY StreamsKept
  <2> QED
    BY <2>1, <2>2, <2>3
<1>2. CASE Next
  <2>1. Types'
    BY <1>2, WireTypesStep, ServerTypesStep, ClientTypesStep DEF Types
  <2> QED
    BY <1>2, <2>1, RegisteredStep, NothingMissedStep, StreamsStep, NotYetStep, ShortRestStep, HandledWholeStep
<1> QED
  BY <1>1, <1>2

\* The inductive invariant is an invariant.
THEOREM SessionInvAlways == Spec => []SessionInv
BY InitInv, NextStep, PTL DEF Spec

\* Server, clients and connections keep their types; in particular processBuffer's
\* offset never passes the data in a client's buffer, nor the data its end.
THEOREM TypeOKAlways == Spec => []TypeOK
<1>1. SessionInv => TypeOK
  BY TypesImply DEF SessionInv
<1> QED
  BY <1>1, SessionInvAlways, PTL

\* The epoll loop misses nobody, although an edge is reported only once.
THEOREM NoLostWakeupAlways == Spec => []NoLostWakeup
<1>1. SessionInv => NoLostWakeup
  <2> SUFFICES ASSUME SessionInv, pc = "wait", ready = {}
               PROVE  /\ backlog = << >> \/ fault = "accept"
                      /\ \A c \in m_clients :
                             \/ rcv[c] = << >> /\ conn[c] \notin {"fin", "rst"}
                             \/ fault = "epoll_ctl" /\ c \notin interest
    BY DEF NoLostWakeup
  <2>1. events = << >>
    BY DEF SessionInv, Types, ServerTypes
  <2>2. \A w : ~Told(w)
    BY <2>1 DEF Told
  <2> QED
    BY <2>2 DEF SessionInv, NothingMissed, Registered
<1> QED
  BY <1>1, SessionInvAlways, PTL

\* handleMessage is given whole messages, and no more of them than the client has
\* logged in, wherever the network and the reads cut the streams.
THEOREM FramesIntactAlways == Spec => []FramesIntact
<1>1. SessionInv => FramesIntact
  <2> SUFFICES ASSUME SessionInv, NEW c \in Clients
               PROVE  /\ \A i \in 1 .. Len(handled[c]) : handled[c][i] = LoginAccepted
                      /\ Len(handled[c]) <= logins[c]
    BY DEF FramesIntact
  <2> DEFINE h == Len(handled[c])
             a == Asks(rcv[c]) + Asks(net[c])
             l == logins[c]
             n == Len(Stream(c))
  <2>1. 4 * (h + a) + n <= 4 * l /\ a \in Nat
    BY DEF SessionInv, Streams, FramedClient, Framed
  <2>2. h \in Nat /\ l \in Nat /\ n \in Nat
    BY Counts DEF SessionInv
  <2> HIDE DEF h, a, l, n
  <2>3. h <= l
    BY ONLY <2>1, <2>2
  <2> QED
    BY <2>3 DEF SessionInv, HandledWhole, h, l
<1> QED
  BY <1>1, SessionInvAlways, PTL

\* read is never called with no room left in the buffer, so startRead ends only when
\* the connection does.
THEOREM RoomToReadAlways == Spec => []RoomToRead
<1>1. SessionInv => RoomToRead
  <2>1. Len(LoginAccepted) = 4
    BY Packets
  <2> SUFFICES ASSUME SessionInv, NEW c \in Clients, reader[c] = "read"
               PROVE  Len(m_buffer[c]) < BufferSize
    BY DEF RoomToRead
  <2>2. Len(m_buffer[c]) < 4 /\ Len(m_buffer[c]) \in Nat
    BY LenProperties DEF SessionInv, ShortRest, Types, ClientTypes
  <2> QED
    BY <2>1, <2>2, ClientAssumption
<1> QED
  BY <1>1, SessionInvAlways, PTL
=============================================================================
