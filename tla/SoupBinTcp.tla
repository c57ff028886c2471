----------------------------- MODULE SoupBinTcp -----------------------------
(***************************************************************************)
(* SoupBinTCP packets as this repository writes and reads them, and the    *)
(* exchange emulator's handler of a chunk read from a client               *)
(* (apps/exchange_emulator.cpp).                                           *)
(*                                                                         *)
(* A packet is a sequence of bytes: a big-endian length, a type, and a     *)
(* body that is cut down to the one byte the handlers tell apart.          *)
(***************************************************************************)
EXTENDS Integers, Sequences

Byte == 0 .. 255

HeaderSize == 2
Header(length) == << length \div 256, length % 256 >>
PacketLength(data) == 256 * data[1] + data[2]

\* PacketType, in ASCII.
TypeLoginRequest == 76
TypeLogoutRequest == 79
TypeUnsequencedData == 85
TypeLoginAccepted == 65

\* The bodies: good and bad credentials, an order, a sequence number.
GoodCredentials == 84
BadCredentials == 88
LoginRequest(credentials) == Header(2) \o << TypeLoginRequest, credentials >>
EnterOrder == Header(2) \o << TypeUnsequencedData, 79 >>
LoginAccepted == Header(2) \o << TypeLoginAccepted, 49 >>

\* logout() writes 3, the size of the whole packet, into the length field.
LogoutRequest == Header(3) \o << TypeLogoutRequest >>

\* What handleSoupBinTcpMessage makes of the bytes of one read: it answers a login
\* with good credentials, disconnects on bad ones and on a logout, and drops what
\* is too short, incomplete or of another type, and what follows the first packet.
handleSoupBinTcpMessage(data) ==
    IF Len(data) < HeaderSize + 1 \/ Len(data) < HeaderSize + PacketLength(data)
    THEN "drop"
    ELSE CASE data[3] = TypeLoginRequest /\ Len(data) >= Len(LoginRequest(GoodCredentials)) ->
                  IF data[4] = GoodCredentials THEN "answer" ELSE "disconnect"
           [] data[3] = TypeLogoutRequest -> "disconnect"
           [] OTHER -> "drop"
=============================================================================
