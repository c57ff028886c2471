-------------------------- MODULE MarketDataClient --------------------------
(***************************************************************************)
(* MarketDataClient (lib/client/market_data_client.cpp) with its           *)
(* UdpMulticastSocket (lib/network/udp_socket.cpp) behind a MoldUDP64      *)
(* feed: the socket's read loop, sequence tracking, the initial            *)
(* synchronisation and the rewind requests.                                *)
(*                                                                         *)
(* The exchange numbers its messages 1, 2, ... and multicasts them in      *)
(* packets [seq, count]; a packet with count 0 is a heartbeat that names   *)
(* the next number.  What is multicast before the client has joined the    *)
(* group does not reach it.                                                *)
(* The rewinder answers a request with one packet that starts at the       *)
(* requested number and holds at most the requested count.  Both are       *)
(* external, and so is the network: packets may be late (Reorder), lost    *)
(* (MaxLoss) or delivered twice (MaxDup).  A request that sendto refuses,  *)
(* which write ignores, is one that is lost.                               *)
(*                                                                         *)
(* applied is the sequence of message numbers handed to the ITCH parser,   *)
(* in that order: what the builder has become is a function of it.         *)
(***************************************************************************)
EXTENDS Integers, Sequences, SequencesExt, FiniteSetsExt

CONSTANTS LastSeq,        \* messages in the session (bound)
          MaxCount,       \* messages in one packet
          CountMod,       \* number of values of the uint16_t message count, 2^16
          MaxHeartbeats,  \* heartbeats sent (bound)
          MaxLoss,        \* packets and requests lost (bound)
          MaxDup,         \* packets delivered twice (bound)
          Reorder,        \* may a live packet overtake another?
          SocketErrors    \* may system calls on the socket fail?

ASSUME ClientAssumption ==
    /\ LastSeq \in Nat /\ MaxCount \in Nat \ {0} /\ CountMod \in Nat \ {0, 1}
    /\ MaxHeartbeats \in Nat /\ MaxLoss \in Nat /\ MaxDup \in Nat
    /\ Reorder \in BOOLEAN /\ SocketErrors \in BOOLEAN

VARIABLES
    \* members of MarketDataClient
    state,          \* m_state
    missing,        \* m_missingSequenceNumbers, a vector popped at its back
    lastRequested,  \* m_lastRequestedSequenceNumber
    rewindTill,     \* m_rewindNeededTillThisSequenceNumberExclusive
    nextExpected,   \* m_nextExpectedSeqNo
    undefined,      \* has back() been called on an empty vector?
    applied,        \* the numbers parsed, in order
    socket,         \* m_multicastSocket: "none", "reading", or "ended" for good
    \* the exchange, the rewinder and the network
    published,      \* the last number multicast
    net,            \* packets in flight
    requests,       \* rewind requests in flight
    budget          \* heartbeats, losses and duplicates still to come

memberVars == << state, missing, lastRequested, rewindTill, nextExpected, undefined, applied >>
clientVars == << memberVars, socket >>
envVars == << published, net, requests, budget >>
vars == << clientVars, envVars >>

Packet == [kind : {"live", "rewound"}, seq : 1 .. LastSeq + 1, count : 0 .. MaxCount]
Request == [seq : 1 .. LastSeq + 1, count : 0 .. CountMod - 1]

Init ==
    /\ state = "Initial"
    /\ missing = << >>
    /\ lastRequested = 0
    /\ rewindTill = 0
    /\ nextExpected = 1
    /\ undefined = FALSE
    /\ applied = << >>
    /\ socket = "none"
    /\ published = 0
    /\ net = {}
    /\ requests = {}
    /\ budget = [heartbeat |-> MaxHeartbeats, loss |-> MaxLoss, dup |-> MaxDup]

Numbers(p) == p.seq .. p.seq + p.count - 1

\* Mutant: every number up to the end of the packet is popped, contained or not.
PoppedUpTo(p) ==
    Max({k \in 0 .. Len(missing) :
            \A i \in 1 .. k : p.count > 0 /\ missing[Len(missing) + 1 - i] < p.seq + p.count})

\* How many numbers a packet pops off the vector: its numbers are tried in ascending
\* order and each one is popped if it is then at the back.
Popped(p) ==
    LET back(i) == missing[Len(missing) + 1 - i]
    IN  Max({k \in 0 .. Len(missing) :
                \A i \in 1 .. k : back(i) \in Numbers(p) /\ (i > 1 => back(i - 1) < back(i))})

\* The loop has emptied the vector before its last number, and reads back() again.
BackOfEmpty(p) ==
    /\ Popped(p) = Len(missing)
    /\ p.count > 0
    /\ missing = << >> \/ missing[1] # p.seq + p.count - 1

\* Mutant: one message too few is requested.
requestMissingPacketsShort(expected, received) ==
    IF received > expected
    THEN {[seq |-> expected, count |-> (received - expected - 1) % CountMod]}
    ELSE {}

\* Mutant: a single missing message is not requested.
requestMissingPacketsNotOne(expected, received) ==
    IF received > expected + 1
    THEN {[seq |-> expected, count |-> (received - expected) % CountMod]}
    ELSE {}

\* requestMissingPackets: what is sent, nothing unless received > expected.  The
\* number of messages is cut to 16 bits.
requestMissingPackets(expected, received) ==
    IF received > expected
    THEN {[seq |-> expected, count |-> (received - expected) % CountMod]}
    ELSE {}

\* calculateNextSequenceNumber: the value it leaves in m_nextExpectedSeqNo and the
\* verdict it returns.
calculateNextSequenceNumber(p) ==
    [next |-> p.seq + p.count,
     gap  |-> nextExpected # 0 /\ p.seq # nextExpected]

setState(s) == state' = s

\* UdpMulticastSocket::write
write(reqs) == requests' = requests \cup reqs

\* rewind() enters Rewinding and sends; no request leaves the state alone.
Send(reqs, else) ==
    /\ write(reqs)
    /\ setState(IF reqs # {} THEN "Rewinding" ELSE else)

\* The tail of parse: only packets beyond the rewound range move the expected
\* number, and a gap is requested from the number that is expected NOW.
TailRequests(p) ==
    LET calc == calculateNextSequenceNumber(p)
    IN  IF p.seq > rewindTill /\ calc.gap THEN requestMissingPackets(calc.next, p.seq) ELSE {}
TailNextExpected(p) ==
    IF p.seq > rewindTill THEN calculateNextSequenceNumber(p).next ELSE nextExpected

\* Mutant: the rest is requested again although the last request began there.
ParseRewindingAsksAgain(p) ==
    LET rest == SubSeq(missing, 1, Len(missing) - Popped(p))
    IN  /\ state = "Rewinding"
        /\ missing' = rest
        /\ lastRequested' = IF rest # << >> THEN Last(rest) ELSE lastRequested
        /\ nextExpected' = TailNextExpected(p)
        /\ Send((IF rest # << >> THEN requestMissingPackets(Last(rest), Head(rest) + 1) ELSE {}) \cup TailRequests(p),
                IF rest = << >> THEN "Continuous" ELSE "Rewinding")
        /\ undefined' = BackOfEmpty(p)
        /\ UNCHANGED rewindTill

\* Mutant: the vector is looked at before the packet's numbers are popped.
ParseRewindingFinishesLate(p) ==
    LET rest == SubSeq(missing, 1, Len(missing) - Popped(p))
        ask  == rest # << >> /\ lastRequested # Last(rest)
    IN  /\ state = "Rewinding"
        /\ missing' = rest
        /\ lastRequested' = IF ask THEN Last(rest) ELSE lastRequested
        /\ nextExpected' = TailNextExpected(p)
        /\ Send((IF ask THEN requestMissingPackets(Last(rest), Head(rest) + 1) ELSE {}) \cup TailRequests(p),
                IF missing = << >> THEN "Continuous" ELSE "Rewinding")
        /\ undefined' = BackOfEmpty(p)
        /\ UNCHANGED rewindTill

\* parse while Rewinding: pop, then either finish or ask for the rest, unless the
\* last request already began at the number that is now at the back.
ParseRewinding(p) ==
    LET rest == SubSeq(missing, 1, Len(missing) - Popped(p))
        ask  == rest # << >> /\ lastRequested # Last(rest)
    IN  /\ state = "Rewinding"
        /\ missing' = rest
        /\ lastRequested' = IF ask THEN Last(rest) ELSE lastRequested
        /\ nextExpected' = TailNextExpected(p)
        /\ Send((IF ask THEN requestMissingPackets(Last(rest), Head(rest) + 1) ELSE {}) \cup TailRequests(p),
                IF rest = << >> THEN "Continuous" ELSE "Rewinding")
        /\ undefined' = BackOfEmpty(p)
        /\ UNCHANGED rewindTill

\* Is this the packet that starts the initial synchronisation?
InitialSync(p) == state = "Initial" /\ p.seq # 1 /\ nextExpected = 1

\* Mutant: the numbers are pushed down to 0.
ParseInitialSyncFromZero(p) ==
    /\ InitialSync(p)
    /\ missing' = missing \o [i \in 1 .. p.seq |-> p.seq - i]
    /\ lastRequested' = 1
    /\ rewindTill' = p.seq
    /\ Send(requestMissingPackets(1, p.seq), state)
    /\ UNCHANGED << nextExpected, undefined >>

\* Mutant: the numbers are pushed in ascending order.
ParseInitialSyncAscending(p) ==
    /\ InitialSync(p)
    /\ missing' = missing \o [i \in 1 .. p.seq - 1 |-> i]
    /\ lastRequested' = 1
    /\ rewindTill' = p.seq
    /\ Send(requestMissingPackets(1, p.seq), state)
    /\ UNCHANGED << nextExpected, undefined >>

\* Mutant: the numbers of the first packet itself are requested as well.
ParseInitialSyncInclusive(p) ==
    /\ InitialSync(p)
    /\ missing' = missing \o [i \in 1 .. p.seq - 1 |-> p.seq - i]
    /\ lastRequested' = 1
    /\ rewindTill' = p.seq
    /\ Send(requestMissingPackets(1, p.seq + p.count), state)
    /\ UNCHANGED << nextExpected, undefined >>

\* The first packet is not number 1: all numbers before it are missing.
ParseInitialSync(p) ==
    /\ InitialSync(p)
    /\ missing' = missing \o [i \in 1 .. p.seq - 1 |-> p.seq - i]
    /\ lastRequested' = 1
    /\ rewindTill' = p.seq
    /\ Send(requestMissingPackets(1, p.seq), state)
    /\ UNCHANGED << nextExpected, undefined >>

\* parse in any other situation is its tail.
ParseNormal(p) ==
    /\ state # "Rewinding" /\ ~InitialSync(p)
    /\ nextExpected' = TailNextExpected(p)
    /\ Send(TailRequests(p), state)
    /\ UNCHANGED << missing, lastRequested, rewindTill, undefined >>

\* parse: the packet's messages reach the builder first, in every state.
parse(p) ==
    /\ ~undefined
    /\ applied' = applied \o [i \in 1 .. p.count |-> p.seq + i - 1]
    /\ ParseRewinding(p) \/ ParseInitialSync(p) \/ ParseNormal(p)

----------------------------------------------------------------------------
(* The socket. *)

\* run() calls read().
run == socket' = "reading"

\* The constructor binds the port and joins the group; then the client is run.
construct ==
    /\ socket = "none"
    /\ run
    /\ UNCHANGED << memberVars, envVars >>

\* One of the constructor's system calls fails: it throws, and there is no client.
constructThrows ==
    /\ SocketErrors /\ socket = "none"
    /\ socket' = "ended"
    /\ UNCHANGED << memberVars, envVars >>

\* One round of read(): recvfrom returns a packet, which goes to parse.
read(p) ==
    /\ socket = "reading"
    /\ parse(p)
    /\ UNCHANGED socket

\* recvfrom returns an error, or 0 for an empty datagram: read() and run() return,
\* and nobody calls them again.  What is on its way will not be read.
readEnds ==
    /\ SocketErrors /\ socket = "reading"
    /\ socket' = "ended" /\ net' = {}
    /\ UNCHANGED << memberVars, published, requests, budget >>

----------------------------------------------------------------------------
(* The exchange, the rewinder and the network. *)

Publish(count) ==
    /\ published + count <= LastSeq
    /\ count = 0 => budget.heartbeat > 0
    /\ net' = IF socket # "reading" THEN net
              ELSE net \cup {[kind |-> "live", seq |-> published + 1, count |-> count]}
    /\ published' = published + count
    /\ budget' = [budget EXCEPT !.heartbeat = IF count = 0 THEN @ - 1 ELSE @]
    /\ UNCHANGED << clientVars, requests >>

\* The rewinder has every published message and sends as many of the requested ones
\* as it fits into a packet; a request for none has no answer.  An answer that comes
\* when nobody reads any more is dropped.
Answer(r) ==
    /\ requests' = requests \ {r}
    /\ LET most == Min({r.count, MaxCount, published + 1 - r.seq})
       IN  IF most > 0 /\ socket = "reading"
           THEN \E count \in 1 .. most :
                    net' = net \cup {[kind |-> "rewound", seq |-> r.seq, count |-> count]}
           ELSE UNCHANGED net
    /\ UNCHANGED << clientVars, published, budget >>

\* A live packet is next unless an earlier one is still on its way.
InOrder(p) ==
    \A q \in net : p.kind = "live" /\ q.kind = "live" =>
        p.seq < q.seq \/ (p.seq = q.seq /\ p.count <= q.count)

Deliver(p) ==
    /\ Reorder \/ InOrder(p)
    /\ read(p)
    /\ net' = net \ {p}
    /\ UNCHANGED << published, budget >>

\* The packet arrives now and once more later.
Duplicate(p) ==
    /\ budget.dup > 0
    /\ Reorder \/ InOrder(p)
    /\ read(p)
    /\ budget' = [budget EXCEPT !.dup = @ - 1]
    /\ UNCHANGED << published, net >>

Lose ==
    /\ budget.loss > 0
    /\ \/ \E p \in net : net' = net \ {p} /\ UNCHANGED requests
       \/ \E r \in requests : requests' = requests \ {r} /\ UNCHANGED net
    /\ budget' = [budget EXCEPT !.loss = @ - 1]
    /\ UNCHANGED << clientVars, published >>

AnswerSome == \E r \in requests : Answer(r)
DeliverSome == \E p \in net : Deliver(p)

Next ==
    \/ construct \/ constructThrows \/ readEnds
    \/ \E count \in 0 .. MaxCount : Publish(count)
    \/ AnswerSome
    \/ DeliverSome
    \/ \E p \in net : Duplicate(p)
    \/ Lose

Spec == Init /\ [][Next]_vars

\* The rewinder answers requests it has received, and the read loop hands over
\* packets that have arrived; nothing is assumed of lost ones, or that the loop goes on.
Fairness == WF_vars(AnswerSome) /\ WF_vars(DeliverSome)
FairSpec == Spec /\ Fairness

----------------------------------------------------------------------------
(* Properties. *)

TypeOK ==
    /\ state \in {"Initial", "Rewinding", "Continuous"}
    /\ missing \in Seq(1 .. LastSeq)
    /\ lastRequested \in 0 .. LastSeq
    /\ rewindTill \in 0 .. LastSeq + 1
    /\ nextExpected \in 1 .. LastSeq + 1
    /\ undefined \in BOOLEAN
    /\ applied \in Seq(1 .. LastSeq)
    /\ socket \in {"none", "reading", "ended"}
    /\ published \in 0 .. LastSeq
    /\ net \subseteq Packet
    /\ requests \subseteq Request

\* m_missingSequenceNumbers is always the unbroken run rewindTill - 1, ..., n of the
\* numbers still to be rewound, so the number the code looks at, its back, is the
\* smallest one missing, however packets are reordered, repeated or lost.
MissingIsARun ==
    \A i \in 1 .. Len(missing) : missing[i] = rewindTill - i

\* No number below the first packet is ever forgotten: it is still in the vector or
\* its message has been handed to the builder.  In particular, "Continuous" is only
\* reached with all of them handed over.
NothingForgotten ==
    \A n \in 1 .. rewindTill - 1 : n \in Range(missing) \cup Range(applied)

\* A client is Rewinding exactly while numbers are missing.
RewindingMeansMissing == state = "Rewinding" <=> missing # << >>

\* The loop over the packet's numbers never reads back() of an emptied vector.
NeverUndefined == ~undefined

\* A request asks only for numbers that are missing, never for ones of the live feed.
RequestsStayBelow == \A r \in requests : r.seq + r.count <= rewindTill

\* The rewind as the abstract specification tells it: the back of the vector only
\* moves up, over numbers that the packet at hand contains, and the state becomes
\* Continuous with the step that empties the vector.
RewindView ==
    INSTANCE Rewind WITH
        phase <- state, till <- rewindTill, got <- Range(applied),
        from <- IF missing = << >> THEN rewindTill ELSE Last(missing)
RewindSpec == RewindView!Spec

\* When no packet is repeated or overtaken, every message is handed to the builder
\* at most once although live and rewound packets interleave.
AppliedOnce == IsInjective(applied)

\* A client that has begun rewinding gets all its numbers, unless its read loop ends.
RewindCompletes == state = "Rewinding" ~> state = "Continuous" \/ socket = "ended"

\* Every number below the highest one received has been received or is on the list
\* of numbers to be requested: a gap in the normal flow is noticed and requested.
GapsAreRequested ==
    \A i \in 1 .. Len(applied) : \A n \in 1 .. applied[i] : n \in Range(missing) \cup Range(applied)
============================================================================
