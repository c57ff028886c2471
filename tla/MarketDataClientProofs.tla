----------------------- MODULE MarketDataClientProofs -----------------------
(***************************************************************************)
(* The rewind of MarketDataClient is safe for every length of the session, *)
(* packet size and width of the count, and for every number of lost,       *)
(* repeated and reordered packets: an inductive invariant, the properties  *)
(* it implies, and the refinement of Rewind.  Then the book of a late      *)
(* joiner (BookSync): what its builder holds after any messages of a       *)
(* session, each of them once, in whatever order they came.                *)
(***************************************************************************)
EXTENDS BookSync, OrderbookBuilderProofs

----------------------------------------------------------------------------
(* The inductive invariant. *)

\* The packet has numbers below n and others from n on.
Splits(p, n) == p.seq < n /\ n < p.seq + p.count

\* Packets hold published numbers only.  Live ones are cut from the feed and do not
\* overlap.  The rewinder's hold numbers below the first live packet only.
PacketsFit ==
    /\ \A p \in net : p.seq + p.count <= published + 1
    /\ \A p, q \in net : p.kind = "live" /\ q.kind = "live" => ~Splits(p, q.seq)
    /\ \A p \in net : p.kind = "rewound" => p.seq + p.count <= rewindTill

\* The first packet's number, once known, is a border between packets.
TillIsABorder ==
    /\ rewindTill <= published + 1
    /\ \A p \in net : ~Splits(p, rewindTill)

\* Before the first packet there is nothing to rewind, and no rewinder has been asked.
NothingYet ==
    state = "Initial" =>
        /\ rewindTill = 0
        /\ requests = {}
        /\ \A p \in net : p.kind = "live"

ClientInv ==
    /\ TypeOK /\ MissingIsARun /\ NothingForgotten /\ RewindingMeansMissing
    /\ NeverUndefined /\ RequestsStayBelow
    /\ PacketsFit /\ TillIsABorder /\ NothingYet
----------------------------------------------------------------------------
(* The pieces a packet is parsed with. *)

\* The fields of a packet.
LEMMA PacketFields ==
    ASSUME NEW p \in Packet
    PROVE  /\ p.kind \in {"live", "rewound"}
           /\ p.seq \in 1 .. LastSeq + 1 /\ p.count \in 0 .. MaxCount
           /\ p.seq \in Int /\ p.count \in Int
BY ClientAssumption DEF Packet

\* The cut of a count to 16 bits never makes it larger.
LEMMA CutCount ==
    ASSUME NEW n \in Nat
    PROVE  n % CountMod \in 0 .. CountMod - 1 /\ n % CountMod <= n
BY ClientAssumption

\* The run in the vector: its back is the smallest number, and it is as long as the
\* back is below rewindTill.
LEMMA RunBounds ==
    ASSUME TypeOK, MissingIsARun, missing # << >>
    PROVE  /\ Len(missing) \in Nat \ {0}
           /\ Last(missing) = rewindTill - Len(missing)
           /\ Last(missing) \in 1 .. LastSeq
           /\ missing[1] = rewindTill - 1
           /\ rewindTill \in 2 .. LastSeq + 1
<1>1. missing \in Seq(1 .. LastSeq) /\ rewindTill \in 0 .. LastSeq + 1 /\ LastSeq \in Nat
  BY ClientAssumption DEF TypeOK
<1>2. Len(missing) \in Nat \ {0}
  BY <1>1
<1>3. \A i \in 1 .. Len(missing) : missing[i] \in 1 .. LastSeq /\ missing[i] = rewindTill - i
  BY <1>1 DEF MissingIsARun
<1> QED
  BY <1>1, <1>2, <1>3 DEF Last

\* What a packet pops are numbers it contains, and it pops as many as it can.
LEMMA PoppedNumbers ==
    ASSUME TypeOK, MissingIsARun, missing # << >>, NEW p \in Packet
    PROVE  /\ Popped(p) \in 0 .. Len(missing)
           /\ \A i \in 1 .. Popped(p) : missing[Len(missing) + 1 - i] \in Numbers(p)
           /\ Last(missing) = p.seq =>
                  Popped(p) = IF p.count <= Len(missing) THEN p.count ELSE Len(missing)
           /\ (Last(missing) < p.seq \/ Last(missing) >= p.seq + p.count) => Popped(p) = 0
<1> DEFINE n == Len(missing)
           b == Last(missing)
           K == {k \in 0 .. n :
                    \A i \in 1 .. k : /\ missing[n + 1 - i] \in Numbers(p)
                                      /\ i > 1 => missing[n + 1 - (i - 1)] < missing[n + 1 - i]}
           w == IF p.seq <= b /\ b < p.seq + p.count
                THEN IF p.seq + p.count - b <= n THEN p.seq + p.count - b ELSE n
                ELSE 0
<1>1. Popped(p) = Max(K)
  BY DEF Popped
<1>2. /\ n \in Nat \ {0} /\ b = rewindTill - n /\ b \in Int /\ rewindTill \in Int
      /\ p.seq \in Int /\ p.count \in Nat
  BY RunBounds, PacketFields, ClientAssumption
<1>3. \A i \in 1 .. n : missing[n + 1 - i] = b + i - 1
  BY <1>2 DEF MissingIsARun
<1> HIDE DEF n, b
<1>4. w \in 0 .. n
  BY <1>2
<1>5. \A i \in 1 .. w : missing[n + 1 - i] \in Numbers(p)
  <2> SUFFICES ASSUME NEW i \in 1 .. w PROVE missing[n + 1 - i] \in Numbers(p)
    OBVIOUS
  <2>1. i \in 1 .. n /\ missing[n + 1 - i] = b + i - 1
    BY <1>2, <1>3, <1>4
  <2> QED
    BY <1>2, <2>1 DEF Numbers
<1>6. \A i \in 1 .. w : i > 1 => missing[n + 1 - (i - 1)] < missing[n + 1 - i]
  <2> SUFFICES ASSUME NEW i \in 1 .. w, i > 1
               PROVE  missing[n + 1 - (i - 1)] < missing[n + 1 - i]
    OBVIOUS
  <2>1. i \in 1 .. n /\ i - 1 \in 1 .. n
    BY <1>2, <1>4
  <2> HIDE DEF w
  <2>2. missing[n + 1 - (i - 1)] = b + (i - 1) - 1 /\ missing[n + 1 - i] = b + i - 1
    BY <1>3, <2>1
  <2> QED
    BY <1>2, <2>1, <2>2
<1>7. w \in K
  BY <1>4, <1>5, <1>6
<1>8. \A k \in K : w >= k
  <2> SUFFICES ASSUME NEW k \in K, k > w PROVE FALSE
    BY <1>4
  <2>1. k \in 1 .. n /\ \A i \in 1 .. k : missing[n + 1 - i] \in Numbers(p)
    BY <1>2, <1>4
  <2>2. w + 1 \in 1 .. k /\ w + 1 \in 1 .. n /\ 1 \in 1 .. k /\ 1 \in 1 .. n
    BY <1>2, <1>4, <2>1
  <2>3. missing[n + 1 - (w + 1)] = b + (w + 1) - 1 /\ missing[n + 1 - 1] = b + 1 - 1
    BY <1>3, <2>2
  <2>4. b + (w + 1) - 1 \in Numbers(p) /\ b + 1 - 1 \in Numbers(p)
    BY <2>1, <2>2, <2>3
  <2>5. b + w < p.seq + p.count /\ p.seq <= b /\ b < p.seq + p.count
    BY <1>2, <1>4, <2>4 DEF Numbers
  <2> QED
    BY <1>2, <2>1, <2>2, <2>5
<1> HIDE DEF K
<1>9. Max(K) = w
  <2>1. K \subseteq Int
    BY DEF K
  <2>2. Max(K) \in K /\ \A k \in K : Max(K) >= k
    BY <1>7, <1>8 DEF Max
  <2> DEFINE m == Max(K)
  <2> HIDE DEF w, m
  <2>3. w \in Int /\ m \in Int /\ w >= m /\ m >= w
    BY <1>7, <1>8, <2>1, <2>2 DEF m
  <2> QED
    BY <2>3 DEF m
<1> QED
  BY <1>1, <1>2, <1>4, <1>5, <1>9 DEF n, b

\* What is left of the run after a pop is again a run, and what has gone is known.
LEMMA RestRun ==
    ASSUME TypeOK, MissingIsARun, missing # << >>, NEW k \in 0 .. Len(missing)
    PROVE  LET rest == SubSeq(missing, 1, Len(missing) - k)
           IN  /\ rest \in Seq(1 .. LastSeq)
               /\ Len(rest) = Len(missing) - k
               /\ rest = << >> <=> k = Len(missing)
               /\ \A i \in 1 .. Len(rest) : rest[i] = rewindTill - i
               /\ \A i \in 1 .. Len(missing) :
                      i \notin 1 .. Len(rest) =>
                          \E j \in 1 .. k : missing[i] = missing[Len(missing) + 1 - j]
               /\ rest # << >> =>
                      /\ Head(rest) = rewindTill - 1
                      /\ Last(rest) = Last(missing) + k
                      /\ Last(rest) \in 1 .. LastSeq
<1> DEFINE n == Len(missing)
           rest == SubSeq(missing, 1, n - k)
<1>1. n \in Nat /\ missing \in Seq(1 .. LastSeq) /\ rewindTill \in Int /\ LastSeq \in Nat
  BY ClientAssumption DEF TypeOK
<1>2. /\ rest \in Seq(1 .. LastSeq) /\ Len(rest) = n - k
      /\ \A i \in 1 .. n - k : rest[i] = missing[i]
  BY <1>1, SubSeqProperties
<1>3. rest = << >> <=> k = n
  <2>1. rest = << >> <=> Len(rest) = 0
    BY <1>2, EmptySeq
  <2> QED
    BY <1>1, <1>2, <2>1
<1>4. \A i \in 1 .. Len(rest) : rest[i] = rewindTill - i
  BY <1>1, <1>2 DEF MissingIsARun
<1>5. ASSUME NEW i \in 1 .. n, i \notin 1 .. Len(rest)
      PROVE  \E j \in 1 .. k : missing[i] = missing[n + 1 - j]
  <2>1. n + 1 - i \in 1 .. k /\ n + 1 - (n + 1 - i) = i
    BY <1>1, <1>2, <1>5
  <2> QED
    BY <2>1
<1>6. ASSUME rest # << >>
      PROVE  /\ Head(rest) = rewindTill - 1
             /\ Last(rest) = Last(missing) + k
             /\ Last(rest) \in 1 .. LastSeq
  <2>1. Len(rest) \in 1 .. n
    BY <1>1, <1>2, <1>3, <1>6
  <2>2. Last(missing) = rewindTill - n
    BY RunBounds
  <2>3. Last(rest) = rest[Len(rest)] /\ Head(rest) = rest[1]
    BY <1>2, <1>6 DEF Last
  <2>4. rest[Len(rest)] = rewindTill - (n - k) /\ rest[1] = rewindTill - 1
    <3>1. rest[Len(rest)] = rewindTill - Len(rest)
      BY <1>4, <2>1
    <3>2. 1 \in 1 .. Len(rest)
      BY <2>1
    <3> HIDE DEF rest
    <3> QED
      BY <1>2, <1>4, <3>1, <3>2
  <2>5. rest[Len(rest)] \in 1 .. LastSeq
    BY <1>2, <2>1
  <2> HIDE DEF rest
  <2> QED
    BY <1>1, <2>2, <2>3, <2>4, <2>5
<1> HIDE DEF rest
<1>7. /\ rest \in Seq(1 .. LastSeq)
      /\ Len(rest) = Len(missing) - k
      /\ rest = << >> <=> k = Len(missing)
      /\ \A i \in 1 .. Len(missing) :
             i \notin 1 .. Len(rest) =>
                 \E j \in 1 .. k : missing[i] = missing[Len(missing) + 1 - j]
  BY <1>2, <1>3, <1>5
<1> QED
  BY <1>4, <1>6, <1>7 DEF rest

\* The messages of a packet go to the end of what has been applied.
LEMMA AppliedGrows ==
    ASSUME TypeOK, NEW p \in Packet, p.seq + p.count <= LastSeq + 1,
           applied' = applied \o [i \in 1 .. p.count |-> p.seq + i - 1]
    PROVE  /\ applied' \in Seq(1 .. LastSeq)
           /\ Range(applied') = Range(applied) \cup Numbers(p)
<1> DEFINE new == [i \in 1 .. p.count |-> p.seq + i - 1]
<1>1. p.seq \in 1 .. LastSeq + 1 /\ p.count \in Nat /\ LastSeq \in Nat
  BY PacketFields, ClientAssumption
<1>2. new \in Seq(1 .. LastSeq) /\ Len(new) = p.count
  <2>1. \A i \in 1 .. p.count : p.seq + i - 1 \in 1 .. LastSeq
    BY <1>1
  <2>2. new \in [1 .. p.count -> 1 .. LastSeq]
    BY <2>1
  <2> HIDE DEF new
  <2>3. new \in Seq(1 .. LastSeq)
    BY <1>1, <2>2, SeqDef
  <2> QED
    BY <1>1, <2>2, <2>3, LenProperties
<1>3. Range(new) = Numbers(p)
  <2>0. Range(new) = {p.seq + i - 1 : i \in 1 .. p.count}
    BY DEF Range
  <2>1. \A x \in Numbers(p) : x - p.seq + 1 \in 1 .. p.count /\ p.seq + (x - p.seq + 1) - 1 = x
    BY <1>1 DEF Numbers
  <2>2. \A i \in 1 .. p.count : p.seq + i - 1 \in Numbers(p)
    BY <1>1 DEF Numbers
  <2> HIDE DEF new
  <2>3. ASSUME NEW x \in Range(new) PROVE x \in Numbers(p)
    <3>1. PICK i \in 1 .. p.count : x = p.seq + i - 1
      BY <2>0
    <3> QED
      BY <2>2, <3>1
  <2>4. ASSUME NEW x \in Numbers(p) PROVE x \in Range(new)
    <3>1. \E i \in 1 .. p.count : x = p.seq + i - 1
      BY <2>1
    <3> QED
      BY <2>0, <3>1
  <2> QED
    BY <2>3, <2>4
<1> HIDE DEF new
<1>4. applied \in Seq(1 .. LastSeq)
  BY DEF TypeOK
<1>5. applied' = applied \o new
  BY DEF new
<1>6. applied \o new \in Seq(1 .. LastSeq)
  BY <1>2, <1>4, ConcatProperties
<1>7. Range(applied \o new) = Range(applied) \cup Range(new)
  BY <1>2, <1>4, RangeConcatenation
<1> QED
  BY <1>3, <1>5, <1>6, <1>7

\* The tail of parse never requests anything: the expected number it asks from is
\* already the one behind the packet.
LEMMA TailAsksNothing ==
    ASSUME NEW p \in Packet
    PROVE  TailRequests(p) = {}
<1>1. ~(p.seq > p.seq + p.count)
  BY PacketFields
<1> QED
  BY <1>1 DEF TailRequests, calculateNextSequenceNumber, requestMissingPackets

\* What parse does while numbers are missing; its tail adds no request.
LEMMA RewindingEffect ==
    ASSUME NEW p \in Packet, ParseRewinding(p)
    PROVE  LET rest  == SubSeq(missing, 1, Len(missing) - Popped(p))
               ask   == rest # << >> /\ lastRequested # Last(rest)
               asked == IF ask THEN requestMissingPackets(Last(rest), Head(rest) + 1) ELSE {}
           IN  /\ missing' = rest
               /\ lastRequested' = IF ask THEN Last(rest) ELSE lastRequested
               /\ requests' = requests \cup asked
               /\ state' = IF rest = << >> THEN "Continuous" ELSE "Rewinding"
               /\ rewindTill' = rewindTill
<1> DEFINE rest == SubSeq(missing, 1, Len(missing) - Popped(p))
           ask == rest # << >> /\ lastRequested # Last(rest)
           asked == IF ask THEN requestMissingPackets(Last(rest), Head(rest) + 1) ELSE {}
<1>1. TailRequests(p) = {}
  BY TailAsksNothing
<1>2. asked \cup TailRequests(p) = asked
  BY <1>1
<1>3. asked # {} => rest # << >>
  OBVIOUS
<1>4. Send(asked \cup TailRequests(p), IF rest = << >> THEN "Continuous" ELSE "Rewinding")
  BY DEF ParseRewinding
<1>5. Send(asked, IF rest = << >> THEN "Continuous" ELSE "Rewinding")
  BY <1>2, <1>4
<1> HIDE DEF asked, rest
<1>6. /\ requests' = requests \cup asked
      /\ state' = IF rest = << >> THEN "Continuous" ELSE "Rewinding"
  BY <1>3, <1>5 DEF Send, write, setState
<1> QED
  BY <1>6 DEF ParseRewinding, rest, asked

\* A request for the run from its back to its front stays below rewindTill.
LEMMA AskedNumbers ==
    ASSUME NEW from \in 1 .. LastSeq, NEW till \in 2 .. LastSeq + 1, from < till,
           NEW r \in requestMissingPackets(from, till)
    PROVE  r \in Request /\ r.seq = from /\ r.seq + r.count <= till
<1>1. till > from /\ till - from \in Nat /\ LastSeq \in Nat
  BY ClientAssumption
<1>2. r = [seq |-> from, count |-> (till - from) % CountMod]
  BY <1>1 DEF requestMissingPackets
<1>3. (till - from) % CountMod \in 0 .. CountMod - 1 /\ (till - from) % CountMod <= till - from
  BY <1>1, CutCount
<1>4. r.seq = from /\ r.count = (till - from) % CountMod
  BY <1>2
<1>5. r \in Request
  BY <1>1, <1>2, <1>3 DEF Request
<1>6. CountMod \in Nat
  BY ClientAssumption
<1> QED
  BY <1>1, <1>3, <1>4, <1>5, <1>6

----------------------------------------------------------------------------
(* Each step preserves the invariant. *)

\* The initial state satisfies it.
LEMMA InitInv == Init => ClientInv
<1> SUFFICES ASSUME Init PROVE ClientInv
  OBVIOUS
<1> USE ClientAssumption DEF Init
<1>1. TypeOK
  <2>1. << >> \in Seq(1 .. LastSeq)
    BY EmptySeq
  <2>2. 0 \in 0 .. LastSeq /\ 0 \in 0 .. LastSeq + 1 /\ 1 \in 1 .. LastSeq + 1
    OBVIOUS
  <2>3. net \subseteq Packet /\ requests \subseteq Request
    OBVIOUS
  <2> QED
    BY <2>1, <2>2, <2>3, Zenon DEF TypeOK
<1>2. MissingIsARun /\ NothingForgotten /\ RewindingMeansMissing /\ NeverUndefined /\ RequestsStayBelow
  BY DEF MissingIsARun, NothingForgotten, RewindingMeansMissing, NeverUndefined, RequestsStayBelow
<1>3. PacketsFit /\ TillIsABorder /\ NothingYet
  BY DEF PacketsFit, TillIsABorder, NothingYet
<1> QED
  BY <1>1, <1>2, <1>3 DEF ClientInv

\* A packet that arrives while numbers are missing.
LEMMA RewindingStep ==
    ASSUME ClientInv, NEW p \in net, read(p), ParseRewinding(p),
           net' \in SUBSET net, published' = published
    PROVE  ClientInv'
<1> DEFINE n == Len(missing)
           rest == SubSeq(missing, 1, n - Popped(p))
           ask == rest # << >> /\ lastRequested # Last(rest)
           asked == IF ask THEN requestMissingPackets(Last(rest), Head(rest) + 1) ELSE {}
<1>1. /\ TypeOK /\ MissingIsARun /\ NothingForgotten /\ RewindingMeansMissing /\ NeverUndefined
      /\ RequestsStayBelow /\ PacketsFit /\ TillIsABorder /\ LastSeq \in Nat
      /\ missing # << >> /\ rewindTill \in 2 .. LastSeq + 1
  BY RunBounds, ClientAssumption DEF ClientInv, ParseRewinding, RewindingMeansMissing
<1>2. /\ p \in Packet /\ p.seq \in Int /\ p.count \in Nat
      /\ p.seq + p.count <= LastSeq + 1 /\ 1 <= p.seq /\ ~Splits(p, rewindTill)
  <2>1. p \in Packet
    BY <1>1 DEF TypeOK
  <2>2. p.seq + p.count <= published + 1 /\ published \in 0 .. LastSeq /\ ~Splits(p, rewindTill)
    BY <1>1 DEF TypeOK, PacketsFit, TillIsABorder
  <2> QED
    BY <1>1, <2>1, <2>2, PacketFields, ClientAssumption
<1>3. applied' \in Seq(1 .. LastSeq) /\ Range(applied') = Range(applied) \cup Numbers(p)
  BY <1>1, <1>2, AppliedGrows DEF read, parse
<1>4. Popped(p) \in 0 .. n /\ \A i \in 1 .. Popped(p) : missing[n + 1 - i] \in Numbers(p)
  BY <1>1, <1>2, PoppedNumbers
<1>5. /\ rest \in Seq(1 .. LastSeq) /\ Len(rest) = n - Popped(p)
      /\ rest = << >> <=> Popped(p) = n
      /\ \A i \in 1 .. Len(rest) : rest[i] = rewindTill - i
      /\ \A i \in 1 .. n : i \notin 1 .. Len(rest) =>
             \E j \in 1 .. Popped(p) : missing[i] = missing[n + 1 - j]
      /\ rest # << >> => Head(rest) = rewindTill - 1 /\ Last(rest) \in 1 .. LastSeq
  BY <1>1, <1>4, RestRun
<1>6. /\ missing' = rest
      /\ lastRequested' = IF ask THEN Last(rest) ELSE lastRequested
      /\ nextExpected' = TailNextExpected(p)
      /\ requests' = requests \cup asked
      /\ state' = IF rest = << >> THEN "Continuous" ELSE "Rewinding"
      /\ undefined' = BackOfEmpty(p)
      /\ rewindTill' = rewindTill /\ socket' = socket
  BY <1>2, RewindingEffect DEF ParseRewinding, read
<1>7. \A r \in asked : r \in Request /\ r.seq + r.count <= rewindTill
  <2> SUFFICES ASSUME NEW r \in asked PROVE r \in Request /\ r.seq + r.count <= rewindTill
    OBVIOUS
  <2>1. rest # << >> /\ r \in requestMissingPackets(Last(rest), Head(rest) + 1)
    OBVIOUS
  <2> HIDE DEF rest
  <2>2. Head(rest) + 1 = rewindTill /\ Last(rest) \in 1 .. LastSeq
    BY <1>1, <1>5, <2>1
  <2>3. Last(rest) < rewindTill
    <3>1. Len(rest) \in 1 .. Len(rest) /\ rest[Len(rest)] = rewindTill - Len(rest) /\ Len(rest) \in Nat
      BY <1>5, <2>1
    <3> QED
      BY <1>1, <3>1 DEF Last
  <2> QED
    BY <1>1, <2>1, <2>2, <2>3, AskedNumbers
<1>8. undefined' = FALSE
  <2> SUFFICES ASSUME Popped(p) = n, p.count > 0, missing[1] # p.seq + p.count - 1 PROVE FALSE
    BY <1>1, <1>6 DEF BackOfEmpty
  <2>1. n \in Nat \ {0} /\ missing[1] = rewindTill - 1
    BY <1>1, RunBounds
  <2>2. n \in 1 .. Popped(p) /\ n + 1 - n = 1
    BY <2>1
  <2>3. missing[1] \in Numbers(p)
    BY <1>4, <2>2
  <2>4. p.seq < rewindTill /\ rewindTill <= p.seq + p.count
    BY <1>1, <1>2, <2>1, <2>3 DEF Numbers
  <2>5. rewindTill = p.seq + p.count
    BY <1>1, <1>2, <2>4 DEF Splits
  <2> QED
    BY <1>2, <2>1, <2>5
<1> HIDE DEF rest, asked
<1>9. TypeOK'
  <2>1. nextExpected' \in 1 .. LastSeq + 1
    BY <1>1, <1>2, <1>6 DEF TailNextExpected, calculateNextSequenceNumber, TypeOK
  <2>2. lastRequested' \in 0 .. LastSeq
    BY <1>1, <1>5, <1>6 DEF TypeOK
  <2>3. requests' \subseteq Request
    BY <1>1, <1>6, <1>7 DEF TypeOK
  <2>4. state' \in {"Initial", "Rewinding", "Continuous"} /\ missing' \in Seq(1 .. LastSeq)
    BY <1>5, <1>6
  <2>5. /\ rewindTill' \in 0 .. LastSeq + 1 /\ socket' \in {"none", "reading", "ended"}
        /\ published' \in 0 .. LastSeq /\ net' \subseteq Packet /\ undefined' \in BOOLEAN
    BY <1>1, <1>6, <1>8 DEF TypeOK
  <2> QED
    BY <1>3, <2>1, <2>2, <2>3, <2>4, <2>5 DEF TypeOK
<1>10. MissingIsARun'
  BY <1>5, <1>6 DEF MissingIsARun
<1>11. NothingForgotten'
  <2> SUFFICES ASSUME NEW m \in 1 .. rewindTill - 1 PROVE m \in Range(rest) \cup Range(applied')
    BY <1>6 DEF NothingForgotten
  <2>1. CASE m \in Range(applied)
    BY <1>3, <2>1
  <2>2. CASE m \in Range(missing)
    <3>1. PICK i \in 1 .. n : m = missing[i]
      BY <1>1, <2>2, RangeEquality DEF TypeOK
    <3>2. CASE i \in 1 .. Len(rest)
      <4>1. rest[i] = rewindTill - i /\ missing[i] = rewindTill - i
        BY <1>1, <1>5, <3>2 DEF MissingIsARun
      <4> QED
        BY <1>5, <3>1, <3>2, <4>1, RangeEquality
    <3>3. CASE i \notin 1 .. Len(rest)
      BY <1>3, <1>4, <1>5, <3>1, <3>3
    <3> QED
      BY <3>2, <3>3
  <2> QED
    BY <1>1, <2>1, <2>2 DEF NothingForgotten
<1>12. RewindingMeansMissing'
  BY <1>6 DEF RewindingMeansMissing
<1>13. NeverUndefined' /\ NothingYet'
  BY <1>6, <1>8 DEF NeverUndefined, NothingYet
<1>14. RequestsStayBelow'
  BY <1>1, <1>6, <1>7 DEF RequestsStayBelow
<1>15. PacketsFit' /\ TillIsABorder'
  BY <1>1, <1>6 DEF PacketsFit, TillIsABorder
<1> QED
  BY <1>9, <1>10, <1>11, <1>12, <1>13, <1>14, <1>15 DEF ClientInv

\* The first packet is not number 1.
LEMMA InitialSyncStep ==
    ASSUME ClientInv, NEW p \in net, read(p), ParseInitialSync(p),
           net' \in SUBSET net, published' = published
    PROVE  ClientInv'
<1> DEFINE new == [i \in 1 .. p.seq - 1 |-> p.seq - i]
<1>1. /\ TypeOK /\ NeverUndefined /\ RequestsStayBelow /\ PacketsFit /\ LastSeq \in Nat
      /\ missing = << >> /\ requests = {} /\ \A q \in net : q.kind = "live"
  BY ClientAssumption
     DEF ClientInv, ParseInitialSync, InitialSync, RewindingMeansMissing, NothingYet
<1>2. /\ p \in Packet /\ p.kind = "live" /\ p.seq \in 2 .. LastSeq + 1 /\ p.count \in Nat
      /\ p.seq + p.count <= LastSeq + 1 /\ p.seq <= published + 1
  <2>1. p \in Packet
    BY <1>1 DEF TypeOK
  <2>2. p.seq + p.count <= published + 1 /\ published \in 0 .. LastSeq /\ p.seq # 1
    BY <1>1 DEF TypeOK, PacketsFit, ParseInitialSync, InitialSync
  <2>3. p.seq \in 1 .. LastSeq + 1 /\ p.count \in Nat
    BY <2>1, PacketFields, ClientAssumption
  <2> QED
    BY <1>1, <2>1, <2>2, <2>3
<1>3. applied' \in Seq(1 .. LastSeq) /\ Range(applied') = Range(applied) \cup Numbers(p)
  BY <1>1, <1>2, AppliedGrows DEF read, parse
<1>4. /\ new \in Seq(1 .. LastSeq) /\ Len(new) = p.seq - 1 /\ new # << >>
      /\ \A i \in 1 .. p.seq - 1 : new[i] = p.seq - i
  <2>1. \A i \in 1 .. p.seq - 1 : p.seq - i \in 1 .. LastSeq
    BY <1>1, <1>2
  <2>2. /\ new \in [1 .. p.seq - 1 -> 1 .. LastSeq]
        /\ \A i \in 1 .. p.seq - 1 : new[i] = p.seq - i
    BY <2>1
  <2>3. p.seq - 1 \in Nat \ {0}
    BY <1>1, <1>2
  <2> HIDE DEF new
  <2>4. new \in Seq(1 .. LastSeq)
    BY <2>2, <2>3, SeqDef
  <2>5. Len(new) = p.seq - 1
    BY <2>2, <2>3, <2>4, LenProperties
  <2> QED
    BY <2>2, <2>3, <2>4, <2>5
<1>5. missing' = new
  <2>1. missing' = << >> \o new
    BY <1>1 DEF ParseInitialSync
  <2> HIDE DEF new
  <2> QED
    BY <1>4, <2>1, ConcatEmptySeq
<1>6. \A r \in requestMissingPackets(1, p.seq) : r \in Request /\ r.seq + r.count <= p.seq
  <2>1. 1 \in 1 .. LastSeq /\ 1 < p.seq
    BY <1>1, <1>2
  <2> QED
    BY <1>2, <2>1, AskedNumbers
<1>7. requestMissingPackets(1, p.seq) # {}
  <2>1. p.seq > 1
    BY <1>1, <1>2
  <2> QED
    BY <2>1 DEF requestMissingPackets
<1>8. /\ lastRequested' = 1 /\ rewindTill' = p.seq /\ nextExpected' = nextExpected
      /\ undefined' = undefined /\ socket' = socket /\ state' = "Rewinding"
      /\ requests' = requestMissingPackets(1, p.seq)
  BY <1>1, <1>7 DEF ParseInitialSync, Send, write, setState, read
<1> HIDE DEF new
<1>9. TypeOK'
  <2>1. requests' \subseteq Request
    BY <1>6, <1>8
  <2>2. lastRequested' \in 0 .. LastSeq /\ rewindTill' \in 0 .. LastSeq + 1
    BY <1>1, <1>2, <1>8
  <2>3. /\ nextExpected' \in 1 .. LastSeq + 1 /\ socket' \in {"none", "reading", "ended"}
        /\ published' \in 0 .. LastSeq /\ net' \subseteq Packet /\ undefined' \in BOOLEAN
    BY <1>1, <1>8 DEF TypeOK
  <2> QED
    BY <1>3, <1>4, <1>5, <1>8, <2>1, <2>2, <2>3 DEF TypeOK
<1>10. MissingIsARun' /\ RewindingMeansMissing'
  BY <1>4, <1>5, <1>8 DEF MissingIsARun, RewindingMeansMissing
<1>11. NothingForgotten'
  <2> SUFFICES ASSUME NEW m \in 1 .. p.seq - 1 PROVE m \in Range(new)
    BY <1>5, <1>8 DEF NothingForgotten
  <2>1. p.seq - m \in 1 .. p.seq - 1 /\ p.seq - (p.seq - m) = m
    BY <1>2
  <2>2. new[p.seq - m] = m /\ p.seq - m \in 1 .. Len(new)
    BY <1>4, <2>1
  <2> QED
    BY <1>4, <2>2, RangeEquality
<1>12. NeverUndefined' /\ NothingYet'
  BY <1>1, <1>8 DEF NeverUndefined, NothingYet
<1>13. RequestsStayBelow'
  BY <1>6, <1>8 DEF RequestsStayBelow
<1>14. PacketsFit'
  BY <1>1 DEF PacketsFit
<1>15. TillIsABorder'
  BY <1>1, <1>2, <1>8 DEF PacketsFit, TillIsABorder
<1> QED
  BY <1>9, <1>10, <1>11, <1>12, <1>13, <1>14, <1>15 DEF ClientInv

\* Any other packet only moves the expected number.
LEMMA NormalStep ==
    ASSUME ClientInv, NEW p \in net, read(p), ParseNormal(p),
           net' \in SUBSET net, published' = published
    PROVE  ClientInv'
<1>1. /\ TypeOK /\ MissingIsARun /\ NothingForgotten /\ RewindingMeansMissing /\ NeverUndefined
      /\ RequestsStayBelow /\ PacketsFit /\ TillIsABorder /\ NothingYet /\ LastSeq \in Nat
  BY ClientAssumption DEF ClientInv
<1>2. /\ p \in Packet /\ p.seq \in 1 .. LastSeq + 1 /\ p.count \in Nat
      /\ p.seq + p.count <= LastSeq + 1
  <2>1. p \in Packet
    BY <1>1 DEF TypeOK
  <2>2. p.seq + p.count <= published + 1 /\ published \in 0 .. LastSeq
    BY <1>1 DEF TypeOK, PacketsFit
  <2>3. p.seq \in 1 .. LastSeq + 1 /\ p.count \in Nat
    BY <2>1, PacketFields, ClientAssumption
  <2> QED
    BY <1>1, <2>1, <2>2, <2>3
<1>3. applied' \in Seq(1 .. LastSeq) /\ Range(applied') = Range(applied) \cup Numbers(p)
  BY <1>1, <1>2, AppliedGrows DEF read, parse
<1>4. /\ missing' = missing /\ lastRequested' = lastRequested /\ rewindTill' = rewindTill
      /\ undefined' = undefined /\ socket' = socket /\ state' = state /\ requests' = requests
      /\ nextExpected' = TailNextExpected(p)
  BY <1>2, TailAsksNothing DEF ParseNormal, Send, write, setState, read
<1>5. TypeOK'
  <2>1. nextExpected' \in 1 .. LastSeq + 1
    BY <1>1, <1>2, <1>4 DEF TailNextExpected, calculateNextSequenceNumber, TypeOK
  <2>2. published' \in 0 .. LastSeq /\ net' \subseteq Packet
    BY <1>1 DEF TypeOK
  <2> QED
    BY <1>1, <1>3, <1>4, <2>1, <2>2 DEF TypeOK
<1>6. NothingForgotten'
  BY <1>1, <1>3, <1>4 DEF NothingForgotten
<1>7. MissingIsARun' /\ RewindingMeansMissing' /\ NeverUndefined' /\ RequestsStayBelow'
  BY <1>1, <1>4 DEF MissingIsARun, RewindingMeansMissing, NeverUndefined, RequestsStayBelow
<1>8. PacketsFit' /\ TillIsABorder' /\ NothingYet'
  BY <1>1, <1>4 DEF PacketsFit, TillIsABorder, NothingYet
<1> QED
  BY <1>5, <1>6, <1>7, <1>8 DEF ClientInv

\* What a read does, as three cases.
LEMMA ReadStep ==
    ASSUME ClientInv, NEW p \in net, read(p), net' \in SUBSET net, published' = published
    PROVE  ClientInv'
<1>1. ParseRewinding(p) \/ ParseInitialSync(p) \/ ParseNormal(p)
  BY DEF read, parse
<1> QED
  BY <1>1, RewindingStep, InitialSyncStep, NormalStep

\* A new live packet begins behind everything published so far.
LEMMA PublishStep ==
    ASSUME ClientInv, NEW count \in 0 .. MaxCount, Publish(count)
    PROVE  ClientInv'
<1> DEFINE new == [kind |-> "live", seq |-> published + 1, count |-> count]
<1>1. /\ TypeOK /\ PacketsFit /\ TillIsABorder /\ NothingYet
      /\ published \in 0 .. LastSeq /\ published' = published + count /\ published' <= LastSeq
      /\ LastSeq \in Nat /\ count \in Nat /\ MaxCount \in Nat /\ rewindTill \in Nat
  BY ClientAssumption DEF ClientInv, Publish, TypeOK
<1>2. new \in Packet /\ new.kind = "live" /\ new.seq = published + 1 /\ new.count = count
  BY <1>1 DEF Packet
<1>3. /\ UNCHANGED << state, missing, lastRequested, rewindTill, nextExpected, undefined, applied,
                      socket, requests >>
      /\ net' \in SUBSET (net \cup {new})
  BY DEF Publish, clientVars, memberVars
<1>4. \A q \in net : q.seq \in Int /\ q.count \in Int /\ q.seq + q.count <= published + 1 /\ q.seq <= published + 1
  <2> SUFFICES ASSUME NEW q \in net
               PROVE  q.seq \in Int /\ q.count \in Int /\ q.seq + q.count <= published + 1 /\ q.seq <= published + 1
    OBVIOUS
  <2>1. q \in Packet /\ q.seq + q.count <= published + 1
    BY <1>1 DEF TypeOK, PacketsFit
  <2> QED
    BY <1>1, <2>1, PacketFields
<1> HIDE DEF new
<1>5. TypeOK'
  <2>1. published' \in 0 .. LastSeq /\ net' \subseteq Packet
    BY <1>1, <1>2, <1>3 DEF TypeOK
  <2> QED
    BY <1>1, <1>3, <2>1 DEF TypeOK
<1>6. /\ MissingIsARun' /\ NothingForgotten' /\ RewindingMeansMissing' /\ NeverUndefined'
      /\ RequestsStayBelow'
  BY <1>3 DEF ClientInv, MissingIsARun, NothingForgotten, RewindingMeansMissing, NeverUndefined,
              RequestsStayBelow
<1>7. PacketsFit'
  <2>1. \A q \in net' : q.seq + q.count <= published' + 1
    BY <1>1, <1>2, <1>3, <1>4
  <2>2. \A q, r \in net' : q.kind = "live" /\ r.kind = "live" => ~Splits(q, r.seq)
    <3> SUFFICES ASSUME NEW q \in net', NEW r \in net', q.kind = "live", r.kind = "live"
                 PROVE  ~Splits(q, r.seq)
      OBVIOUS
    <3>1. CASE q \in net /\ r \in net
      BY <1>1, <3>1 DEF PacketsFit
    <3>2. CASE r = new
      BY <1>1, <1>2, <1>3, <1>4, <3>2 DEF Splits
    <3>3. CASE q = new
      BY <1>1, <1>2, <1>3, <1>4, <3>3 DEF Splits
    <3> QED
      BY <1>3, <3>1, <3>2, <3>3
  <2>3. \A q \in net' : q.kind = "rewound" => q.seq + q.count <= rewindTill'
    BY <1>1, <1>2, <1>3 DEF PacketsFit
  <2> QED
    BY <2>1, <2>2, <2>3 DEF PacketsFit
<1>8. TillIsABorder'
  <2>1. ~Splits(new, rewindTill)
    BY <1>1, <1>2 DEF Splits, TillIsABorder
  <2>2. \A q \in net' : ~Splits(q, rewindTill)
    BY <1>1, <1>3, <2>1 DEF TillIsABorder
  <2> QED
    BY <1>1, <1>3, <2>2 DEF TillIsABorder
<1>9. NothingYet'
  BY <1>1, <1>2, <1>3 DEF NothingYet
<1> QED
  BY <1>5, <1>6, <1>7, <1>8, <1>9 DEF ClientInv

\* An answer holds requested and published numbers only.
LEMMA AnswerStep ==
    ASSUME ClientInv, NEW r \in requests, Answer(r)
    PROVE  ClientInv'
<1>1. /\ TypeOK /\ PacketsFit /\ TillIsABorder /\ NothingYet /\ RequestsStayBelow
      /\ state # "Initial" /\ published \in 0 .. LastSeq /\ rewindTill \in Nat
  BY DEF ClientInv, TypeOK, NothingYet
<1>2. /\ UNCHANGED << state, missing, lastRequested, rewindTill, nextExpected, undefined, applied,
                      socket, published >>
      /\ requests' \in SUBSET requests
  BY DEF Answer, clientVars, memberVars
<1>3. /\ r.seq \in 1 .. LastSeq + 1 /\ r.count \in Nat /\ r.seq + r.count <= rewindTill
      /\ CountMod \in Nat /\ MaxCount \in Nat /\ LastSeq \in Nat
  BY <1>1, ClientAssumption DEF TypeOK, Request, RequestsStayBelow
<1>4. \A q \in net' : q \notin net =>
          /\ q \in Packet /\ q.kind = "rewound" /\ q.seq = r.seq /\ q.count \in Nat
          /\ q.count <= r.count /\ q.seq + q.count <= published + 1
  <2> SUFFICES ASSUME NEW q \in net', q \notin net
               PROVE  /\ q \in Packet /\ q.kind = "rewound" /\ q.seq = r.seq /\ q.count \in Nat
                      /\ q.count <= r.count /\ q.seq + q.count <= published + 1
    OBVIOUS
  <2> DEFINE S == {r.count, MaxCount, published + 1 - r.seq}
             most == Min(S)
  <2>1. PICK count \in 1 .. most : q = [kind |-> "rewound", seq |-> r.seq, count |-> count]
    BY DEF Answer
  <2>2. most \in S /\ \A x \in S : most <= x
    <3>1. r.count \in Int /\ MaxCount \in Int /\ published + 1 - r.seq \in Int
      BY <1>1, <1>3
    <3>2. \E x \in S : \A y \in S : x <= y
      BY <3>1
    <3> HIDE DEF S
    <3> QED
      BY <3>2 DEF Min
  <2> HIDE DEF most
  <2>3. most \in Int /\ most <= r.count /\ most <= MaxCount /\ most <= published + 1 - r.seq
    BY <1>1, <1>3, <2>2
  <2>4. q.kind = "rewound" /\ q.seq = r.seq /\ q.count = count
    BY <2>1
  <2>5. q \in Packet
    BY <1>3, <2>1, <2>3 DEF Packet
  <2> QED
    BY <1>1, <1>3, <2>3, <2>4, <2>5
<1>5. TypeOK'
  <2>1. net' \subseteq Packet
    BY <1>1, <1>4 DEF TypeOK
  <2> QED
    BY <1>1, <1>2, <2>1 DEF TypeOK
<1>6. /\ MissingIsARun' /\ NothingForgotten' /\ RewindingMeansMissing' /\ NeverUndefined'
      /\ RequestsStayBelow'
  BY <1>2 DEF ClientInv, MissingIsARun, NothingForgotten, RewindingMeansMissing, NeverUndefined,
              RequestsStayBelow
<1>7. \A q \in net' : q \notin net => q.kind = "rewound" /\ q.seq + q.count <= rewindTill
  BY <1>1, <1>3, <1>4
<1>8. PacketsFit'
  <2>1. \A q \in net' : q.seq + q.count <= published + 1
    BY <1>1, <1>4 DEF PacketsFit
  <2>2. \A q \in net' : q.kind = "live" => q \in net
    BY <1>4
  <2> QED
    BY <1>1, <1>2, <1>7, <2>1, <2>2 DEF PacketsFit
<1>9. TillIsABorder'
  <2>1. ASSUME NEW q \in net', q \notin net PROVE ~Splits(q, rewindTill)
    BY <1>1, <1>3, <1>4, <1>7, <2>1 DEF Splits
  <2> QED
    BY <1>1, <1>2, <2>1 DEF TillIsABorder
<1>10. NothingYet'
  BY <1>1, <1>2 DEF NothingYet
<1> QED
  BY <1>5, <1>6, <1>8, <1>9, <1>10 DEF ClientInv

\* Opening and closing the socket and losing things leaves the client alone.
LEMMA QuietStep ==
    ASSUME ClientInv, UNCHANGED << memberVars, published >>,
           net' \in SUBSET net, requests' \in SUBSET requests,
           socket' \in {"none", "reading", "ended"}
    PROVE  ClientInv'
<1> USE DEF ClientInv, memberVars
<1>1. TypeOK'
  BY DEF TypeOK
<1>2. /\ MissingIsARun' /\ NothingForgotten' /\ RewindingMeansMissing' /\ NeverUndefined'
      /\ RequestsStayBelow'
  BY DEF MissingIsARun, NothingForgotten, RewindingMeansMissing, NeverUndefined, RequestsStayBelow
<1>3. PacketsFit' /\ TillIsABorder' /\ NothingYet'
  BY DEF PacketsFit, TillIsABorder, NothingYet
<1> QED
  BY <1>1, <1>2, <1>3

\* Every step preserves the invariant.
LEMMA NextStep == ClientInv /\ [Next]_vars => ClientInv'
<1> SUFFICES ASSUME ClientInv, [Next]_vars PROVE ClientInv'
  OBVIOUS
<1>1. socket \in {"none", "reading", "ended"}
  BY DEF ClientInv, TypeOK
<1>2. CASE construct \/ constructThrows \/ readEnds
  BY <1>1, <1>2, QuietStep DEF construct, run, constructThrows, readEnds, envVars
<1>3. ASSUME NEW count \in 0 .. MaxCount, Publish(count) PROVE ClientInv'
  BY <1>3, PublishStep
<1>4. CASE AnswerSome
  BY <1>4, AnswerStep DEF AnswerSome
<1>5. CASE DeliverSome
  <2>1. PICK p \in net : Deliver(p)
    BY <1>5 DEF DeliverSome
  <2> QED
    BY <2>1, ReadStep DEF Deliver
<1>6. ASSUME NEW p \in net, Duplicate(p) PROVE ClientInv'
  BY <1>6, ReadStep DEF Duplicate
<1>7. CASE Lose
  BY <1>1, <1>7, QuietStep DEF Lose, clientVars
<1>8. CASE UNCHANGED vars
  BY <1>1, <1>8, QuietStep DEF vars, clientVars, envVars
<1> QED
  BY <1>2, <1>3, <1>4, <1>5, <1>6, <1>7, <1>8 DEF Next

----------------------------------------------------------------------------
(* The theorems. *)

\* The inductive invariant is an invariant.
THEOREM ClientInvAlways == Spec => []ClientInv
BY InitInv, NextStep, PTL DEF Spec

\* Every member keeps its type; in particular the expected number stays within the
\* session and only published numbers reach the parser.
THEOREM TypeOKAlways == Spec => []TypeOK
<1>1. ClientInv => TypeOK
  BY DEF ClientInv
<1> QED
  BY <1>1, ClientInvAlways, PTL

\* The vector of missing numbers is an unbroken run that ends below the first packet,
\* whatever is lost, repeated or overtaken: popping at its back alone is enough.
THEOREM MissingIsARunAlways == Spec => []MissingIsARun
<1>1. ClientInv => MissingIsARun
  BY DEF ClientInv
<1> QED
  BY <1>1, ClientInvAlways, PTL

\* No number below the first packet is dropped from the vector before its message
\* has been handed to the builder.
THEOREM NothingForgottenAlways == Spec => []NothingForgotten
<1>1. ClientInv => NothingForgotten
  BY DEF ClientInv
<1> QED
  BY <1>1, ClientInvAlways, PTL

\* The state and the vector agree at all times.
THEOREM RewindingMeansMissingAlways == Spec => []RewindingMeansMissing
<1>1. ClientInv => RewindingMeansMissing
  BY DEF ClientInv
<1> QED
  BY <1>1, ClientInvAlways, PTL

\* back() is never called on a vector the packet itself has emptied, because the
\* number of the first packet is a border between packets.
THEOREM NeverUndefinedAlways == Spec => []NeverUndefined
<1>1. ClientInv => NeverUndefined
  BY DEF ClientInv
<1> QED
  BY <1>1, ClientInvAlways, PTL

\* The rewinder is never asked for numbers of the live feed.
THEOREM RequestsStayBelowAlways == Spec => []RequestsStayBelow
<1>1. ClientInv => RequestsStayBelow
  BY DEF ClientInv
<1> QED
  BY <1>1, ClientInvAlways, PTL

----------------------------------------------------------------------------
(* The client implements Rewind. *)

\* The first number still missing, as the abstract specification sees it.
From == IF missing = << >> THEN rewindTill ELSE Last(missing)

\* A packet that is read is received.
LEMMA ReadReceives ==
    ASSUME ClientInv, NEW p \in net, read(p)
    PROVE  RewindView!Receive(p.seq, p.count)
<1>1. /\ TypeOK /\ MissingIsARun /\ RewindingMeansMissing /\ PacketsFit /\ NothingYet
      /\ LastSeq \in Nat
  BY ClientAssumption DEF ClientInv
<1>2. /\ p \in Packet /\ p.seq \in 1 .. LastSeq + 1 /\ p.count \in Nat
      /\ p.seq + p.count <= LastSeq + 1
  <2>1. p \in Packet
    BY <1>1 DEF TypeOK
  <2>2. p.seq + p.count <= published + 1 /\ published \in 0 .. LastSeq
    BY <1>1 DEF TypeOK, PacketsFit
  <2>3. p.seq \in 1 .. LastSeq + 1 /\ p.count \in Nat
    BY <2>1, PacketFields, ClientAssumption
  <2> QED
    BY <1>1, <2>1, <2>2, <2>3
<1>3. Range(applied)' = Range(applied) \cup (p.seq .. p.seq + p.count - 1)
  BY <1>1, <1>2, AppliedGrows DEF read, parse, Numbers
<1>4. CASE ParseRewinding(p)
  <2> DEFINE n == Len(missing)
             rest == SubSeq(missing, 1, n - Popped(p))
  <2>1. missing # << >> /\ state = "Rewinding"
    BY <1>1, <1>4 DEF RewindingMeansMissing, ParseRewinding
  <2>2. Popped(p) \in 0 .. n /\ \A i \in 1 .. Popped(p) : missing[n + 1 - i] \in Numbers(p)
    BY <1>1, <1>2, <2>1, PoppedNumbers
  <2>3. /\ n \in Nat \ {0} /\ Last(missing) = rewindTill - n /\ rewindTill \in Int
        /\ Last(missing) \in Int
    BY <1>1, <2>1, RunBounds
  <2>4. /\ rest = << >> <=> Popped(p) = n
        /\ rest # << >> => Last(rest) = Last(missing) + Popped(p)
    BY <1>1, <2>1, <2>2, RestRun
  <2> DEFINE next == Last(missing) + Popped(p)
  <2>5. missing' = rest /\ rewindTill' = rewindTill
    BY <1>4 DEF ParseRewinding
  <2>6. state' = IF rest = << >> THEN "Continuous" ELSE "Rewinding"
    BY <1>2, <1>4, RewindingEffect
  <2>7. From' = next
    BY <2>2, <2>3, <2>4, <2>5 DEF From
  <2>8. From = Last(missing)
    BY <2>1 DEF From
  <2>9. next \in From .. rewindTill /\ (next = rewindTill <=> rest = << >>)
    BY <2>2, <2>3, <2>4, <2>8
  <2>10. From .. next - 1 \subseteq p.seq .. p.seq + p.count - 1
    <3> SUFFICES ASSUME NEW x \in From .. next - 1 PROVE x \in Numbers(p)
      BY DEF Numbers
    <3>1. x - Last(missing) + 1 \in 1 .. Popped(p)
      BY <2>2, <2>3, <2>8
    <3> DEFINE i == x - Last(missing) + 1
    <3>2. n + 1 - i \in 1 .. n /\ rewindTill - (n + 1 - i) = x
      BY <2>2, <2>3, <2>8, <3>1
    <3>3. missing[n + 1 - i] = x
      BY <1>1, <3>2 DEF MissingIsARun
    <3> HIDE DEF i
    <3> QED
      BY <2>2, <3>1, <3>3 DEF i
  <2> HIDE DEF next, rest
  <2>11. RewindView!Advance(p.seq .. p.seq + p.count - 1)
    BY <2>1, <2>5, <2>6, <2>7, <2>9, <2>10 DEF RewindView!Advance, From
  <2> QED
    BY <1>3, <2>11 DEF RewindView!Receive
<1>5. CASE ParseInitialSync(p)
  <2> DEFINE new == [i \in 1 .. p.seq - 1 |-> p.seq - i]
  <2>1. state = "Initial" /\ p.seq > 1 /\ missing = << >>
    BY <1>1, <1>2, <1>5 DEF ParseInitialSync, InitialSync, RewindingMeansMissing
  <2>2. rewindTill' = p.seq /\ state' = "Rewinding"
    <3>1. requestMissingPackets(1, p.seq) # {}
      BY <2>1 DEF requestMissingPackets
    <3> QED
      BY <1>5, <3>1 DEF ParseInitialSync, Send, setState
  <2>3. missing' # << >> /\ Last(missing') = 1
    <3>1. missing' = << >> \o new
      BY <1>5, <2>1 DEF ParseInitialSync
    <3>2. \A i \in 1 .. p.seq - 1 : p.seq - i \in Int
      BY <1>2
    <3>3. /\ new \in [1 .. p.seq - 1 -> Int] /\ p.seq - 1 \in Nat \ {0}
          /\ new[p.seq - 1] = p.seq - (p.seq - 1)
      BY <1>2, <2>1, <3>2
    <3> HIDE DEF new
    <3>4. new \in Seq(Int) /\ Len(new) = p.seq - 1
      BY <3>3, SeqDef, LenProperties
    <3>5. missing' = new
      BY <3>1, <3>4, ConcatEmptySeq
    <3> QED
      BY <1>2, <3>3, <3>4, <3>5 DEF Last
  <2>4. From' = 1
    BY <2>3 DEF From
  <2>5. RewindView!Join(p.seq)
    BY <2>1, <2>2, <2>4 DEF RewindView!Join, From
  <2> QED
    BY <1>3, <2>5 DEF RewindView!Receive
<1>6. CASE ParseNormal(p)
  <2>1. UNCHANGED << missing, rewindTill, state >> /\ state # "Rewinding"
    BY <1>2, <1>6, TailAsksNothing DEF ParseNormal, Send, setState
  <2>2. RewindView!Follow
    BY <2>1 DEF RewindView!Follow
  <2> QED
    BY <1>3, <2>2 DEF RewindView!Receive
<1> QED
  BY <1>4, <1>5, <1>6 DEF read, parse

\* However the network behaves, the client works through the numbers it has missed in
\* ascending order, passes over none it has not received, and is Continuous exactly
\* when it has passed the last one.
THEOREM ImplementsRewind == Spec => RewindSpec
<1>1. Init => RewindView!Init
  <2> SUFFICES ASSUME Init PROVE RewindView!Init
    OBVIOUS
  <2>1. Range(<< >>) = {}
    BY DEF Range
  <2> QED
    BY <2>1 DEF Init, RewindView!Init
<1>2. ClientInv /\ [Next]_vars => [RewindView!Next]_(RewindView!rewindVars)
  <2> SUFFICES ASSUME ClientInv, [Next]_vars
               PROVE  RewindView!Next \/ UNCHANGED RewindView!rewindVars
    OBVIOUS
  <2>1. ASSUME NEW p \in net, read(p) PROVE RewindView!Next
    <3>1. p \in Packet
      BY DEF ClientInv, TypeOK
    <3>2. p.seq \in 1 .. LastSeq + 1 /\ p.count \in 0 .. MaxCount
      BY <3>1, PacketFields
    <3>3. RewindView!Receive(p.seq, p.count)
      BY <2>1, ReadReceives
    <3> QED
      BY <3>2, <3>3 DEF RewindView!Next
  <2>2. CASE UNCHANGED memberVars
    BY <2>2 DEF memberVars, RewindView!rewindVars
  <2>3. UNCHANGED memberVars \/ \E p \in net : read(p)
    BY DEF Next, vars, clientVars, construct, constructThrows, readEnds, Publish, AnswerSome, Answer,
           DeliverSome, Deliver, Duplicate, Lose
  <2> QED
    BY <2>1, <2>2, <2>3
<1> QED
  BY <1>1, <1>2, ClientInvAlways, PTL DEF Spec, RewindSpec, RewindView!Spec

----------------------------------------------------------------------------
(* Without duplicates and without overtaking, nothing is applied twice. *)

\* The two things the network must not do for that; it may still lose packets.
InOrderOnce == MaxDup = 0 /\ ~Reorder

\* Is something on its way from the rewinder, or to it?
Rewound(p) == p.kind = "rewound"

\* Live packets still to come are ahead of everything received: of the live numbers,
\* and so of the numbers below the first packet.
LiveAhead ==
    \A q \in net : q.kind = "live" =>
        /\ q.seq >= rewindTill
        /\ \A x \in Range(applied) : x >= rewindTill => x < q.seq
        /\ state = "Initial" => q.seq >= nextExpected

\* Live packets that begin with the same number are heartbeats, but for one.
LiveApart ==
    \A p, q \in net :
        p.kind = "live" /\ q.kind = "live" /\ p.seq = q.seq /\ p # q => p.count = 0 \/ q.count = 0

\* What has been received of the numbers to rewind is below the back of the vector.
RewoundBelow ==
    state = "Rewinding" => \A x \in Range(applied) : x < rewindTill => x < Last(missing)

\* At most one request or answer is on its way, and it begins at the back.
OnePending ==
    /\ state # "Rewinding" => requests = {} /\ \A p \in net : ~Rewound(p)
    /\ state = "Rewinding" => lastRequested = Last(missing)
    /\ \A r \in requests : r.seq = Last(missing) /\ \A p \in net : ~Rewound(p)
    /\ \A r, s \in requests : r = s
    /\ \A p \in net : Rewound(p) => p.seq = Last(missing) /\ p.count > 0
    /\ \A p, q \in net : Rewound(p) /\ Rewound(q) => p = q

OnceInv ==
    /\ budget \in [heartbeat : Int, loss : Int, dup : {0}]
    /\ \A x \in Range(applied) : x <= published
    /\ nextExpected <= published + 1
    /\ state = "Initial" /\ nextExpected = 1 => applied = << >>
    /\ LiveAhead /\ LiveApart /\ RewoundBelow /\ OnePending
    /\ AppliedOnce

\* Numbers that have not been applied before keep applied free of repetitions.
LEMMA AppliedFresh ==
    ASSUME TypeOK, AppliedOnce, NEW p \in Packet, p.seq + p.count <= LastSeq + 1,
           applied' = applied \o [i \in 1 .. p.count |-> p.seq + i - 1],
           \A x \in Range(applied) : x \notin Numbers(p)
    PROVE  AppliedOnce'
<1> DEFINE new == [i \in 1 .. p.count |-> p.seq + i - 1]
           n   == Len(applied)
<1>1. p.seq \in 1 .. LastSeq + 1 /\ p.count \in Nat /\ LastSeq \in Nat
  BY PacketFields, ClientAssumption
<1>2. applied \in Seq(1 .. LastSeq) /\ n \in Nat /\ DOMAIN applied = 1 .. n
  BY DEF TypeOK
<1>3. /\ new \in Seq(Int) /\ Len(new) = p.count
      /\ \A i \in 1 .. p.count : new[i] = p.seq + i - 1
  <2>1. \A i \in 1 .. p.count : p.seq + i - 1 \in Int
    BY <1>1
  <2>2. new \in [1 .. p.count -> Int]
    BY <2>1
  <2>3. \A i \in 1 .. p.count : new[i] = p.seq + i - 1
    OBVIOUS
  <2> HIDE DEF new
  <2>4. new \in Seq(Int)
    BY <1>1, <2>2, SeqDef
  <2> QED
    BY <1>1, <2>2, <2>3, <2>4, LenProperties
<1> HIDE DEF new
<1>4. applied' = applied \o new
  BY DEF new
<1>5. applied \in Seq(Int)
  <2>1. 1 .. LastSeq \subseteq Int
    OBVIOUS
  <2> QED
    BY <1>2, <2>1, SeqMonotonic
<1>6. /\ Len(applied') = n + p.count /\ DOMAIN applied' = 1 .. n + p.count
      /\ \A i \in 1 .. n + p.count : applied'[i] = IF i <= n THEN applied[i] ELSE new[i - n]
  <2>1. /\ applied \o new \in Seq(Int) /\ Len(applied \o new) = Len(applied) + Len(new)
        /\ \A i \in 1 .. Len(applied) + Len(new) :
               (applied \o new)[i] = IF i <= Len(applied) THEN applied[i] ELSE new[i - Len(applied)]
    BY <1>3, <1>5, ConcatProperties, Zenon
  <2> QED
    BY <1>3, <1>4, <2>1, LenProperties
<1>7. \A i \in 1 .. n : applied'[i] = applied[i] /\ applied[i] \in Range(applied)
  <2>1. \A i \in 1 .. n : applied[i] \in Range(applied)
    BY <1>2 DEF Range
  <2> QED
    BY <1>1, <1>2, <1>6, <2>1
<1>8. \A i \in 1 .. n + p.count : i > n => applied'[i] = p.seq + (i - n) - 1 /\ applied'[i] \in Numbers(p)
  <2> SUFFICES ASSUME NEW i \in 1 .. n + p.count, i > n
               PROVE  applied'[i] = p.seq + (i - n) - 1 /\ p.seq + (i - n) - 1 \in Numbers(p)
    OBVIOUS
  <2>1. i - n \in 1 .. p.count /\ ~(i <= n)
    BY <1>1, <1>2
  <2>2. applied'[i] = new[i - n]
    BY <1>6, <2>1
  <2>3. new[i - n] = p.seq + (i - n) - 1
    BY <1>3, <2>1
  <2>4. p.seq + (i - n) - 1 \in Numbers(p)
    BY <1>1, <2>1 DEF Numbers
  <2> QED
    BY <2>2, <2>3, <2>4
<1>9. ASSUME NEW i \in 1 .. n + p.count, NEW j \in 1 .. n + p.count, applied'[i] = applied'[j]
      PROVE  i = j
  <2>1. CASE i <= n /\ j <= n
    <3>1. i \in 1 .. n /\ j \in 1 .. n
      BY <1>1, <1>2, <2>1
    <3> QED
      BY <1>2, <1>7, <1>9, <3>1 DEF AppliedOnce, IsInjective
  <2>2. CASE i > n /\ j > n
    <3>1. p.seq + (i - n) - 1 = p.seq + (j - n) - 1
      BY <1>8, <1>9, <2>2
    <3> QED
      BY <1>1, <1>2, <3>1
  <2>3. CASE i <= n /\ j > n
    <3>1. i \in 1 .. n
      BY <1>1, <1>2, <2>3
    <3> QED
      BY <1>7, <1>8, <1>9, <2>3, <3>1
  <2>4. CASE i > n /\ j <= n
    <3>1. j \in 1 .. n
      BY <1>1, <1>2, <2>4
    <3> QED
      BY <1>7, <1>8, <1>9, <2>4, <3>1
  <2> QED
    BY <1>1, <1>2, <2>1, <2>2, <2>3, <2>4
<1> QED
  BY <1>6, <1>9 DEF AppliedOnce, IsInjective

\* The initial state.
LEMMA OnceInit == InOrderOnce /\ Init => OnceInv
<1> SUFFICES ASSUME InOrderOnce, Init PROVE OnceInv
  OBVIOUS
<1> USE DEF Init
<1>1. Range(applied) = {} /\ AppliedOnce
  BY DEF Range, AppliedOnce, IsInjective
<1>2. budget \in [heartbeat : Int, loss : Int, dup : {0}]
  BY ClientAssumption DEF InOrderOnce
<1>3. LiveAhead /\ LiveApart /\ RewoundBelow /\ OnePending
  BY DEF LiveAhead, LiveApart, RewoundBelow, OnePending
<1>4. nextExpected <= published + 1
  OBVIOUS
<1> QED
  BY <1>1, <1>2, <1>3, <1>4 DEF OnceInv

\* What is known of a packet that is delivered in order: it is new, and the live
\* packets that stay behind begin after it.
LEMMA DeliveredIsNew ==
    ASSUME ClientInv, OnceInv, InOrderOnce, NEW p \in net, Deliver(p)
    PROVE  /\ p \in Packet /\ p.seq \in 1 .. LastSeq + 1 /\ p.count \in Nat
           /\ p.seq + p.count <= published + 1 /\ p.seq + p.count <= LastSeq + 1
           /\ rewindTill \in Nat /\ Range(applied) \subseteq Nat
           /\ AppliedOnce'
           /\ Range(applied') = Range(applied) \cup Numbers(p)
           /\ \A x \in Range(applied') : x <= published
           /\ net' = net \ {p} /\ published' = published /\ budget' = budget
           /\ p.kind = "live" => \A q \in net' : q.kind = "live" => q.seq >= p.seq + p.count
<1>1. /\ TypeOK /\ PacketsFit /\ LastSeq \in Nat /\ published \in 0 .. LastSeq
      /\ LiveAhead /\ LiveApart /\ RewoundBelow /\ OnePending /\ AppliedOnce
      /\ RewindingMeansMissing /\ MissingIsARun
  BY ClientAssumption DEF ClientInv, OnceInv, TypeOK
<1>2. /\ p \in Packet /\ p.seq \in 1 .. LastSeq + 1 /\ p.count \in Nat
      /\ p.seq + p.count <= published + 1 /\ p.seq + p.count <= LastSeq + 1
      /\ p.kind \in {"live", "rewound"}
  <2>1. p \in Packet /\ p.seq + p.count <= published + 1
    BY <1>1 DEF TypeOK, PacketsFit
  <2>2. p.seq \in 1 .. LastSeq + 1 /\ p.count \in Nat /\ p.kind \in {"live", "rewound"}
    BY <2>1, PacketFields, ClientAssumption
  <2> QED
    BY <1>1, <2>1, <2>2
<1>3. rewindTill \in Nat /\ Range(applied) \subseteq Nat
  BY <1>1, RangeOfSeq DEF TypeOK
<1>4. applied' = applied \o [i \in 1 .. p.count |-> p.seq + i - 1]
  BY DEF Deliver, read, parse
<1>5. Range(applied') = Range(applied) \cup Numbers(p)
  BY <1>1, <1>2, <1>4, AppliedGrows
<1>6. \A x \in Range(applied) : x \notin Numbers(p)
  <2> SUFFICES ASSUME NEW x \in Range(applied), x \in Numbers(p) PROVE FALSE
    OBVIOUS
  <2>1. x \in Nat /\ p.seq <= x /\ x < p.seq + p.count
    BY <1>2, <1>3 DEF Numbers
  <2>2. CASE p.kind = "live"
    BY <1>1, <1>2, <1>3, <2>1, <2>2 DEF LiveAhead
  <2>3. CASE p.kind = "rewound"
    <3>1. p.seq = Last(missing) /\ state = "Rewinding" /\ p.seq + p.count <= rewindTill
      BY <1>1, <2>3 DEF OnePending, Rewound, PacketsFit
    <3>2. x < rewindTill
      BY <1>2, <1>3, <2>1, <3>1
    <3> QED
      BY <1>1, <1>2, <2>1, <3>1, <3>2 DEF RewoundBelow
  <2> QED
    BY <1>2, <2>2, <2>3
<1>7. AppliedOnce'
  BY <1>1, <1>2, <1>4, <1>6, AppliedFresh
<1>8. \A x \in Range(applied') : x <= published
  <2>1. \A x \in Numbers(p) : x <= published
    BY <1>1, <1>2 DEF Numbers
  <2> QED
    BY <1>5, <2>1 DEF OnceInv
<1>9. net' = net \ {p} /\ published' = published /\ budget' = budget
  BY DEF Deliver
<1>10. ASSUME p.kind = "live", NEW q \in net', q.kind = "live"
       PROVE  q.seq >= p.seq + p.count
  <2>1. q \in net /\ q # p
    BY <1>9
  <2>2. q.seq \in Int /\ q.count \in Nat
    BY <1>1, <2>1, PacketFields, ClientAssumption DEF TypeOK
  <2>3. p.seq < q.seq \/ (p.seq = q.seq /\ p.count <= q.count)
    BY <1>10, <2>1 DEF Deliver, InOrder, InOrderOnce
  <2>4. ~Splits(p, q.seq)
    BY <1>1, <1>10, <2>1 DEF PacketsFit
  <2>5. p.seq = q.seq => p.count = 0 \/ q.count = 0
    BY <1>1, <1>10, <2>1 DEF LiveApart
  <2> QED
    BY <1>2, <2>2, <2>3, <2>4, <2>5 DEF Splits
<1> QED
  BY <1>2, <1>3, <1>5, <1>7, <1>8, <1>9, <1>10

\* A packet delivered while numbers are missing is the one answer on its way, which
\* moves the back behind its numbers, or a live one, which moves nothing.
LEMMA OnceRewinding ==
    ASSUME ClientInv, OnceInv, InOrderOnce, NEW p \in net, Deliver(p), ParseRewinding(p)
    PROVE  OnceInv'
<1> DEFINE rest == SubSeq(missing, 1, Len(missing) - Popped(p))
           asked == requestMissingPackets(Last(rest), Head(rest) + 1)
<1>1. /\ TypeOK /\ PacketsFit /\ MissingIsARun /\ LastSeq \in Nat
      /\ LiveAhead /\ LiveApart /\ RewoundBelow /\ OnePending
      /\ state = "Rewinding" /\ missing # << >> /\ nextExpected <= published + 1
      /\ published \in Nat /\ nextExpected \in Nat
  BY ClientAssumption
     DEF ClientInv, OnceInv, TypeOK, RewindingMeansMissing, ParseRewinding
<1>2. /\ p \in Packet /\ p.seq \in 1 .. LastSeq + 1 /\ p.count \in Nat
      /\ p.seq + p.count <= published + 1 /\ p.seq + p.count <= LastSeq + 1
      /\ rewindTill \in Nat /\ Range(applied) \subseteq Nat
      /\ AppliedOnce'
      /\ Range(applied') = Range(applied) \cup Numbers(p)
      /\ \A x \in Range(applied') : x <= published
      /\ net' = net \ {p} /\ published' = published /\ budget' = budget
      /\ p.kind = "live" => \A q \in net' : q.kind = "live" => q.seq >= p.seq + p.count
  BY DeliveredIsNew
<1>3. /\ Len(missing) \in Nat \ {0} /\ Last(missing) = rewindTill - Len(missing)
      /\ Last(missing) \in 1 .. LastSeq
  BY <1>1, RunBounds
<1>4. /\ missing' = rest
      /\ lastRequested' = IF rest # << >> /\ lastRequested # Last(rest) THEN Last(rest) ELSE lastRequested
      /\ requests' = requests \cup (IF rest # << >> /\ lastRequested # Last(rest) THEN asked ELSE {})
      /\ state' = IF rest = << >> THEN "Continuous" ELSE "Rewinding"
      /\ rewindTill' = rewindTill
  BY <1>2, RewindingEffect
<1>5. /\ Popped(p) \in 0 .. Len(missing)
      /\ Last(missing) = p.seq =>
             Popped(p) = IF p.count <= Len(missing) THEN p.count ELSE Len(missing)
      /\ (Last(missing) < p.seq \/ Last(missing) >= p.seq + p.count) => Popped(p) = 0
  BY <1>1, <1>2, PoppedNumbers
<1>6. /\ rest = << >> <=> Popped(p) = Len(missing)
      /\ rest # << >> => Last(rest) = Last(missing) + Popped(p)
  BY <1>1, <1>5, RestRun
<1>7. nextExpected' <= published' + 1
  BY <1>1, <1>2 DEF ParseRewinding, TailNextExpected, calculateNextSequenceNumber
<1>8. LiveApart'
  BY <1>1, <1>2 DEF LiveApart
<1> HIDE DEF rest, asked
<1>9. CASE p.kind = "live"
  <2>1. Popped(p) = 0 /\ rest # << >> /\ Last(rest) = Last(missing)
    BY <1>1, <1>2, <1>3, <1>5, <1>6, <1>9 DEF LiveAhead
  <2>2. lastRequested = Last(missing)
    BY <1>1 DEF OnePending
  <2>3. state' = "Rewinding" /\ requests' = requests /\ lastRequested' = lastRequested /\ Last(missing') = Last(missing)
    BY <1>4, <2>1, <2>2
  <2>4. OnePending'
    BY <1>1, <1>2, <2>3 DEF OnePending, Rewound
  <2>5. \A x \in Numbers(p) : x \in Int /\ p.seq <= x /\ x < p.seq + p.count /\ rewindTill <= x
    BY <1>1, <1>2, <1>9 DEF LiveAhead, Numbers
  <2>6. RewoundBelow'
    BY <1>1, <1>2, <1>4, <2>3, <2>5 DEF RewoundBelow
  <2>7. LiveAhead'
    <3> SUFFICES ASSUME NEW q \in net', q.kind = "live"
                 PROVE  /\ q.seq >= rewindTill
                        /\ \A x \in Range(applied') : x >= rewindTill => x < q.seq
      BY <1>4, <2>3 DEF LiveAhead
    <3>1. q \in net /\ q.seq >= p.seq + p.count /\ q.seq \in Int
      BY <1>1, <1>2, <1>9, PacketFields DEF TypeOK
    <3> QED
      BY <1>1, <1>2, <2>5, <3>1 DEF LiveAhead
  <2> QED
    BY <1>2, <1>7, <1>8, <2>3, <2>4, <2>6, <2>7 DEF OnceInv
<1>10. CASE p.kind = "rewound"
  <2>1. /\ p.seq = Last(missing) /\ p.count > 0 /\ p.seq + p.count <= rewindTill
        /\ requests = {} /\ \A q \in net' : q.kind # "rewound"
        /\ lastRequested = Last(missing)
    BY <1>1, <1>2, <1>10 DEF OnePending, Rewound, PacketsFit
  <2>2. Popped(p) = p.count
    BY <1>2, <1>3, <1>5, <2>1
  <2>3. rest # << >> => Last(rest) = p.seq + p.count /\ lastRequested # Last(rest)
    BY <1>2, <1>3, <1>6, <2>1, <2>2
  <2>4. \A x \in Numbers(p) : x \in Int /\ p.seq <= x /\ x < p.seq + p.count /\ x < rewindTill
    BY <1>2, <2>1 DEF Numbers
  <2>5. RewoundBelow'
    <3> SUFFICES ASSUME rest # << >>, NEW x \in Range(applied'), x < rewindTill
                 PROVE  x < p.seq + p.count
      BY <1>4, <2>3 DEF RewoundBelow
    <3>1. CASE x \in Numbers(p)
      BY <2>4, <3>1
    <3>2. CASE x \in Range(applied)
      <4>1. x < Last(missing) /\ x \in Nat
        BY <1>1, <1>2, <3>2 DEF RewoundBelow
      <4> QED
        BY <1>2, <2>1, <4>1
    <3> QED
      BY <1>2, <3>1, <3>2
  <2>6. LiveAhead'
    <3> SUFFICES ASSUME NEW q \in net', q.kind = "live"
                 PROVE  /\ q.seq >= rewindTill
                        /\ \A x \in Range(applied') : x >= rewindTill => x < q.seq
      BY <1>4 DEF LiveAhead
    <3>1. q \in net /\ q.seq \in Int
      BY <1>1, <1>2, PacketFields DEF TypeOK
    <3> QED
      BY <1>1, <1>2, <2>4, <3>1 DEF LiveAhead
  <2>7. OnePending'
    <3>1. CASE rest = << >>
      BY <1>4, <2>1, <3>1 DEF OnePending, Rewound
    <3>2. CASE rest # << >>
      <4>1. requests' = asked /\ state' = "Rewinding" /\ missing' = rest /\ lastRequested' = Last(rest)
        BY <1>4, <2>1, <2>3, <3>2
      <4>2. \A r \in asked : r.seq = Last(rest) /\ \A s \in asked : r = s
        BY DEF asked, requestMissingPackets
      <4> QED
        BY <2>1, <4>1, <4>2 DEF OnePending, Rewound
    <3> QED
      BY <3>1, <3>2
  <2> QED
    BY <1>2, <1>4, <1>7, <1>8, <2>5, <2>6, <2>7 DEF OnceInv
<1> QED
  BY <1>2, <1>9, <1>10, PacketFields

\* The first packet.
LEMMA OnceInitialSync ==
    ASSUME ClientInv, OnceInv, InOrderOnce, NEW p \in net, Deliver(p), ParseInitialSync(p)
    PROVE  OnceInv'
<1> DEFINE asked == requestMissingPackets(1, p.seq)
<1>1. /\ LiveApart /\ NothingYet /\ state = "Initial" /\ applied = << >> /\ requests = {}
      /\ p.kind = "live" /\ (\A q \in net : q.kind = "live") /\ p.seq # 1
      /\ nextExpected <= published + 1 /\ net \subseteq Packet
  BY DEF ClientInv, OnceInv, TypeOK, NothingYet, ParseInitialSync, InitialSync
<1>2. /\ p \in Packet /\ p.seq \in 1 .. LastSeq + 1 /\ p.count \in Nat
      /\ AppliedOnce'
      /\ Range(applied') = Range(applied) \cup Numbers(p)
      /\ \A x \in Range(applied') : x <= published
      /\ net' = net \ {p} /\ published' = published /\ budget' = budget
      /\ \A q \in net' : q.kind = "live" => q.seq >= p.seq + p.count
  BY <1>1, DeliveredIsNew
<1>3. p.seq > 1 /\ asked # {} /\ \A r \in asked : r.seq = 1 /\ \A s \in asked : r = s
  <2>1. p.seq > 1
    BY <1>1, <1>2
  <2>2. asked = {[seq |-> 1, count |-> (p.seq - 1) % CountMod]}
    BY <2>1 DEF requestMissingPackets
  <2> HIDE DEF asked
  <2> QED
    BY <2>1, <2>2
<1>4. /\ state' = "Rewinding" /\ requests' = asked /\ lastRequested' = 1 /\ rewindTill' = p.seq
      /\ nextExpected' = nextExpected
  BY <1>1, <1>3 DEF ParseInitialSync, Send, setState, write
<1> HIDE DEF asked
<1>5. Last(missing') = 1
  <2>1. ClientInv'
    BY <1>2, ReadStep DEF Deliver
  <2>2. TypeOK' /\ MissingIsARun' /\ missing' # << >>
    BY <1>4, <2>1 DEF ClientInv, RewindingMeansMissing
  <2>3. Len(missing') = p.seq - 1
    <3> DEFINE new == [i \in 1 .. p.seq - 1 |-> p.seq - i]
    <3>1. missing = << >> /\ missing' = missing \o new
      BY <1>1 DEF ClientInv, RewindingMeansMissing, ParseInitialSync
    <3>2. p.seq - 1 \in Nat /\ \A i \in 1 .. p.seq - 1 : p.seq - i \in Int
      BY <1>2
    <3>3. new \in [1 .. p.seq - 1 -> Int]
      BY <3>2
    <3> HIDE DEF new
    <3>4. new \in Seq(Int)
      BY <3>2, <3>3, SeqDef
    <3> QED
      BY <3>1, <3>2, <3>3, <3>4, ConcatEmptySeq, LenProperties
  <2>4. p.seq - 1 \in 1 .. Len(missing')
    BY <1>2, <1>3, <2>3
  <2>5. missing'[Len(missing')] = p.seq - (p.seq - 1)
    BY <1>4, <2>2, <2>3, <2>4 DEF MissingIsARun
  <2> QED
    BY <1>2, <2>5 DEF Last
<1>6. \A x \in Range(applied') : x \in Int /\ p.seq <= x /\ x < p.seq + p.count
  <2>1. Range(applied) = {}
    BY <1>1 DEF Range
  <2> QED
    BY <1>2, <2>1 DEF Numbers
<1>7. LiveAhead'
  <2> SUFFICES ASSUME NEW q \in net', q.kind = "live"
               PROVE  q.seq >= p.seq /\ \A x \in Range(applied') : x < q.seq
    BY <1>4 DEF LiveAhead
  <2>1. q.seq \in Int /\ q.seq >= p.seq + p.count
    BY <1>1, <1>2, PacketFields
  <2> QED
    BY <1>2, <1>6, <2>1
<1>8. LiveApart'
  BY <1>1, <1>2 DEF LiveApart
<1>9. RewoundBelow'
  BY <1>2, <1>4, <1>6 DEF RewoundBelow
<1>10. OnePending'
  BY <1>1, <1>2, <1>3, <1>4, <1>5 DEF OnePending, Rewound
<1> QED
  BY <1>1, <1>2, <1>4, <1>7, <1>8, <1>9, <1>10 DEF OnceInv

\* Any other packet is a live one.
LEMMA OnceNormal ==
    ASSUME ClientInv, OnceInv, InOrderOnce, NEW p \in net, Deliver(p), ParseNormal(p)
    PROVE  OnceInv'
<1>1. /\ LiveAhead /\ LiveApart /\ RewoundBelow /\ OnePending /\ NothingYet
      /\ state # "Rewinding" /\ nextExpected <= published + 1 /\ net \subseteq Packet
      /\ nextExpected \in Nat /\ published \in Nat /\ rewindTill \in Nat
      /\ (state = "Initial" /\ nextExpected = 1 => applied = << >>)
  BY ClientAssumption DEF ClientInv, OnceInv, TypeOK, ParseNormal
<1>2. /\ p \in Packet /\ p.seq \in 1 .. LastSeq + 1 /\ p.count \in Nat
      /\ p.seq + p.count <= published + 1
      /\ Range(applied) \subseteq Nat
      /\ AppliedOnce'
      /\ Range(applied') = Range(applied) \cup Numbers(p)
      /\ \A x \in Range(applied') : x <= published
      /\ net' = net \ {p} /\ published' = published /\ budget' = budget
      /\ p.kind = "live" => \A q \in net' : q.kind = "live" => q.seq >= p.seq + p.count
  BY DeliveredIsNew
<1>3. p.kind = "live"
  BY <1>1, <1>2, PacketFields DEF OnePending, Rewound
<1>4. /\ missing' = missing /\ lastRequested' = lastRequested /\ rewindTill' = rewindTill
      /\ state' = state /\ requests' = requests
      /\ nextExpected' = IF p.seq > rewindTill THEN p.seq + p.count ELSE nextExpected
  BY <1>2, TailAsksNothing
     DEF ParseNormal, Send, write, setState, TailNextExpected, calculateNextSequenceNumber
<1>5. nextExpected' <= published' + 1
  BY <1>1, <1>2, <1>4
<1>6. \A x \in Numbers(p) : x \in Int /\ p.seq <= x /\ x < p.seq + p.count
  BY <1>2 DEF Numbers
<1>7. LiveAhead'
  <2> SUFFICES ASSUME NEW q \in net', q.kind = "live"
               PROVE  /\ q.seq >= rewindTill
                      /\ \A x \in Range(applied') : x >= rewindTill => x < q.seq
                      /\ state = "Initial" => q.seq >= nextExpected'
    BY <1>4 DEF LiveAhead
  <2>1. q \in net /\ q.seq \in Int /\ q.seq >= p.seq + p.count
    BY <1>1, <1>2, <1>3, PacketFields
  <2> QED
    BY <1>1, <1>2, <1>4, <1>6, <2>1 DEF LiveAhead
<1>8. LiveApart' /\ RewoundBelow' /\ OnePending'
  BY <1>1, <1>2, <1>4 DEF LiveApart, RewoundBelow, OnePending, Rewound
<1>9. ASSUME state' = "Initial", nextExpected' = 1 PROVE applied' = << >>
  <2>1. state = "Initial" /\ rewindTill = 0 /\ p.seq > rewindTill
    BY <1>1, <1>2, <1>4, <1>9 DEF NothingYet
  <2>2. p.seq = 1 /\ p.count = 0
    BY <1>2, <1>4, <1>9, <2>1
  <2>3. nextExpected = 1
    <3>1. p.seq >= nextExpected
      BY <1>1, <1>3, <2>1 DEF LiveAhead
    <3>2. nextExpected \in 1 .. LastSeq + 1
      BY DEF ClientInv, TypeOK
    <3> QED
      BY <1>1, <2>2, <3>1, <3>2
  <2>4. applied = << >>
    BY <1>1, <2>1, <2>3
  <2>5. Range(applied') = {} /\ applied' \in Seq(1 .. LastSeq)
    <3>1. Numbers(p) = {}
      BY <1>2, <1>6, <2>2
    <3>2. Range(applied) = {}
      BY <2>4 DEF Range
    <3>3. ClientInv'
      BY <1>2, ReadStep DEF Deliver
    <3> QED
      BY <1>2, <3>1, <3>2, <3>3 DEF ClientInv, TypeOK
  <2>6. Len(applied') \in Nat /\ \A i \in 1 .. Len(applied') : applied'[i] \in Range(applied')
    BY <2>5, RangeEquality, LenProperties
  <2>7. Len(applied') = 0
    BY <2>5, <2>6
  <2> QED
    BY <2>5, <2>7, EmptySeq
<1> QED
  BY <1>2, <1>5, <1>7, <1>8, <1>9 DEF OnceInv

\* A new live packet is ahead of everything.
LEMMA OncePublish ==
    ASSUME ClientInv, OnceInv, NEW count \in 0 .. MaxCount, Publish(count)
    PROVE  OnceInv'
<1> DEFINE new == [kind |-> "live", seq |-> published + 1, count |-> count]
<1>1. /\ LiveAhead /\ LiveApart /\ RewoundBelow /\ OnePending /\ AppliedOnce
      /\ PacketsFit /\ TillIsABorder /\ net \subseteq Packet
      /\ \A x \in Range(applied) : x <= published
      /\ nextExpected <= published + 1 /\ rewindTill <= published + 1
      /\ (state = "Initial" /\ nextExpected = 1 => applied = << >>)
      /\ published \in Nat /\ published' = published + count /\ count \in Nat
      /\ nextExpected \in Nat /\ rewindTill \in Nat /\ Range(applied) \subseteq Nat
  <2>1. applied \in Seq(1 .. LastSeq)
    BY DEF ClientInv, TypeOK
  <2>2. Range(applied) \subseteq Nat
    <3>1. Range(applied) \in SUBSET (1 .. LastSeq)
      BY <2>1, RangeOfSeq
    <3> QED
      BY <3>1
  <2>3. /\ net \subseteq Packet /\ published \in Nat /\ nextExpected \in Nat /\ rewindTill \in Nat
        /\ count \in Nat
    BY ClientAssumption DEF ClientInv, TypeOK
  <2>4. rewindTill <= published + 1 /\ published' = published + count
    BY DEF ClientInv, TillIsABorder, Publish
  <2> QED
    BY <2>2, <2>3, <2>4 DEF ClientInv, OnceInv
<1>2. new.kind = "live" /\ new.seq = published + 1 /\ new.count = count
  OBVIOUS
<1>3. /\ UNCHANGED << state, missing, lastRequested, rewindTill, nextExpected, undefined, applied,
                      socket, requests >>
      /\ net' \in SUBSET (net \cup {new})
  BY DEF Publish, clientVars, memberVars
<1>4. budget' \in [heartbeat : Int, loss : Int, dup : {0}]
  BY DEF OnceInv, Publish
<1> HIDE DEF new
<1>5. LiveAhead'
  <2>1. \A x \in Range(applied) : x < new.seq
    BY <1>1, <1>2
  <2>2. new.seq >= rewindTill /\ new.seq >= nextExpected
    BY <1>1, <1>2
  <2> QED
    BY <1>1, <1>3, <2>1, <2>2 DEF LiveAhead
<1>6. LiveApart'
  <2>1. \A q \in net : q.seq = new.seq => q.count = 0
    <3> SUFFICES ASSUME NEW q \in net, q.seq = published + 1 PROVE q.count = 0
      BY <1>2
    <3>1. q \in Packet /\ q.seq + q.count <= published + 1
      BY <1>1 DEF PacketsFit
    <3>2. q.count \in Nat
      BY <3>1, PacketFields, ClientAssumption
    <3> QED
      BY <1>1, <3>1, <3>2
  <2> QED
    BY <1>1, <1>3, <2>1 DEF LiveApart
<1>7. RewoundBelow'
  BY <1>1, <1>3 DEF RewoundBelow
<1>8. OnePending'
  <2>1. \A q \in net' : Rewound(q) => q \in net
    BY <1>2, <1>3 DEF Rewound
  <2> QED
    BY <1>1, <1>3, <2>1 DEF OnePending
<1>9. (\A x \in Range(applied') : x <= published') /\ nextExpected' <= published' + 1
  BY <1>1, <1>3
<1>10. AppliedOnce'
  BY <1>1, <1>3 DEF AppliedOnce
<1> QED
  BY <1>1, <1>3, <1>4, <1>5, <1>6, <1>7, <1>8, <1>9, <1>10 DEF OnceInv

\* An answer takes the place of its request.
LEMMA OnceAnswer ==
    ASSUME ClientInv, OnceInv, NEW r \in requests, Answer(r)
    PROVE  OnceInv'
<1>1. /\ LiveAhead /\ LiveApart /\ RewoundBelow /\ OnePending
      /\ state = "Rewinding"
      /\ requests' = {} /\ r.seq = Last(missing) /\ \A q \in net : ~Rewound(q)
  <2>1. requests' = {}
    BY DEF OnceInv, OnePending, Answer
  <2> QED
    BY <2>1 DEF OnceInv, OnePending
<1>2. UNCHANGED << state, missing, lastRequested, rewindTill, nextExpected, undefined, applied,
                   socket, published, budget >>
  BY DEF Answer, clientVars, memberVars
<1>3. \A q \in net' : q \notin net => q.kind = "rewound" /\ q.seq = r.seq /\ q.count > 0
  <2> SUFFICES ASSUME NEW q \in net', q \notin net
               PROVE  q.kind = "rewound" /\ q.seq = r.seq /\ q.count > 0
    OBVIOUS
  <2> DEFINE most == Min({r.count, MaxCount, published + 1 - r.seq})
  <2>1. PICK count \in 1 .. most : q = [kind |-> "rewound", seq |-> r.seq, count |-> count]
    BY DEF Answer
  <2> HIDE DEF most
  <2>2. q.kind = "rewound" /\ q.seq = r.seq /\ q.count = count
    BY <2>1
  <2> QED
    BY <2>2
<1>4. \A p, q \in net' : p \notin net /\ q \notin net => p = q
  BY DEF Answer
<1>5. \A q \in net' : q.kind = "live" => q \in net
  BY <1>3
<1>6. LiveAhead' /\ LiveApart' /\ RewoundBelow'
  BY <1>1, <1>2, <1>5 DEF LiveAhead, LiveApart, RewoundBelow
<1>7. OnePending'
  BY <1>1, <1>2, <1>3, <1>4 DEF OnePending, Rewound
<1>8. AppliedOnce'
  BY <1>2 DEF OnceInv, AppliedOnce
<1> QED
  BY <1>2, <1>6, <1>7, <1>8 DEF OnceInv

\* Opening and closing the socket and losing things repeats nothing.
LEMMA OnceQuiet ==
    ASSUME OnceInv, UNCHANGED << memberVars, published >>,
           net' \in SUBSET net, requests' \in SUBSET requests,
           budget' \in [heartbeat : Int, loss : Int, dup : {0}]
    PROVE  OnceInv'
<1>1. LiveAhead' /\ LiveApart' /\ RewoundBelow'
  BY DEF OnceInv, memberVars, LiveAhead, LiveApart, RewoundBelow
<1>2. OnePending'
  BY DEF OnceInv, memberVars, OnePending
<1>3. AppliedOnce'
  BY DEF OnceInv, memberVars, AppliedOnce
<1> QED
  BY <1>1, <1>2, <1>3 DEF OnceInv, memberVars

\* Every step of a network that neither repeats nor overtakes.
LEMMA OnceNext == InOrderOnce /\ ClientInv /\ OnceInv /\ [Next]_vars => OnceInv'
<1> SUFFICES ASSUME InOrderOnce, ClientInv, OnceInv, [Next]_vars PROVE OnceInv'
  OBVIOUS
<1>1. budget \in [heartbeat : Int, loss : Int, dup : {0}]
  BY DEF OnceInv
<1>2. CASE construct \/ constructThrows \/ readEnds
  BY <1>1, <1>2, OnceQuiet DEF construct, run, constructThrows, readEnds, envVars
<1>3. ASSUME NEW count \in 0 .. MaxCount, Publish(count) PROVE OnceInv'
  BY <1>3, OncePublish
<1>4. CASE AnswerSome
  BY <1>4, OnceAnswer DEF AnswerSome
<1>5. CASE DeliverSome
  <2>1. PICK p \in net : Deliver(p)
    BY <1>5 DEF DeliverSome
  <2>2. ParseRewinding(p) \/ ParseInitialSync(p) \/ ParseNormal(p)
    BY <2>1 DEF Deliver, read, parse
  <2> QED
    BY <2>1, <2>2, OnceRewinding, OnceInitialSync, OnceNormal
<1>6. ASSUME NEW p \in net, Duplicate(p) PROVE OnceInv'
  <2>1. ~(budget.dup > 0)
    BY <1>1
  <2> QED
    BY <1>6, <2>1 DEF Duplicate
<1>7. CASE Lose
  <2>1. budget' \in [heartbeat : Int, loss : Int, dup : {0}]
    BY <1>1, <1>7 DEF Lose
  <2> QED
    BY <1>7, <2>1, OnceQuiet DEF Lose, clientVars
<1>8. CASE UNCHANGED vars
  BY <1>1, <1>8, OnceQuiet DEF vars, clientVars, envVars
<1> QED
  BY <1>2, <1>3, <1>4, <1>5, <1>6, <1>7, <1>8 DEF Next

\* On a network that neither repeats a packet nor lets one overtake another, every
\* message reaches the builder at most once, although live and rewound packets
\* interleave and packets and requests may be lost: the test against
\* m_lastRequestedSequenceNumber keeps a second request for the same numbers away.
THEOREM AppliedOnceAlways == InOrderOnce => (Spec => []AppliedOnce)
<1> SUFFICES ASSUME InOrderOnce PROVE Spec => []AppliedOnce
  OBVIOUS
<1>1. Init => OnceInv
  BY OnceInit
<1>2. ClientInv /\ OnceInv /\ [Next]_vars => OnceInv'
  BY OnceNext
<1>3. OnceInv => AppliedOnce
  BY DEF OnceInv
<1> QED
  BY <1>1, <1>2, <1>3, ClientInvAlways, PTL DEF Spec

----------------------------------------------------------------------------
(* Sums. *)

\* Induction up to a bound, for the members of a set.
LEMMA UpTo ==
    ASSUME NEW N \in Nat, NEW S, 0 \in S, \A n \in 0 .. N - 1 : n \in S => n + 1 \in S
    PROVE  \A n \in 0 .. N : n \in S
<1> DEFINE Out == {n \in 0 .. N : n \notin S}
<1>1. ASSUME Out # {} PROVE FALSE
  <2>1. Out \subseteq Nat
    OBVIOUS
  <2>2. \E x \in Out : \A y \in Out : ~(<< y, x >> \in OpToRel(<, Nat))
    BY <1>1, <2>1, NatLessThanWellFounded, WFMin
  <2>3. PICK x \in Out : \A y \in Out : ~(y < x)
    BY <2>1, <2>2 DEF OpToRel
  <2>4. x # 0 /\ x - 1 \in 0 .. N - 1
    BY <2>3
  <2>5. x - 1 \in S
    BY <2>3, <2>4
  <2> QED
    BY <2>3, <2>4, <2>5
<1> QED
  BY <1>1

\* t holds the sums of the first values of w.
SumOf(w, N, t) ==
    /\ t \in [0 .. N -> Nat]
    /\ t[0] = 0
    /\ \A i \in 1 .. N : t[i] = t[i - 1] + w[i]

Total(w, N) == (CHOOSE t : SumOf(w, N, t))[N]

\* There are such sums.
LEMMA TotalIs ==
    ASSUME NEW N \in Nat, NEW w \in [1 .. N -> Nat]
    PROVE  \E t : SumOf(w, N, t) /\ Total(w, N) = t[N] /\ Total(w, N) \in Nat
<1> DEFINE S == {n \in 0 .. N : \E t : SumOf(w, n, t)}
<1>1. 0 \in S
  <2> DEFINE t == [i \in 0 .. 0 |-> 0]
  <2>1. t \in [0 .. 0 -> Nat] /\ t[0] = 0
    OBVIOUS
  <2> HIDE DEF t
  <2>2. SumOf(w, 0, t)
    BY <2>1 DEF SumOf
  <2> QED
    BY <2>2
<1>2. ASSUME NEW n \in 0 .. N - 1, n \in S PROVE n + 1 \in S
  <2>1. PICK t : SumOf(w, n, t)
    BY <1>2
  <2>2. t \in [0 .. n -> Nat] /\ t[0] = 0 /\ \A i \in 1 .. n : t[i] = t[i - 1] + w[i]
    BY <2>1 DEF SumOf
  <2>3. w[n + 1] \in Nat /\ t[n] \in Nat
    BY <2>2
  <2> DEFINE last == t[n] + w[n + 1]
             u == [i \in 0 .. n + 1 |-> IF i <= n THEN t[i] ELSE last]
  <2>4. last \in Nat
    BY <2>3
  <2> HIDE DEF last
  <2>5. u \in [0 .. n + 1 -> Nat] /\ u[n + 1] = last /\ \A i \in 0 .. n : u[i] = t[i]
    BY <2>2, <2>4
  <2> HIDE DEF u
  <2>6. ASSUME NEW i \in 1 .. n + 1 PROVE u[i] = u[i - 1] + w[i]
    <3>1. CASE i \in 1 .. n
      <4>1. i \in 0 .. n /\ i - 1 \in 0 .. n
        BY <3>1
      <4> QED
        BY <2>2, <2>5, <3>1, <4>1
    <3>2. CASE i = n + 1
      <4>1. i - 1 = n /\ n \in 0 .. n
        BY <3>2
      <4> QED
        BY <2>5, <3>2, <4>1 DEF last
    <3> QED
      BY <3>1, <3>2
  <2>7. 0 \in 0 .. n /\ n + 1 \in 0 .. N
    OBVIOUS
  <2>8. SumOf(w, n + 1, u)
    BY <2>2, <2>5, <2>6, <2>7 DEF SumOf
  <2> QED
    BY <2>7, <2>8
<1> HIDE DEF S
<1>3. \A n \in 0 .. N : n \in S
  BY <1>1, <1>2, UpTo
<1>4. \E t : SumOf(w, N, t)
  BY <1>3 DEF S
<1> DEFINE c == CHOOSE t : SumOf(w, N, t)
<1>5. SumOf(w, N, c)
  BY <1>4
<1>6. Total(w, N) = c[N]
  BY DEF Total
<1> HIDE DEF c
<1>7. c[N] \in Nat
  BY <1>5 DEF SumOf
<1> QED
  BY <1>5, <1>6, <1>7

\* Smaller values have a smaller sum.
LEMMA TotalsCompare ==
    ASSUME NEW N \in Nat, NEW v \in [1 .. N -> Nat], NEW w \in [1 .. N -> Nat], \A i \in 1 .. N : v[i] <= w[i]
    PROVE  Total(v, N) <= Total(w, N)
<1>1. PICK s : SumOf(v, N, s) /\ Total(v, N) = s[N]
  BY TotalIs
<1>2. PICK t : SumOf(w, N, t) /\ Total(w, N) = t[N]
  BY TotalIs
<1> DEFINE S == {n \in 0 .. N : s[n] <= t[n]}
<1>3. 0 \in S
  BY <1>1, <1>2 DEF SumOf
<1>4. ASSUME NEW n \in 0 .. N - 1, n \in S PROVE n + 1 \in S
  <2>1. n + 1 \in 1 .. N /\ n + 1 \in 0 .. N /\ (n + 1) - 1 = n /\ n \in 0 .. N
    OBVIOUS
  <2>2. s[n + 1] = s[n] + v[n + 1] /\ t[n + 1] = t[n] + w[n + 1] /\ s[n] \in Nat /\ t[n] \in Nat
    BY <1>1, <1>2, <2>1 DEF SumOf
  <2>3. v[n + 1] \in Nat /\ w[n + 1] \in Nat /\ v[n + 1] <= w[n + 1] /\ s[n] <= t[n]
    BY <1>4, <2>1
  <2>4. s[n + 1] <= t[n + 1]
    BY <2>2, <2>3
  <2> QED
    BY <2>1, <2>4
<1> HIDE DEF S
<1>5. \A n \in 0 .. N : n \in S
  BY <1>3, <1>4, UpTo
<1>6. N \in S
  BY <1>5
<1> QED
  BY <1>1, <1>2, <1>6 DEF S

\* One larger value makes the sum that much larger.
LEMMA TotalsDiffer ==
    ASSUME NEW N \in Nat, NEW v \in [1 .. N -> Nat], NEW w \in [1 .. N -> Nat],
           NEW j \in 1 .. N, NEW q \in Nat, w[j] = v[j] + q,
           \A i \in 1 .. N : i # j => w[i] = v[i]
    PROVE  Total(w, N) = Total(v, N) + q
<1>1. PICK s : SumOf(v, N, s) /\ Total(v, N) = s[N]
  BY TotalIs
<1>2. PICK t : SumOf(w, N, t) /\ Total(w, N) = t[N]
  BY TotalIs
<1> DEFINE S == {n \in 0 .. N : t[n] = IF j <= n THEN s[n] + q ELSE s[n]}
<1>3. 0 \in S
  BY <1>1, <1>2 DEF SumOf
<1>4. ASSUME NEW n \in 0 .. N - 1, n \in S PROVE n + 1 \in S
  <2>1. n + 1 \in 1 .. N /\ n + 1 \in 0 .. N /\ (n + 1) - 1 = n /\ n \in 0 .. N
    OBVIOUS
  <2>2. s[n + 1] = s[n] + v[n + 1] /\ t[n + 1] = t[n] + w[n + 1] /\ s[n] \in Nat /\ t[n] \in Nat
    BY <1>1, <1>2, <2>1 DEF SumOf
  <2>3. v[n + 1] \in Nat /\ w[n + 1] \in Nat /\ t[n] = IF j <= n THEN s[n] + q ELSE s[n]
    BY <1>4, <2>1
  <2>4. t[n + 1] = IF j <= n + 1 THEN s[n + 1] + q ELSE s[n + 1]
    <3>1. CASE j = n + 1
      <4>1. w[n + 1] = v[n + 1] + q /\ ~(j <= n) /\ j <= n + 1
        BY <3>1
      <4> QED
        BY <2>2, <2>3, <4>1
    <3>2. CASE j # n + 1
      <4>1. w[n + 1] = v[n + 1] /\ (j <= n <=> j <= n + 1)
        BY <2>1, <3>2
      <4> QED
        BY <2>2, <2>3, <4>1
    <3> QED
      BY <3>1, <3>2
  <2> QED
    BY <2>1, <2>4
<1> HIDE DEF S
<1>5. \A n \in 0 .. N : n \in S
  BY <1>3, <1>4, UpTo
<1>6. N \in S
  BY <1>5
<1> QED
  BY <1>1, <1>2, <1>6 DEF S

----------------------------------------------------------------------------
(* What a session has executed. *)

\* The shares of an order that these messages execute.
Fills(s, k, A) ==
    [i \in 1 .. LastSeq |-> IF i \in A /\ s[i].type = "E" /\ s[i].key = k THEN s[i].qty ELSE 0]
Executed(s, k, A) == Total(Fills(s, k, A), LastSeq)

\* The fields of a message.
LEMMA MessageFields ==
    ASSUME NEW m \in Messages
    PROVE  /\ m.key \in Keys
           /\ m.type \in {"A", "E", "D"}
           /\ m.type = "A" => m.price \in Prices /\ m.qty \in 1 .. MaxQty
           /\ m.type = "E" => m.qty \in 1 .. MaxQty
<1>1. CASE \E key \in Keys, price \in Prices, qty \in 1 .. MaxQty : m = AddOrderMessage(key, price, qty)
  BY <1>1 DEF AddOrderMessage
<1>2. CASE \E key \in Keys, qty \in 1 .. MaxQty : m = OrderExecutedMessage(key, qty)
  BY <1>2 DEF OrderExecutedMessage
<1>3. CASE \E key \in Keys : m = OrderDeleteMessage(key)
  BY <1>3 DEF OrderDeleteMessage
<1>4. \/ \E key \in Keys, price \in Prices, qty \in 1 .. MaxQty : m = AddOrderMessage(key, price, qty)
      \/ \E key \in Keys, qty \in 1 .. MaxQty : m = OrderExecutedMessage(key, qty)
      \/ \E key \in Keys : m = OrderDeleteMessage(key)
  BY DEF Messages
<1> QED
  BY <1>1, <1>2, <1>3, <1>4

\* They are numbers.
LEMMA FillsType ==
    ASSUME NEW s \in [1 .. LastSeq -> Messages], NEW k, NEW A
    PROVE  Fills(s, k, A) \in [1 .. LastSeq -> Nat]
<1>1. ASSUME NEW i \in 1 .. LastSeq
      PROVE  (IF i \in A /\ s[i].type = "E" /\ s[i].key = k THEN s[i].qty ELSE 0) \in Nat
  <2>1. s[i] \in Messages
    OBVIOUS
  <2>2. s[i].type = "E" => s[i].qty \in 1 .. MaxQty
    BY <2>1, MessageFields
  <2> QED
    BY <2>2, FeedAssumption
<1> QED
  BY <1>1 DEF Fills

\* A message more executes what it says, and nothing if it is no execution of the order.
ExecutesMore(s, k, A, j) ==
    /\ Executed(s, k, A) \in Nat
    /\ s[j].type = "E" /\ s[j].key = k => Executed(s, k, A \cup {j}) = Executed(s, k, A) + s[j].qty
    /\ ~(s[j].type = "E" /\ s[j].key = k) => Executed(s, k, A \cup {j}) = Executed(s, k, A)

\* So it does.
LEMMA ExecutedMore ==
    ASSUME NEW s \in [1 .. LastSeq -> Messages], NEW k, NEW A, NEW j \in 1 .. LastSeq, j \notin A
    PROVE  ExecutesMore(s, k, A, j)
<1> DEFINE B == A \cup {j}
           v == Fills(s, k, A)
           w == Fills(s, k, B)
<1>1. v \in [1 .. LastSeq -> Nat] /\ w \in [1 .. LastSeq -> Nat] /\ LastSeq \in Nat
  BY FillsType, ClientAssumption
<1>2. \A i \in 1 .. LastSeq : i # j => w[i] = v[i]
  BY DEF Fills
<1>3. v[j] = 0 /\ w[j] = IF s[j].type = "E" /\ s[j].key = k THEN s[j].qty ELSE 0
  BY DEF Fills
<1>4. w[j] \in Nat /\ w[j] = v[j] + w[j]
  <2>1. v[j] = 0
    BY <1>3
  <2> HIDE DEF v, w
  <2>2. w[j] \in Nat
    BY <1>1
  <2> QED
    BY ONLY <2>1, <2>2
<1>5. Total(w, LastSeq) = Total(v, LastSeq) + w[j]
  <2> HIDE DEF v, w
  <2> QED
    BY <1>1, <1>2, <1>4, TotalsDiffer
<1>6. Total(v, LastSeq) \in Nat
  <2> HIDE DEF v
  <2> QED
    BY <1>1, TotalIs
<1>7. Executed(s, k, A) = Total(v, LastSeq) /\ Executed(s, k, A \cup {j}) = Total(w, LastSeq)
  BY DEF Executed
<1> DEFINE x == Executed(s, k, A)
           y == Executed(s, k, A \cup {j})
<1>8. x \in Nat /\ y = x + w[j]
  BY <1>5, <1>6, <1>7
<1>9. w[j] = IF s[j].type = "E" /\ s[j].key = k THEN s[j].qty ELSE 0
  BY <1>3
<1> HIDE DEF v, w, x, y
<1>10. /\ x \in Nat
       /\ s[j].type = "E" /\ s[j].key = k => y = x + s[j].qty
       /\ ~(s[j].type = "E" /\ s[j].key = k) => y = x
  BY ONLY <1>8, <1>9
<1> QED
  BY <1>10 DEF x, y, ExecutesMore

\* More messages execute no less.
LEMMA ExecutedWithin ==
    ASSUME NEW s \in [1 .. LastSeq -> Messages], NEW k, NEW A, NEW B, A \subseteq B
    PROVE  Executed(s, k, A) <= Executed(s, k, B) /\ Executed(s, k, A) \in Nat /\ Executed(s, k, B) \in Nat
<1> DEFINE v == Fills(s, k, A)
           w == Fills(s, k, B)
<1>1. v \in [1 .. LastSeq -> Nat] /\ w \in [1 .. LastSeq -> Nat] /\ LastSeq \in Nat
  BY FillsType, ClientAssumption
<1>2. \A i \in 1 .. LastSeq : v[i] <= w[i]
  <2>1. \A i \in 1 .. LastSeq : v[i] = w[i] \/ v[i] = 0
    BY DEF Fills
  <2> HIDE DEF v, w
  <2> QED
    BY <1>1, <2>1
<1> HIDE DEF v, w
<1>3. Total(v, LastSeq) <= Total(w, LastSeq)
  BY <1>1, <1>2, TotalsCompare
<1>4. Total(v, LastSeq) \in Nat /\ Total(w, LastSeq) \in Nat
  BY <1>1, TotalIs
<1> QED
  BY <1>3, <1>4 DEF Executed, v, w

----------------------------------------------------------------------------
(* The exchange's table of open orders. *)

\* A message about an order.
Adds(m, k) == m.type = "A" /\ m.key = k
Deletes(m, k) == m.type = "D" /\ m.key = k

\* OpenOrders, a recursive function, is what each message makes of it.
LEMMA OpenOrdersAfter ==
    ASSUME NEW s
    PROVE  /\ OpenOrders(s)[0] = << >>
           /\ \A i \in 1 .. LastSeq : OpenOrders(s)[i] = After(OpenOrders(s)[i - 1], s[i])
<1> DEFINE N == LastSeq
           Step(f) == [i \in 0 .. N |-> IF i = 0 THEN << >> ELSE After(f[i - 1], s[i])]
           R == CHOOSE f : f = Step(f)
           StepTo(n, f) == f = [i \in 0 .. n |-> IF i = 0 THEN << >> ELSE After(f[i - 1], s[i])]
           S == {n \in 0 .. N : \E f : StepTo(n, f)}
<1>1. N \in Nat
  BY ClientAssumption
<1>2. OpenOrders(s) = R
  BY DEF OpenOrders
<1> HIDE DEF N
<1>3. 0 \in S
  <2> DEFINE f == [i \in 0 .. 0 |-> << >>]
  <2>1. f = [i \in 0 .. 0 |-> IF i = 0 THEN << >> ELSE After(f[i - 1], s[i])]
    OBVIOUS
  <2> HIDE DEF f
  <2>2. StepTo(0, f)
    BY <2>1
  <2> QED
    BY <1>1, <2>2
<1>4. ASSUME NEW n \in 0 .. N - 1, n \in S PROVE n + 1 \in S
  <2>1. PICK f : StepTo(n, f)
    BY <1>4
  <2>2. f[0] = << >> /\ \A i \in 1 .. n : f[i] = After(f[i - 1], s[i])
    BY <2>1
  <2> DEFINE last == After(f[n], s[n + 1])
             h == [i \in 0 .. n + 1 |-> IF i <= n THEN f[i] ELSE last]
             rhs(i) == IF i = 0 THEN << >> ELSE After(h[i - 1], s[i])
  <2> HIDE DEF last, StepTo
  <2>3. DOMAIN h = 0 .. n + 1 /\ h[n + 1] = last /\ \A i \in 0 .. n : h[i] = f[i]
    OBVIOUS
  <2>4. h = [i \in 0 .. n + 1 |-> h[i]]
    BY <2>3
  <2> HIDE DEF h
  <2>5. ASSUME NEW i \in 0 .. n + 1 PROVE h[i] = rhs(i)
    <3>1. CASE i = 0
      BY <2>2, <2>3, <3>1
    <3>2. CASE i \in 1 .. n
      <4>1. i \in 0 .. n /\ i - 1 \in 0 .. n /\ i # 0
        BY <3>2
      <4> QED
        BY <2>2, <2>3, <3>2, <4>1
    <3>3. CASE i = n + 1
      <4>1. i - 1 = n /\ n \in 0 .. n /\ i # 0
        BY <3>3
      <4> QED
        BY <2>3, <3>3, <4>1 DEF last
    <3> QED
      BY <3>1, <3>2, <3>3
  <2> HIDE DEF rhs
  <2>6. h = [i \in 0 .. n + 1 |-> rhs(i)]
    BY <2>4, <2>5
  <2>7. StepTo(n + 1, h) /\ n + 1 \in 0 .. N
    BY <1>1, <2>6 DEF StepTo, rhs
  <2> QED
    BY <2>7
<1> HIDE DEF S
<1>5. \A n \in 0 .. N : n \in S
  BY <1>1, <1>3, <1>4, UpTo
<1>6. N \in S
  BY <1>1, <1>5
<1>7. R = Step(R)
  <2>1. \E f : f = Step(f)
    BY <1>6 DEF S
  <2> QED
    BY <2>1
<1> HIDE DEF R
<1>8. R[0] = << >> /\ \A i \in 1 .. N : R[i] = After(R[i - 1], s[i])
  <2>1. 0 \in 0 .. N
    BY <1>1
  <2>2. \A i \in 1 .. N : i \in 0 .. N /\ i # 0
    BY <1>1
  <2> QED
    BY <1>7, <2>1, <2>2
<1> QED
  BY <1>2, <1>8 DEF N

\* What is said of a session: an order that is open has been entered and not deleted,
\* and holds what has not been executed; no order is executed beyond its quantity.
OpenOrdersSay(s, n) ==
    LET open == OpenOrders(s)[n]
    IN  /\ \A k \in DOMAIN open : /\ \E p \in 1 .. n : Adds(s[p], k)
                                  /\ \A i \in 1 .. n : ~Deletes(s[i], k)
        /\ \A p \in 1 .. n, k \in Keys : Adds(s[p], k) =>
               /\ Executed(s, k, 1 .. n) <= s[p].qty
               /\ k \in DOMAIN open => /\ open[k].price = s[p].price
                                       /\ open[k].left_qty > 0
                                       /\ open[k].left_qty + Executed(s, k, 1 .. n) = s[p].qty
                                       /\ open[k].left_qty \in Nat
        /\ \A k \in Keys : (\A i \in 1 .. n : s[i].key # k) => Executed(s, k, 1 .. n) = 0

\* The first messages, and one more.
LEMMA OneMore ==
    ASSUME NEW n \in Nat
    PROVE  1 .. n + 1 = (1 .. n) \cup {n + 1} /\ n + 1 \notin 1 .. n
OBVIOUS

\* Without messages there is nothing to say.
LEMMA OpenOrdersSayNothing ==
    ASSUME NEW s \in [1 .. LastSeq -> Messages]
    PROVE  OpenOrdersSay(s, 0)
<1>1. OpenOrders(s)[0] = << >> /\ DOMAIN << >> = {} /\ 1 .. 0 = {}
  BY OpenOrdersAfter
<1>2. ASSUME NEW k PROVE Executed(s, k, {}) = 0
  <2> DEFINE v == Fills(s, k, {})
  <2>1. v \in [1 .. LastSeq -> Nat] /\ LastSeq \in Nat
    BY FillsType, ClientAssumption
  <2>2. \A i \in 1 .. LastSeq : v[i] = 0
    BY DEF Fills
  <2>3. Executed(s, k, {}) = Total(v, LastSeq)
    BY DEF Executed
  <2> HIDE DEF v
  <2>4. PICK t : SumOf(v, LastSeq, t) /\ Total(v, LastSeq) = t[LastSeq]
    BY <2>1, TotalIs
  <2> DEFINE S == {n \in 0 .. LastSeq : t[n] = 0}
  <2>5. 0 \in S
    BY <2>1, <2>4 DEF SumOf
  <2>6. ASSUME NEW n \in 0 .. LastSeq - 1, n \in S PROVE n + 1 \in S
    <3>1. n + 1 \in 1 .. LastSeq /\ (n + 1) - 1 = n /\ n + 1 \in 0 .. LastSeq
      BY <2>1
    <3>2. t[n + 1] = t[n] + v[n + 1] /\ t[n] = 0 /\ v[n + 1] = 0
      BY <2>2, <2>4, <2>6, <3>1 DEF SumOf
    <3> QED
      BY <3>1, <3>2
  <2> HIDE DEF S
  <2>7. \A n \in 0 .. LastSeq : n \in S
    BY <2>1, <2>5, <2>6, UpTo
  <2>8. LastSeq \in S
    BY <2>1, <2>7
  <2> QED
    BY <2>3, <2>4, <2>8 DEF S
<1>3. \A k : Executed(s, k, 1 .. 0) = 0
  BY <1>1, <1>2
<1> QED
  BY <1>1, <1>3 DEF OpenOrdersSay

\* Every message the exchange may publish keeps it so.
LEMMA OpenOrdersSayMore ==
    ASSUME NEW s \in Sessions, NEW n \in 0 .. LastSeq - 1, OpenOrdersSay(s, n)
    PROVE  OpenOrdersSay(s, n + 1)
<1> DEFINE m    == s[n + 1]
           open == OpenOrders(s)[n]
           next == OpenOrders(s)[n + 1]
           ex(k) == Executed(s, k, 1 .. n)
           ex2(k) == Executed(s, k, 1 .. n + 1)
<1>1. s \in [1 .. LastSeq -> Messages] /\ Legal(s, n + 1) /\ n + 1 \in 1 .. LastSeq /\ n \in Nat
  BY ClientAssumption DEF Sessions
<1>2. 1 .. n + 1 = (1 .. n) \cup {n + 1} /\ n + 1 \notin 1 .. n /\ (n + 1) - 1 = n
  BY <1>1, OneMore
<1>3. next = After(open, m)
  BY <1>1, <1>2, OpenOrdersAfter
<1>4. /\ m.key \in Keys
      /\ m.type \in {"A", "E", "D"}
      /\ m.type = "A" => m.price \in Prices /\ m.qty \in 1 .. MaxQty
      /\ m.type = "E" => m.qty \in 1 .. MaxQty
  <2>1. m \in Messages
    BY <1>1
  <2> HIDE DEF m
  <2> QED
    BY <2>1, MessageFields
<1>5. \A k \in Keys : /\ ex(k) \in Nat
                      /\ m.type = "E" /\ m.key = k => ex2(k) = ex(k) + m.qty
                      /\ ~(m.type = "E" /\ m.key = k) => ex2(k) = ex(k)
  <2> SUFFICES ASSUME NEW k \in Keys
               PROVE  /\ ex(k) \in Nat
                      /\ m.type = "E" /\ m.key = k => ex2(k) = ex(k) + m.qty
                      /\ ~(m.type = "E" /\ m.key = k) => ex2(k) = ex(k)
    OBVIOUS
  <2> DEFINE A == 1 .. n
             j == n + 1
  <2>1. ex2(k) = Executed(s, k, A \cup {j}) /\ ex(k) = Executed(s, k, A) /\ m = s[j]
    BY <1>2
  <2>2. j \in 1 .. LastSeq /\ j \notin A
    BY <1>1, <1>2
  <2> HIDE DEF A, j, m, ex, ex2
  <2>3. ExecutesMore(s, k, A, j)
    BY <1>1, <2>2, ExecutedMore
  <2> QED
    BY <2>1, <2>3 DEF ExecutesMore
<1>6. /\ m.type = "A" => \A i \in 1 .. n : s[i].key # m.key
      /\ m.type # "A" => m.key \in DOMAIN open
      /\ m.type = "E" => m.qty <= open[m.key].left_qty
  BY <1>1, <1>2 DEF Legal
<1>7. /\ \A k \in DOMAIN open : /\ \E p \in 1 .. n : Adds(s[p], k)
                                /\ \A i \in 1 .. n : ~Deletes(s[i], k)
      /\ \A p \in 1 .. n, k \in Keys : Adds(s[p], k) =>
             /\ ex(k) <= s[p].qty
             /\ k \in DOMAIN open => /\ open[k].price = s[p].price
                                     /\ open[k].left_qty > 0
                                     /\ open[k].left_qty + ex(k) = s[p].qty
                                     /\ open[k].left_qty \in Nat
      /\ \A k \in Keys : (\A i \in 1 .. n : s[i].key # k) => ex(k) = 0
  BY DEF OpenOrdersSay
<1>8. /\ m.type = "A" => next = Put(open, m.key, [price |-> m.price, left_qty |-> m.qty])
      /\ m.type = "E" /\ m.qty < open[m.key].left_qty =>
             next = Put(open, m.key, [price |-> open[m.key].price, left_qty |-> open[m.key].left_qty - m.qty])
      /\ m.type = "E" /\ ~(m.qty < open[m.key].left_qty) => next = Erase(open, m.key)
      /\ m.type = "D" => next = Erase(open, m.key)
  BY <1>3, <1>4 DEF After
<1> HIDE DEF open, next, m, ex, ex2
\* orders the message is not about
<1>9. /\ DOMAIN next \subseteq DOMAIN open \cup {m.key}
      /\ \A k \in DOMAIN next : k # m.key => k \in DOMAIN open /\ next[k] = open[k]
  BY <1>4, <1>6, <1>8 DEF Put, Erase
<1>10. m.key \in DOMAIN next =>
          \/ m.type = "A" /\ next[m.key] = [price |-> m.price, left_qty |-> m.qty]
          \/ /\ m.type = "E" /\ m.qty < open[m.key].left_qty
             /\ next[m.key] = [price |-> open[m.key].price, left_qty |-> open[m.key].left_qty - m.qty]
  BY <1>4, <1>8 DEF Put, Erase
<1>11. ASSUME NEW k \in DOMAIN next
       PROVE  /\ \E p \in 1 .. n + 1 : Adds(s[p], k)
              /\ \A i \in 1 .. n + 1 : ~Deletes(s[i], k)
  <2>1. CASE k # m.key
    <3>1. ~Deletes(m, k) /\ k \in DOMAIN open
      BY <1>9, <2>1 DEF Deletes
    <3> QED
      BY <1>2, <1>7, <3>1 DEF m
  <2>2. CASE k = m.key /\ m.type = "A"
    <3>1. Adds(m, k) /\ ~Deletes(m, k)
      BY <2>2 DEF Adds, Deletes
    <3>2. \A i \in 1 .. n : ~Deletes(s[i], k)
      BY <1>6, <2>2 DEF Deletes
    <3> QED
      BY <1>2, <3>1, <3>2 DEF m
  <2>3. CASE k = m.key /\ m.type = "E"
    <3>1. ~Deletes(m, k) /\ k \in DOMAIN open
      BY <1>6, <2>3 DEF Deletes
    <3> QED
      BY <1>2, <1>7, <3>1 DEF m
  <2> QED
    BY <1>10, <2>1, <2>2, <2>3
<1>12. ASSUME NEW p \in 1 .. n + 1, NEW k \in Keys, Adds(s[p], k)
       PROVE  /\ ex2(k) <= s[p].qty
              /\ k \in DOMAIN next => /\ next[k].price = s[p].price
                                      /\ next[k].left_qty > 0
                                      /\ next[k].left_qty + ex2(k) = s[p].qty
                                      /\ next[k].left_qty \in Nat
  <2>1. CASE p = n + 1
    <3>1. m.type = "A" /\ m.key = k /\ s[p] = m
      BY <1>12, <2>1 DEF Adds, m
    <3>2. ex2(k) = 0
      BY <1>5, <1>6, <1>7, <3>1
    <3>3. k \in DOMAIN next => next[k].price = m.price /\ next[k].left_qty = m.qty
      BY <1>10, <3>1
    <3>4. m.qty \in Nat /\ m.qty > 0
      BY <1>4, <3>1, FeedAssumption
    <3> QED
      BY <3>1, <3>2, <3>3, <3>4
  <2>2. CASE p \in 1 .. n
    <3>1. /\ ex(k) <= s[p].qty /\ ex(k) \in Nat
          /\ k \in DOMAIN open => /\ open[k].price = s[p].price
                                  /\ open[k].left_qty > 0
                                  /\ open[k].left_qty + ex(k) = s[p].qty
                                  /\ open[k].left_qty \in Nat
      BY <1>5, <1>7, <1>12, <2>2
    <3>2. CASE k # m.key
      <4>1. ex2(k) = ex(k)
        BY <1>5, <3>2
      <4>2. k \in DOMAIN next => k \in DOMAIN open /\ next[k] = open[k]
        BY <1>9, <3>2
      <4> QED
        BY <3>1, <4>1, <4>2
    <3>3. CASE k = m.key /\ m.type = "A"
      BY <1>6, <1>12, <2>2, <3>3 DEF Adds
    <3>4. CASE k = m.key /\ m.type = "E"
      <4> DEFINE q == m.qty
                 l == open[k].left_qty
                 e == ex(k)
                 e2 == ex2(k)
                 Q == s[p].qty
      <4>1. e2 = e + q /\ q \in Nat /\ q <= l
        BY <1>4, <1>5, <1>6, <3>4, FeedAssumption
      <4>2. l \in Nat /\ l + e = Q /\ e \in Nat
        BY <1>6, <3>1, <3>4
      <4>3. k \in DOMAIN next => /\ q < l
                                 /\ next[k].price = s[p].price
                                 /\ next[k].left_qty = l - q
        BY <1>6, <1>10, <3>1, <3>4
      <4> HIDE DEF q, l, e, e2, Q
      <4>4. e2 <= Q /\ (q < l => l - q > 0 /\ (l - q) + e2 = Q /\ l - q \in Nat)
        BY ONLY <4>1, <4>2
      <4>5. k \in DOMAIN next => /\ next[k].left_qty > 0 /\ next[k].left_qty + e2 = Q
                                 /\ next[k].left_qty \in Nat
        BY <4>3, <4>4
      <4> QED
        BY <4>3, <4>4, <4>5 DEF e2, Q
    <3>5. CASE k = m.key /\ m.type = "D"
      <4>1. k \notin DOMAIN next
        BY <1>10, <3>5
      <4>2. ex2(k) = ex(k)
        BY <1>5, <3>5
      <4> QED
        BY <3>1, <4>1, <4>2
    <3> QED
      BY <1>4, <3>2, <3>3, <3>4, <3>5
  <2> QED
    BY <1>2, <2>1, <2>2
<1>13. ASSUME NEW k \in Keys, \A i \in 1 .. n + 1 : s[i].key # k PROVE ex2(k) = 0
  <2>1. m.key # k /\ \A i \in 1 .. n : s[i].key # k
    BY <1>2, <1>13 DEF m
  <2> QED
    BY <1>5, <1>7, <2>1
<1>14. OpenOrdersSay(s, n + 1)
  BY <1>11, <1>12, <1>13 DEF OpenOrdersSay, next, ex2
<1> QED
  BY <1>14

\* So it is after every number of messages.
LEMMA OpenOrdersSaid ==
    ASSUME NEW s \in Sessions
    PROVE  \A n \in 0 .. LastSeq : OpenOrdersSay(s, n)
<1> DEFINE S == {n \in 0 .. LastSeq : OpenOrdersSay(s, n)}
<1>1. LastSeq \in Nat /\ s \in [1 .. LastSeq -> Messages]
  BY ClientAssumption DEF Sessions
<1>2. 0 \in S
  BY <1>1, OpenOrdersSayNothing
<1>3. ASSUME NEW n \in 0 .. LastSeq - 1, n \in S PROVE n + 1 \in S
  <2>1. OpenOrdersSay(s, n + 1) /\ n + 1 \in 0 .. LastSeq
    BY <1>1, <1>3, OpenOrdersSayMore
  <2> QED
    BY <2>1
<1> HIDE DEF S
<1>4. \A n \in 0 .. LastSeq : n \in S
  BY <1>1, <1>2, <1>3, UpTo
<1> QED
  BY <1>4 DEF S

\* An order is entered once.
LEMMA AddOnce ==
    ASSUME NEW s \in Sessions, NEW p \in 1 .. LastSeq, NEW q \in 1 .. LastSeq, NEW k,
           Adds(s[p], k), Adds(s[q], k)
    PROVE  p = q
<1>1. LastSeq \in Nat /\ Legal(s, p) /\ Legal(s, q)
  BY ClientAssumption DEF Sessions
<1>2. \A i \in 1 .. p - 1 : s[i].key # k
  BY <1>1 DEF Legal, Adds
<1>3. \A i \in 1 .. q - 1 : s[i].key # k
  BY <1>1 DEF Legal, Adds
<1>4. ~(q \in 1 .. p - 1) /\ ~(p \in 1 .. q - 1)
  BY <1>2, <1>3 DEF Adds
<1> QED
  BY <1>1, <1>4

----------------------------------------------------------------------------
(* The builder, message by message. *)

\* g holds the builder after each of the messages.
Turns(b, messages, g) ==
    /\ g[0] = b
    /\ \A i \in 1 .. Len(messages) : g[i] = parseMessage(g[i - 1], messages[i])

\* parsePayload takes them one after another.
TakesTurns(b, messages) ==
    \E g : Turns(b, messages, g) /\ parsePayload(b, messages) = g[Len(messages)]

\* parsePayload, a recursive function, is what each message makes of the builder.
LEMMA PayloadTurns ==
    ASSUME NEW b, NEW messages, Len(messages) \in Nat
    PROVE  TakesTurns(b, messages)
<1> DEFINE N == Len(messages)
           Step(f) == [i \in 0 .. N |-> IF i = 0 THEN b ELSE parseMessage(f[i - 1], messages[i])]
           R == CHOOSE f : f = Step(f)
           StepTo(n, f) == f = [i \in 0 .. n |-> IF i = 0 THEN b ELSE parseMessage(f[i - 1], messages[i])]
           S == {n \in 0 .. N : \E f : StepTo(n, f)}
<1>1. N \in Nat
  OBVIOUS
<1>2. parsePayload(b, messages) = R[N]
  BY DEF parsePayload
<1> HIDE DEF N
<1>3. 0 \in S
  <2> DEFINE f == [i \in 0 .. 0 |-> b]
  <2>1. f = [i \in 0 .. 0 |-> IF i = 0 THEN b ELSE parseMessage(f[i - 1], messages[i])]
    OBVIOUS
  <2> HIDE DEF f
  <2>2. StepTo(0, f)
    BY <2>1
  <2> QED
    BY <1>1, <2>2
<1>4. ASSUME NEW n \in 0 .. N - 1, n \in S PROVE n + 1 \in S
  <2>1. PICK f : StepTo(n, f)
    BY <1>4
  <2>2. f[0] = b /\ \A i \in 1 .. n : f[i] = parseMessage(f[i - 1], messages[i])
    BY <2>1
  <2> DEFINE last == parseMessage(f[n], messages[n + 1])
             h == [i \in 0 .. n + 1 |-> IF i <= n THEN f[i] ELSE last]
             rhs(i) == IF i = 0 THEN b ELSE parseMessage(h[i - 1], messages[i])
  <2> HIDE DEF last, StepTo
  <2>3. DOMAIN h = 0 .. n + 1 /\ h[n + 1] = last /\ \A i \in 0 .. n : h[i] = f[i]
    OBVIOUS
  <2>4. h = [i \in 0 .. n + 1 |-> h[i]]
    BY <2>3
  <2> HIDE DEF h
  <2>5. ASSUME NEW i \in 0 .. n + 1 PROVE h[i] = rhs(i)
    <3>1. CASE i = 0
      BY <2>2, <2>3, <3>1
    <3>2. CASE i \in 1 .. n
      <4>1. i \in 0 .. n /\ i - 1 \in 0 .. n /\ i # 0
        BY <3>2
      <4> QED
        BY <2>2, <2>3, <3>2, <4>1
    <3>3. CASE i = n + 1
      <4>1. i - 1 = n /\ n \in 0 .. n /\ i # 0
        BY <3>3
      <4> QED
        BY <2>3, <3>3, <4>1 DEF last
    <3> QED
      BY <3>1, <3>2, <3>3
  <2> HIDE DEF rhs
  <2>6. h = [i \in 0 .. n + 1 |-> rhs(i)]
    BY <2>4, <2>5
  <2>7. StepTo(n + 1, h) /\ n + 1 \in 0 .. N
    BY <1>1, <2>6 DEF StepTo, rhs
  <2> QED
    BY <2>7
<1> HIDE DEF S
<1>5. \A n \in 0 .. N : n \in S
  BY <1>1, <1>3, <1>4, UpTo
<1>6. N \in S
  BY <1>1, <1>5
<1>7. R = Step(R)
  <2>1. \E f : f = Step(f)
    BY <1>6 DEF S
  <2> QED
    BY <2>1
<1> HIDE DEF R
<1>8. R[0] = b /\ \A i \in 1 .. N : R[i] = parseMessage(R[i - 1], messages[i])
  <2>1. 0 \in 0 .. N
    BY <1>1
  <2>2. \A i \in 1 .. N : i \in 0 .. N /\ i # 0
    BY <1>1
  <2> QED
    BY <1>7, <2>1, <2>2
<1> QED
  BY <1>2, <1>8 DEF N, Turns, TakesTurns

\* What the builder holds after the messages A of a session, in whatever order they
\* came: the orders it has were entered, at the price they were entered with; what an
\* order has lost was executed; an order that is gone was deleted or executed.
Holds(b, s, A) ==
    /\ GoodBuilder(b)
    /\ \A k \in DOMAIN b.orderMap : \E p \in A : Adds(s[p], k)
    /\ \A p \in A, k \in Keys : Adds(s[p], k) =>
           /\ k \in DOMAIN b.orderMap => /\ b.orderMap[k].price = s[p].price
                                         /\ b.orderMap[k].left_qty + Executed(s, k, A) >= s[p].qty
           /\ k \notin DOMAIN b.orderMap => \/ \E i \in A : Deletes(s[i], k)
                                            \/ Executed(s, k, A) >= s[p].qty

\* What one more message does to the table: nothing to the other orders.
HoldsStep(b, c, s, A, j) ==
    LET m == s[j]
        k == m.key
    IN  /\ GoodBuilder(c)
        /\ DOMAIN c.orderMap \ {k} = DOMAIN b.orderMap \ {k}
        /\ \A l \in DOMAIN c.orderMap \ {k} : c.orderMap[l] = b.orderMap[l]
        /\ k \in DOMAIN c.orderMap => \E p \in A \cup {j} : Adds(s[p], k)
        /\ \A p \in A \cup {j} : Adds(s[p], k) =>
               /\ k \in DOMAIN c.orderMap =>
                      /\ c.orderMap[k].price = s[p].price
                      /\ c.orderMap[k].left_qty + Executed(s, k, A \cup {j}) >= s[p].qty
               /\ k \notin DOMAIN c.orderMap => \/ \E i \in A \cup {j} : Deletes(s[i], k)
                                                \/ Executed(s, k, A \cup {j}) >= s[p].qty

\* An order that is entered is not in the table, since order ids are not used twice.
LEMMA HoldsAdd ==
    ASSUME NEW s \in Sessions, NEW A \in SUBSET (1 .. LastSeq), NEW j \in (1 .. LastSeq) \ A,
           NEW b, Holds(b, s, A), s[j].type = "A"
    PROVE  HoldsStep(b, parseMessage(b, s[j]), s, A, j)
<1> DEFINE m == s[j]
           k == m.key
           price == m.price
           qty == m.qty
           c == parseMessage(b, s[j])
           x == Executed(s, k, A \cup {j})
<1>1. s \in [1 .. LastSeq -> Messages]
  BY DEF Sessions
<1>2. k \in Keys /\ price \in Prices /\ qty \in 1 .. MaxQty
  <2>1. m \in Messages
    BY <1>1
  <2> HIDE DEF m
  <2>2. m.type = "A"
    BY DEF m
  <2> QED
    BY <2>1, <2>2, MessageFields
<1>3. GoodBuilder(b) /\ b.status = "running"
  BY DEF Holds, GoodBuilder
<1>4. Adds(s[j], k)
  BY DEF Adds
<1>5. \A p \in A : ~Adds(s[p], k)
  BY <1>4, AddOnce
<1>6. k \notin DOMAIN b.orderMap
  BY <1>5 DEF Holds
<1>7. c = addOrder(b, m)
  BY <1>3 DEF parseMessage
<1>8. c.orderMap = Put(b.orderMap, k, [price |-> price, left_qty |-> qty])
  BY <1>7 DEF addOrder
<1>9. GoodBuilder(c)
  <2> HIDE DEF m
  <2>1. Moves(b, addOrder(b, m), k, price, QtyAt(LevelsOf(b, k), price) + qty)
    BY <1>2, <1>3, <1>6, AddKeepsTotals
  <2> QED
    BY <1>7, <2>1 DEF Moves
<1>10. x \in Nat
  <2>1. ExecutesMore(s, k, A, j) /\ j \notin A
    BY <1>1, ExecutedMore
  <2> QED
    BY <2>1 DEF ExecutesMore
<1>11. c.orderMap[k].price = price /\ c.orderMap[k].left_qty + x >= qty /\ k \in DOMAIN c.orderMap
  <2>1. c.orderMap[k].price = price /\ c.orderMap[k].left_qty = qty /\ k \in DOMAIN c.orderMap
    BY <1>8 DEF Put
  <2>2. qty \in Nat
    BY <1>2, FeedAssumption
  <2> QED
    BY <1>10, <2>1, <2>2
<1>12. \A p \in A \cup {j} : Adds(s[p], k) => s[p].price = price /\ s[p].qty = qty
  BY <1>5
<1>13. /\ DOMAIN c.orderMap \ {k} = DOMAIN b.orderMap \ {k}
       /\ \A l \in DOMAIN c.orderMap \ {k} : c.orderMap[l] = b.orderMap[l]
  BY <1>8 DEF Put
<1>14. \E p \in A \cup {j} : Adds(s[p], k)
  BY <1>4
<1> HIDE DEF c, x, price, qty
<1> QED
  BY <1>9, <1>11, <1>12, <1>13, <1>14 DEF HoldsStep, c, x

\* An execution finds its order with enough left, or not at all.
LEMMA HoldsExecute ==
    ASSUME NEW s \in Sessions, NEW A \in SUBSET (1 .. LastSeq), NEW j \in (1 .. LastSeq) \ A,
           NEW b, Holds(b, s, A), s[j].type = "E"
    PROVE  HoldsStep(b, parseMessage(b, s[j]), s, A, j)
<1> DEFINE m == s[j]
           k == m.key
           qty == m.qty
           c == parseMessage(b, s[j])
           e == Executed(s, k, A)
           x == Executed(s, k, A \cup {j})
<1>1. s \in [1 .. LastSeq -> Messages] /\ LastSeq \in Nat
  BY ClientAssumption DEF Sessions
<1>2. k \in Keys /\ qty \in 1 .. MaxQty /\ qty \in Nat
  <2>1. m \in Messages
    BY <1>1
  <2> HIDE DEF m
  <2>2. m.type = "E"
    BY DEF m
  <2> QED
    BY <2>1, <2>2, MessageFields, FeedAssumption
<1>3. GoodBuilder(b) /\ b.status = "running"
  BY DEF Holds, GoodBuilder
<1>4. e \in Nat /\ x = e + qty
  <2>1. ExecutesMore(s, k, A, j) /\ j \notin A
    BY <1>1, ExecutedMore
  <2> QED
    BY <2>1 DEF ExecutesMore
<1>5. c = executeOrder(b, m)
  BY <1>3 DEF parseMessage
<1>6. ~Adds(s[j], k)
  BY DEF Adds
<1>7. ASSUME NEW p \in A, Adds(s[p], k)
      PROVE  /\ s[p].qty \in Nat /\ x <= s[p].qty
             /\ k \in DOMAIN b.orderMap => /\ b.orderMap[k].price = s[p].price
                                           /\ b.orderMap[k].left_qty + e >= s[p].qty
             /\ k \notin DOMAIN b.orderMap => \/ \E i \in A : Deletes(s[i], k)
                                              \/ e >= s[p].qty
  <2>1. s[p].qty \in Nat
    <3>1. s[p] \in Messages /\ s[p].type = "A"
      BY <1>1, <1>7 DEF Adds
    <3>2. s[p].qty \in 1 .. MaxQty
      BY <3>1, MessageFields
    <3> QED
      BY <3>2, FeedAssumption
  <2>2. x <= Executed(s, k, 1 .. LastSeq) /\ x \in Nat /\ Executed(s, k, 1 .. LastSeq) \in Nat
    <3>1. A \cup {j} \subseteq 1 .. LastSeq
      OBVIOUS
    <3> QED
      BY <1>1, <3>1, ExecutedWithin
  <2>3. Executed(s, k, 1 .. LastSeq) <= s[p].qty
    <3>1. OpenOrdersSay(s, LastSeq)
      BY <1>1, OpenOrdersSaid
    <3> QED
      BY <1>2, <1>7, <3>1 DEF OpenOrdersSay
  <2>4. x <= s[p].qty
    BY <2>1, <2>2, <2>3
  <2> QED
    BY <1>2, <1>7, <2>1, <2>4 DEF Holds
<1>8. CASE k \notin DOMAIN b.orderMap
  <2>1. c = b
    BY <1>5, <1>8 DEF executeOrder
  <2>2. ASSUME NEW p \in A \cup {j}, Adds(s[p], k)
        PROVE  (\E i \in A \cup {j} : Deletes(s[i], k)) \/ x >= s[p].qty
    <3>1. p \in A
      BY <1>6, <2>2
    <3>2. s[p].qty \in Nat /\ ((\E i \in A : Deletes(s[i], k)) \/ e >= s[p].qty)
      BY <1>7, <1>8, <2>2, <3>1
    <3>3. CASE e >= s[p].qty
      BY <1>2, <1>4, <3>2, <3>3
    <3> QED
      BY <3>2, <3>3
  <2> HIDE DEF c, x
  <2> QED
    BY <1>3, <1>8, <2>1, <2>2 DEF HoldsStep, c, x
<1>9. CASE k \in DOMAIN b.orderMap
  <2> DEFINE left == b.orderMap[k].left_qty
  <2>1. left \in Nat /\ b.orderMap[k] \in [price : Prices, left_qty : 1 .. MaxQty]
    BY <1>3, <1>9, FeedAssumption DEF GoodBuilder, OrderMap
  <2>2. PICK p0 \in A : Adds(s[p0], k)
    BY <1>9 DEF Holds
  <2>3. s[p0].qty \in Nat /\ x <= s[p0].qty /\ left + e >= s[p0].qty
    BY <1>7, <1>9, <2>2
  <2>4. qty <= left
    <3> HIDE DEF left, x, e, qty
    <3> QED
      BY ONLY <1>2, <1>4, <2>1, <2>3
  <2>5. c.orderMap = Remaining(b.orderMap, k, qty) /\ GoodBuilder(c)
    <3> HIDE DEF m
    <3>1. /\ executeOrder(b, m).orderMap = Remaining(b.orderMap, k, qty)
          /\ Moves(b, executeOrder(b, m), k, b.orderMap[k].price,
                   QtyAt(LevelsOf(b, k), b.orderMap[k].price) - qty)
      BY <1>2, <1>3, <1>9, <2>4, ExecuteKeepsTotals
    <3> QED
      BY <1>5, <3>1 DEF Moves
  <2>6. /\ DOMAIN c.orderMap \ {k} = DOMAIN b.orderMap \ {k}
        /\ \A l \in DOMAIN c.orderMap \ {k} : c.orderMap[l] = b.orderMap[l]
    <3> HIDE DEF c, k, qty
    <3> QED
      BY <1>9, <2>5 DEF Remaining, Put, Erase
  <2>7. /\ k \in DOMAIN c.orderMap => /\ c.orderMap[k].price = b.orderMap[k].price
                                      /\ c.orderMap[k].left_qty = left - qty
        /\ k \notin DOMAIN c.orderMap => qty = left
    <3> HIDE DEF c, k, qty
    <3> QED
      BY <1>9, <2>5 DEF Remaining, Put, Erase
  <2>8. ASSUME NEW p \in A \cup {j}, Adds(s[p], k)
        PROVE  /\ k \in DOMAIN c.orderMap => /\ c.orderMap[k].price = s[p].price
                                             /\ c.orderMap[k].left_qty + x >= s[p].qty
               /\ k \notin DOMAIN c.orderMap => x >= s[p].qty
    <3>1. p \in A
      BY <1>6, <2>8
    <3>2. s[p].qty \in Nat /\ b.orderMap[k].price = s[p].price /\ left + e >= s[p].qty
      BY <1>7, <1>9, <2>8, <3>1
    <3>3. (left - qty) + x = left + e /\ (qty = left => x = left + e)
      <4> HIDE DEF left, x, e, qty
      <4> QED
        BY ONLY <1>2, <1>4, <2>1
    <3> HIDE DEF left, x, e, qty, k, c
    <3> QED
      BY <2>7, <3>2, <3>3
  <2>9. \E p \in A \cup {j} : Adds(s[p], k)
    BY <2>2
  <2> HIDE DEF c, x
  <2> QED
    BY <2>5, <2>6, <2>8, <2>9 DEF HoldsStep, c, x
<1> QED
  BY <1>8, <1>9

\* A deleted order is gone.
LEMMA HoldsDelete ==
    ASSUME NEW s \in Sessions, NEW A \in SUBSET (1 .. LastSeq), NEW j \in (1 .. LastSeq) \ A,
           NEW b, Holds(b, s, A), s[j].type = "D"
    PROVE  HoldsStep(b, parseMessage(b, s[j]), s, A, j)
<1> DEFINE m == s[j]
           k == m.key
           c == parseMessage(b, s[j])
<1>1. GoodBuilder(b) /\ b.status = "running"
  BY DEF Holds, GoodBuilder
<1>2. c = deleteOrder(b, m)
  BY <1>1 DEF parseMessage
<1>3. Deletes(s[j], k)
  BY DEF Deletes
<1>4. /\ GoodBuilder(c)
      /\ DOMAIN c.orderMap = DOMAIN b.orderMap \ {k}
      /\ \A l \in DOMAIN c.orderMap : c.orderMap[l] = b.orderMap[l]
  <2>1. CASE k \in DOMAIN b.orderMap
    <3>1. GoodBuilder(c) /\ c.orderMap = Erase(b.orderMap, k)
      <4> HIDE DEF m
      <4>1. /\ deleteOrder(b, m).orderMap = Erase(b.orderMap, k)
            /\ Moves(b, deleteOrder(b, m), k, b.orderMap[k].price,
                     QtyAt(LevelsOf(b, k), b.orderMap[k].price) - b.orderMap[k].left_qty)
        BY <1>1, <2>1, DeleteKeepsTotals
      <4> QED
        BY <1>2, <4>1 DEF Moves
    <3> HIDE DEF c, k
    <3> QED
      BY <3>1 DEF Erase
  <2>2. CASE k \notin DOMAIN b.orderMap
    <3>1. c = b
      BY <1>2, <2>2 DEF deleteOrder
    <3> QED
      BY <1>1, <2>2, <3>1
  <2> QED
    BY <2>1, <2>2
<1> HIDE DEF c
<1> QED
  BY <1>3, <1>4 DEF HoldsStep, c

\* Whatever the message, the builder still holds what it should.
LEMMA HoldsMore ==
    ASSUME NEW s \in Sessions, NEW A \in SUBSET (1 .. LastSeq), NEW j \in (1 .. LastSeq) \ A,
           NEW b, Holds(b, s, A)
    PROVE  Holds(parseMessage(b, s[j]), s, A \cup {j})
<1> DEFINE c == parseMessage(b, s[j])
           k == s[j].key
           B == A \cup {j}
<1>1. s \in [1 .. LastSeq -> Messages] /\ s[j] \in Messages
  BY DEF Sessions
<1>2. s[j].type \in {"A", "E", "D"}
  BY <1>1, MessageFields
<1>3. HoldsStep(b, c, s, A, j)
  BY <1>2, HoldsAdd, HoldsExecute, HoldsDelete
<1>4. /\ \A l \in DOMAIN b.orderMap : \E p \in A : Adds(s[p], l)
      /\ \A p \in A, l \in Keys : Adds(s[p], l) =>
             /\ l \in DOMAIN b.orderMap => /\ b.orderMap[l].price = s[p].price
                                           /\ b.orderMap[l].left_qty + Executed(s, l, A) >= s[p].qty
             /\ l \notin DOMAIN b.orderMap => \/ \E i \in A : Deletes(s[i], l)
                                              \/ Executed(s, l, A) >= s[p].qty
  BY DEF Holds
<1> HIDE DEF c
<1>5. /\ GoodBuilder(c)
      /\ DOMAIN c.orderMap \ {k} = DOMAIN b.orderMap \ {k}
      /\ \A l \in DOMAIN c.orderMap \ {k} : c.orderMap[l] = b.orderMap[l]
      /\ k \in DOMAIN c.orderMap => \E p \in B : Adds(s[p], k)
      /\ \A p \in B : Adds(s[p], k) =>
             /\ k \in DOMAIN c.orderMap => /\ c.orderMap[k].price = s[p].price
                                           /\ c.orderMap[k].left_qty + Executed(s, k, B) >= s[p].qty
             /\ k \notin DOMAIN c.orderMap => \/ \E i \in B : Deletes(s[i], k)
                                              \/ Executed(s, k, B) >= s[p].qty
  BY <1>3 DEF HoldsStep
<1>6. ASSUME NEW l \in DOMAIN c.orderMap PROVE \E p \in B : Adds(s[p], l)
  <2>1. CASE l = k
    BY <1>5, <2>1
  <2>2. CASE l # k
    <3>1. l \in DOMAIN b.orderMap
      BY <1>5, <2>2
    <3> QED
      BY <1>4, <3>1
  <2> QED
    BY <2>1, <2>2
<1>7. ASSUME NEW p \in B, NEW l \in Keys, Adds(s[p], l)
      PROVE  /\ l \in DOMAIN c.orderMap => /\ c.orderMap[l].price = s[p].price
                                           /\ c.orderMap[l].left_qty + Executed(s, l, B) >= s[p].qty
             /\ l \notin DOMAIN c.orderMap => \/ \E i \in B : Deletes(s[i], l)
                                              \/ Executed(s, l, B) >= s[p].qty
  <2>1. CASE l = k
    BY <1>5, <1>7, <2>1
  <2>2. CASE l # k
    <3>1. p \in A
      BY <1>7, <2>2 DEF Adds
    <3>2. Executed(s, l, B) = Executed(s, l, A)
      <4>1. ExecutesMore(s, l, A, j)
        BY <1>1, ExecutedMore
      <4> QED
        BY <2>2, <4>1 DEF ExecutesMore
    <3>3. (l \in DOMAIN c.orderMap <=> l \in DOMAIN b.orderMap)
          /\ (l \in DOMAIN c.orderMap => c.orderMap[l] = b.orderMap[l])
      BY <1>5, <2>2
    <3>4. /\ l \in DOMAIN b.orderMap => /\ b.orderMap[l].price = s[p].price
                                        /\ b.orderMap[l].left_qty + Executed(s, l, A) >= s[p].qty
          /\ l \notin DOMAIN b.orderMap => \/ \E i \in A : Deletes(s[i], l)
                                           \/ Executed(s, l, A) >= s[p].qty
      BY <1>4, <1>7, <3>1
    <3> HIDE DEF k
    <3> QED
      BY <3>2, <3>3, <3>4
  <2> QED
    BY <2>1, <2>2
<1> HIDE DEF B
<1>8. Holds(c, s, B)
  BY <1>5, <1>6, <1>7 DEF Holds
<1> QED
  BY <1>8 DEF c, B

\* So the builder holds it after any messages of a session, each of them once, in any order.
LEMMA AnyOrderHolds ==
    ASSUME NEW s \in Sessions, NEW a \in Seq(1 .. LastSeq), IsInjective(a)
    PROVE  Holds(parsePayload(EmptyBuilder, [i \in 1 .. Len(a) |-> s[a[i]]]), s, Range(a))
<1> DEFINE messages == [i \in 1 .. Len(a) |-> s[a[i]]]
           N == Len(a)
           First(n) == {a[i] : i \in 1 .. n}
<1>1. N \in Nat /\ DOMAIN a = 1 .. N /\ \A i \in 1 .. N : a[i] \in 1 .. LastSeq
  <2>1. Len(a) \in Nat /\ DOMAIN a = 1 .. Len(a)
    OBVIOUS
  <2>2. \A i \in 1 .. Len(a) : a[i] \in 1 .. LastSeq
    <3> DEFINE T == 1 .. LastSeq
    <3>1. a \in Seq(T)
      OBVIOUS
    <3> HIDE DEF T
    <3>2. \A i \in 1 .. Len(a) : a[i] \in T
      BY ONLY <3>1
    <3> QED
      BY <3>2 DEF T
  <2> QED
    BY <2>1, <2>2
<1>2. Len(messages) = N /\ \A i \in 1 .. N : messages[i] = s[a[i]]
  <2>1. messages \in Seq({s[a[i]] : i \in 1 .. N}) /\ DOMAIN messages = 1 .. N
    BY <1>1
  <2> QED
    BY <1>1, <2>1
<1>3. \A i, l \in 1 .. N : a[i] = a[l] => i = l
  BY <1>1 DEF IsInjective
<1>4. Range(a) = First(N)
  BY <1>1 DEF Range
<1> HIDE DEF messages
<1>5. PICK g : Turns(EmptyBuilder, messages, g) /\ parsePayload(EmptyBuilder, messages) = g[N]
  <2>1. Len(messages) \in Nat
    BY <1>1, <1>2
  <2>2. TakesTurns(EmptyBuilder, messages)
    BY <2>1, PayloadTurns
  <2> QED
    BY <1>2, <2>2 DEF TakesTurns
<1>6. g[0] = EmptyBuilder /\ \A i \in 1 .. N : g[i] = parseMessage(g[i - 1], s[a[i]])
  BY <1>2, <1>5 DEF Turns
<1> HIDE DEF N
<1> DEFINE S == {n \in 0 .. N : Holds(g[n], s, First(n))}
<1>7. 0 \in S
  <2>1. First(0) = {} /\ DOMAIN EmptyBuilder.orderMap = {}
    BY DEF EmptyBuilder
  <2>2. Holds(EmptyBuilder, s, {})
    BY <2>1, EmptyIsGood DEF Holds
  <2>3. 0 \in 0 .. N
    BY <1>1
  <2> HIDE DEF First
  <2>4. Holds(g[0], s, First(0))
    BY <1>6, <2>1, <2>2
  <2> QED
    BY <2>3, <2>4
<1>8. ASSUME NEW n \in 0 .. N - 1, n \in S PROVE n + 1 \in S
  <2>1. n + 1 \in 1 .. N /\ n + 1 \in 0 .. N /\ (n + 1) - 1 = n /\ 1 .. n \subseteq 1 .. N
    BY <1>1
  <2>2. First(n + 1) = First(n) \cup {a[n + 1]}
    <3>1. 1 .. n + 1 = (1 .. n) \cup {n + 1}
      BY <1>1
    <3> QED
      BY <3>1
  <2>3. First(n) \in SUBSET (1 .. LastSeq)
    BY <1>1, <2>1
  <2>4. a[n + 1] \in 1 .. LastSeq /\ a[n + 1] \notin First(n)
    <3>1. \A i \in 1 .. n : i \in 1 .. N /\ i # n + 1
      BY <1>1, <2>1
    <3> QED
      BY <1>1, <1>3, <2>1, <3>1
  <2>5. g[n + 1] = parseMessage(g[n], s[a[n + 1]]) /\ Holds(g[n], s, First(n))
    BY <1>6, <1>8, <2>1
  <2> HIDE DEF First
  <2>6. Holds(g[n + 1], s, First(n) \cup {a[n + 1]})
    BY <2>3, <2>4, <2>5, HoldsMore
  <2> QED
    BY <2>1, <2>2, <2>6
<1> HIDE DEF S
<1>9. \A n \in 0 .. N : n \in S
  BY <1>1, <1>7, <1>8, UpTo
<1>10. Holds(g[N], s, First(N))
  <2>1. N \in S
    BY <1>1, <1>9
  <2> HIDE DEF First
  <2> QED
    BY <2>1 DEF S
<1>11. Holds(parsePayload(EmptyBuilder, messages), s, Range(a))
  BY <1>4, <1>5, <1>10
<1> QED
  BY <1>11 DEF messages

----------------------------------------------------------------------------
(* The book of a late joiner. *)

\* A step of the client beside its builder is a step of the client.
LEMMA SyncIsClient == SyncSpec => Spec /\ [](session \in Sessions)
<1>1. SyncInit => Init /\ session \in Sessions
  BY DEF SyncInit
<1>2. [SyncNext]_syncVars => [Next]_vars
  BY DEF SyncNext, syncVars
<1>3. session \in Sessions /\ [SyncNext]_syncVars => (session \in Sessions)'
  <2> SUFFICES ASSUME session \in Sessions, [SyncNext]_syncVars PROVE session' \in Sessions
    OBVIOUS
  <2> QED
    BY DEF SyncNext, syncVars
<1> QED
  BY <1>1, <1>2, <1>3, PTL DEF SyncSpec, Spec

\* What the builder holds while every message has reached it at most once.
LEMMA BuilderHolds ==
    ASSUME TypeOK, AppliedOnce, session \in Sessions
    PROVE  Holds(builder, session, Range(applied))
BY AnyOrderHolds DEF TypeOK, AppliedOnce, builder

\* An open order of the exchange is in the client's table.
LEMMA OpenOrderHeld ==
    ASSUME TypeOK, AppliedOnce, session \in Sessions, UpToDate,
           NEW k \in DOMAIN OpenOrders(session)[published]
    PROVE  /\ k \in DOMAIN builder.orderMap
           /\ builder.orderMap[k].price = OpenOrders(session)[published][k].price
           /\ builder.orderMap[k].left_qty >= OpenOrders(session)[published][k].left_qty
<1> DEFINE open == OpenOrders(session)[published]
           A == 1 .. published
           b == builder
           x == Executed(session, k, A)
<1>1. /\ published \in 0 .. LastSeq /\ LastSeq \in Nat /\ A \subseteq 1 .. LastSeq
      /\ session \in [1 .. LastSeq -> Messages]
  BY ClientAssumption DEF TypeOK, Sessions
<1>2. Holds(b, session, A)
  BY BuilderHolds DEF UpToDate
<1>3. OpenOrdersSay(session, published)
  BY <1>1, OpenOrdersSaid
<1>4. PICK p \in A : Adds(session[p], k)
  BY <1>3 DEF OpenOrdersSay
<1> DEFINE m == session[p]
<1>5. k \in Keys /\ m.qty \in Nat
  <2>1. m \in Messages /\ m.type = "A" /\ m.key = k
    BY <1>1, <1>4 DEF Adds
  <2> HIDE DEF m
  <2>2. m.key \in Keys /\ m.qty \in 1 .. MaxQty
    BY <2>1, MessageFields
  <2> QED
    BY <2>1, <2>2, FeedAssumption
<1>6. \A i \in A : ~Deletes(session[i], k)
  BY <1>3 DEF OpenOrdersSay
<1>7. /\ open[k].price = m.price /\ open[k].left_qty > 0 /\ open[k].left_qty \in Nat
      /\ open[k].left_qty + x = m.qty
  BY <1>3, <1>4, <1>5 DEF OpenOrdersSay
<1>8. x \in Nat
  BY <1>1, ExecutedWithin
<1>9. /\ k \in DOMAIN b.orderMap => b.orderMap[k].price = m.price /\ b.orderMap[k].left_qty + x >= m.qty
      /\ k \notin DOMAIN b.orderMap => (\E i \in A : Deletes(session[i], k)) \/ x >= m.qty
  BY <1>2, <1>4, <1>5 DEF Holds
<1>10. k \in DOMAIN b.orderMap => b.orderMap[k].left_qty \in Nat
  BY <1>2, FeedAssumption DEF Holds, GoodBuilder, OrderMap
<1> HIDE DEF b, x, m, open, A
<1>11. ~(x >= m.qty)
  BY <1>5, <1>7, <1>8
<1>12. k \in DOMAIN b.orderMap
  BY <1>6, <1>9, <1>11
<1>13. b.orderMap[k].left_qty >= open[k].left_qty
  BY <1>5, <1>7, <1>8, <1>9, <1>10, <1>12
<1> QED
  BY <1>7, <1>9, <1>12, <1>13 DEF b, open

\* On a network that keeps the order of packets and repeats none, the builder of a
\* client that joins at any time never meets a missing level.
THEOREM NoMissingLevelAlways == InOrderOnce => (SyncSpec => []NoMissingLevel)
<1> SUFFICES ASSUME InOrderOnce PROVE SyncSpec => []NoMissingLevel
  OBVIOUS
<1>1. Spec => []AppliedOnce
  BY AppliedOnceAlways
<1>2. TypeOK /\ AppliedOnce /\ session \in Sessions => NoMissingLevel
  BY BuilderHolds DEF Holds, GoodBuilder, NoMissingLevel
<1> QED
  BY <1>1, <1>2, SyncIsClient, TypeOKAlways, PTL

\* On such a network, a client that has all messages has every open order of the
\* exchange, at its price and with no less than what is left of it.
THEOREM NothingUnderstatedAlways == InOrderOnce => (SyncSpec => []NothingUnderstated)
<1> SUFFICES ASSUME InOrderOnce PROVE SyncSpec => []NothingUnderstated
  OBVIOUS
<1>1. Spec => []AppliedOnce
  BY AppliedOnceAlways
<1>2. TypeOK /\ AppliedOnce /\ session \in Sessions => NothingUnderstated
  BY OpenOrderHeld DEF NothingUnderstated
<1> QED
  BY <1>1, <1>2, SyncIsClient, TypeOKAlways, PTL
=============================================================================
