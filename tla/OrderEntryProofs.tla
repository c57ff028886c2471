-------------------------- MODULE OrderEntryProofs --------------------------
(***************************************************************************)
(* The order entry process for every configuration, last index, number of  *)
(* orders, size of the table and of the tokens, every answer the exchange  *)
(* may give, and every point at which the process may stop or be killed.   *)
(***************************************************************************)
EXTENDS OrderEntry, OrderManagerProofs, SequenceTheorems

----------------------------------------------------------------------------
(* The inductive invariant. *)

\* What has been read from the files or written to them.
FileTypes ==
    /\ document \in {JsonFile(j) : j \in Configs} \cup {NoFile, Torn}
    /\ contains(file.json, TokenIndexKey) => file.json[TokenIndexKey] \in Nat

Table == [0 .. OrdersSize - 1 -> [quantity : OrderQuantity, is_valid : BOOLEAN]]
Saver == [own : BOOLEAN, token : Token]

\* A process that saves has an OrderManager left to destroy.
ProcessTypes ==
    /\ state \in {"Disconnected", "Continuous"}
    /\ running \in {"down", "started", "logged in", "stopping", "saving"}
    /\ token \in Token /\ other \in Seq(Token)
    /\ unsaved \in Seq(Saver) /\ (running = "saving" => unsaved # << >>)
    /\ orders \in Table
    /\ pending \in Seq(Token \X Token)
    /\ runs \in 0 .. MaxRuns /\ (running # "down" => runs > 0)

\* What is under way, and what the exchange keeps.
SessionTypes ==
    /\ out \in Seq(Request) /\ in \in Seq(Response)
    /\ issued \in Seq((1 .. MaxRuns) \X Token)
    /\ DOMAIN open \subseteq Token /\ DOMAIN ended \subseteq Token
    /\ \A t \in DOMAIN open : open[t] \in [left : 1 .. OrderQty, original : Token]

Types == FileTypes /\ ProcessTypes /\ SessionTypes

\* The tokens this process has issued.
Mine == {issued[i][2] : i \in {k \in 1 .. Len(issued) : issued[k][1] = runs}}

\* Nothing under way and nothing at the exchange is about another token.
AboutMine ==
    /\ \A i \in 1 .. Len(out) : out[i].type \in {"Enter", "Replace", "Cancel"} => out[i].token \in Mine
    /\ \A i \in 1 .. Len(in) :
           in[i].type \in {"Accepted", "Executed", "Replaced", "Rejected"} => in[i].token \in Mine
    /\ DOMAIN open \subseteq Mine

\* The entries of all other tokens are untouched.
Untouched ==
    \A n \in 0 .. OrdersSize - 1 : (\A t \in Mine : Index(t) # n) => orders[n] = NoOrders[n]

\* A rejection that has not been read is on its way.
Rejections ==
    \A t \in DOMAIN ended :
        ended[t] = "rejected" /\ withinRange(Index(t)) =>
            \/ ~orders[Index(t)].is_valid
            \/ \E i \in 1 .. Len(in) : in[i] = [type |-> "Rejected", token |-> t]

EntryInv == Types /\ AboutMine /\ Untouched /\ Rejections

\* Tokens were issued by the processes so far, and m_token is no smaller than those of
\* this one, nor than any of them as long as no process has started with an old index,
\* unless one from there on begins with a nine.
NoneLarger ==
    \A i \in 1 .. Len(issued) :
        /\ issued[i][1] <= runs
        /\ (kept \/ issued[i][1] = runs) /\ (\A k \in i .. Len(issued) : ~Exhausted(issued[k][2]))
               => Index(issued[i][2]) <= Index(token)

\* A first token does not begin with a nine: one that does is the last one issued.
ExhaustedIssued == Exhausted(token) => issued # << >> /\ issued[Len(issued)][2] = token

\* What the session itself saved is m_token; what the file lacks, no token rests on.
SavedIsToken ==
    /\ \A i \in 1 .. Len(unsaved) : unsaved[i].own => unsaved[i].token = token
    /\ running \in {"down", "started", "logged in"} => unsaved = << >>
    /\ left \in {"own", "old", "nothing"}
    /\ running \in {"started", "logged in"} => left = "old"
    /\ left = "own" =>
           file = JsonFile([last_used_order_token_index |-> savedIndex(token)]) /\ fitsInt(Index(token) + 1)
    /\ left = "nothing" => ~file.valid \/ issued = << >>

AscendInv == TokensAscend /\ NoneLarger /\ ExhaustedIssued /\ SavedIsToken /\ kept \in BOOLEAN
----------------------------------------------------------------------------
(* The configuration. *)

\* One sequence begins with another.
Begins(s, t) == Len(s) <= Len(t) /\ \A i \in 1 .. Len(s) : s[i] = t[i]

\* Then the other is a prefix of it.
LEMMA BeginsIsPrefix ==
    ASSUME NEW D, NEW s \in Seq(D), NEW t \in Seq(D), Begins(s, t)
    PROVE  IsPrefix(s, t)
<1>1. Len(s) \in Nat /\ Len(t) \in Nat /\ Len(s) <= Len(t)
  BY LenProperties DEF Begins
<1> DEFINE L == Len(s)
           a == SubSeq(s, 1, L)
           b == SubSeq(t, 1, L)
<1>2. (\A i \in 1 .. L : s[i] \in D) /\ \A i \in 1 .. L : t[i] \in D
  BY <1>1, ElementOfSeq
<1>3. a \in Seq(D) /\ Len(a) = L /\ \A i \in 1 .. L : a[i] = s[i]
  <2> HIDE DEF L
  <2>1. L \in Int /\ 1 \in Int
    BY <1>1 DEF L
  <2>2. /\ a \in Seq(D) /\ Len(a) = (IF 1 <= L THEN L - 1 + 1 ELSE 0)
        /\ \A i \in 1 .. L - 1 + 1 : a[i] = s[1 + i - 1]
    BY <1>2, <2>1, SubSeqProperties
  <2> QED
    BY <1>1, <2>2 DEF L
<1>4. b \in Seq(D) /\ Len(b) = L /\ \A i \in 1 .. L : b[i] = t[i]
  <2> HIDE DEF L
  <2>1. L \in Int /\ 1 \in Int
    BY <1>1 DEF L
  <2>2. /\ b \in Seq(D) /\ Len(b) = (IF 1 <= L THEN L - 1 + 1 ELSE 0)
        /\ \A i \in 1 .. L - 1 + 1 : b[i] = t[1 + i - 1]
    BY <1>2, <2>1, SubSeqProperties
  <2> QED
    BY <1>1, <2>2 DEF L
<1>5. \A i \in 1 .. L : a[i] = b[i]
  BY <1>3, <1>4 DEF Begins
<1> HIDE DEF a, b
<1>6. a = b
  BY <1>3, <1>4, <1>5, SeqEqual
<1> QED
  BY <1>1, <1>6 DEF IsPrefix, a, b

\* Sequences put together.
LEMMA BeginsConcat ==
    ASSUME NEW D, NEW m \in Seq(D), NEW s \in Seq(D), NEW t \in Seq(D), Begins(s, t)
    PROVE  Begins(s, t \o m) /\ Begins(m \o s, m \o t) /\ t \o m \in Seq(D) /\ m \o t \in Seq(D) /\ m \o s \in Seq(D)
<1>1. Len(m) \in Nat /\ Len(s) \in Nat /\ Len(t) \in Nat /\ Len(s) <= Len(t) /\ \A i \in 1 .. Len(s) : s[i] = t[i]
  BY LenProperties DEF Begins
<1>2. /\ t \o m \in Seq(D) /\ Len(t \o m) = Len(t) + Len(m)
      /\ \A i \in 1 .. Len(t) + Len(m) : (t \o m)[i] = IF i <= Len(t) THEN t[i] ELSE m[i - Len(t)]
  BY ConcatProperties
<1>3. /\ m \o t \in Seq(D) /\ Len(m \o t) = Len(m) + Len(t)
      /\ \A i \in 1 .. Len(m) + Len(t) : (m \o t)[i] = IF i <= Len(m) THEN m[i] ELSE t[i - Len(m)]
  BY ConcatProperties
<1>4. /\ m \o s \in Seq(D) /\ Len(m \o s) = Len(m) + Len(s)
      /\ \A i \in 1 .. Len(m) + Len(s) : (m \o s)[i] = IF i <= Len(m) THEN m[i] ELSE s[i - Len(m)]
  BY ConcatProperties
<1>5. Begins(s, t \o m)
  <2>1. ASSUME NEW i \in 1 .. Len(s) PROVE s[i] = (t \o m)[i]
    <3>1. i \in 1 .. Len(t) + Len(m) /\ i <= Len(t)
      BY <1>1
    <3> QED
      BY <1>1, <1>2, <3>1
  <2> QED
    BY <1>1, <1>2, <2>1 DEF Begins
<1>6. Begins(m \o s, m \o t)
  <2>1. ASSUME NEW i \in 1 .. Len(m) + Len(s) PROVE (m \o s)[i] = (m \o t)[i]
    <3>1. i \in 1 .. Len(m) + Len(t)
      BY <1>1
    <3>2. CASE i <= Len(m)
      BY <1>3, <1>4, <3>1, <3>2
    <3>3. CASE ~(i <= Len(m))
      <4>1. i - Len(m) \in 1 .. Len(s)
        BY <1>1, <3>3
      <4>2. (m \o s)[i] = s[i - Len(m)] /\ (m \o t)[i] = t[i - Len(m)]
        BY <1>3, <1>4, <3>1, <3>3
      <4> QED
        BY <1>1, <4>1, <4>2
    <3> QED
      BY <3>2, <3>3
  <2> QED
    BY <1>1, <1>3, <1>4, <2>1 DEF Begins
<1> QED
  BY <1>2, <1>3, <1>4, <1>5, <1>6

\* What Active takes, partition by partition.
TakesOf(partitions, type, n, f) ==
    /\ f[0] = << >>
    /\ \A i \in 1 .. n :
           f[i] = IF inactive(partitions[i]) THEN f[i - 1]
                  ELSE Append(f[i - 1], [from |-> partitions[i], type |-> type])

\* Active, a recursive function, computes it.
LEMMA ActiveTakes ==
    ASSUME NEW P, NEW type, Len(P) \in Nat
    PROVE  \E f : TakesOf(P, type, Len(P), f) /\ Active(P, type) = f[Len(P)]
<1> DEFINE N == Len(P)
           A(s, i) == IF inactive(P[i]) THEN s ELSE Append(s, [from |-> P[i], type |-> type])
           Step(f) == [i \in 0 .. N |-> IF i = 0 THEN << >> ELSE A(f[i - 1], i)]
           R == CHOOSE f : f = Step(f)
<1>1. N \in Nat
  OBVIOUS
<1>2. Active(P, type) = R[N]
  BY DEF Active
<1> HIDE DEF N
<1> DEFINE StepTo(n, f) == f = [i \in 0 .. n |-> IF i = 0 THEN << >> ELSE A(f[i - 1], i)]
           S == {n \in 0 .. N : \E f : StepTo(n, f)}
<1>4. 0 \in S
  <2> DEFINE f == [i \in 0 .. 0 |-> << >>]
  <2>1. f = [i \in 0 .. 0 |-> IF i = 0 THEN << >> ELSE A(f[i - 1], i)]
    OBVIOUS
  <2> HIDE DEF f, A
  <2>2. StepTo(0, f)
    BY <2>1
  <2> QED
    BY <1>1, <2>2
<1> HIDE DEF A
<1>5. ASSUME NEW n \in 0 .. N - 1, n \in S PROVE n + 1 \in S
  <2>1. PICK f : StepTo(n, f)
    BY <1>5
  <2>2. f[0] = << >> /\ \A i \in 1 .. n : f[i] = A(f[i - 1], i)
    BY <2>1
  <2> DEFINE last == A(f[n], n + 1)
             h == [i \in 0 .. n + 1 |-> IF i <= n THEN f[i] ELSE last]
             rhs(i) == IF i = 0 THEN << >> ELSE A(h[i - 1], i)
  <2> HIDE DEF last, StepTo
  <2>3. DOMAIN h = 0 .. n + 1 /\ h[n + 1] = last /\ \A i \in 0 .. n : h[i] = f[i]
    OBVIOUS
  <2>4. h = [i \in 0 .. n + 1 |-> h[i]]
    BY <2>3
  <2> HIDE DEF h
  <2>5. ASSUME NEW i \in 0 .. n + 1 PROVE h[i] = rhs(i)
    <3>1. CASE i = 0
      BY <2>2, <2>3, <3>1
    <3>2. CASE i \in 1 .. n
      <4>1. i \in 0 .. n /\ i - 1 \in 0 .. n /\ i # 0
        BY <3>2
      <4> QED
        BY <2>2, <2>3, <3>2, <4>1
    <3>3. CASE i = n + 1
      <4>1. i - 1 = n /\ n \in 0 .. n /\ i # 0
        BY <3>3
      <4> QED
        BY <2>3, <3>3, <4>1 DEF last
    <3> QED
      BY <3>1, <3>2, <3>3
  <2> HIDE DEF rhs
  <2>6. h = [i \in 0 .. n + 1 |-> rhs(i)]
    BY <2>4, <2>5
  <2>7. StepTo(n + 1, h) /\ n + 1 \in 0 .. N
    BY <1>1, <2>6 DEF StepTo, rhs
  <2> QED
    BY <2>7
<1> HIDE DEF S
<1>6. \A n \in 0 .. N : n \in S
  BY <1>1, <1>4, <1>5, UpTo
<1>7. N \in S
  BY <1>1, <1>6
<1>8. R = Step(R)
  <2>1. \E f : f = Step(f)
    BY <1>7 DEF S
  <2> QED
    BY <2>1
<1> HIDE DEF R
<1>9. R[0] = << >> /\ \A i \in 1 .. N : R[i] = A(R[i - 1], i)
  <2>1. 0 \in 0 .. N
    BY <1>1
  <2>2. \A i \in 1 .. N : i \in 0 .. N /\ i # 0
    BY <1>1
  <2> QED
    BY <1>8, <2>1, <2>2
<1>10. TakesOf(P, type, N, R)
  BY <1>9 DEF TakesOf, A
<1> QED
  BY <1>2, <1>10 DEF N

\* They are partitions, and what is taken first stays first.
LEMMA TakesGrow ==
    ASSUME NEW P, NEW type, NEW N \in Nat, NEW f, TakesOf(P, type, N, f), NEW D,
           \A i \in 1 .. N : [from |-> P[i], type |-> type] \in D
    PROVE  /\ \A n \in 0 .. N : f[n] \in Seq(D)
           /\ \A n \in 0 .. N : \A k \in 0 .. n : Begins(f[k], f[n])
<1> DEFINE X(i) == [from |-> P[i], type |-> type]
           S == {n \in 0 .. N : \A k \in 0 .. n : f[k] \in Seq(D) /\ Begins(f[k], f[n])}
<1>1. f[0] = << >> /\ \A i \in 1 .. N : f[i] = f[i - 1] \/ f[i] = Append(f[i - 1], X(i))
  BY DEF TakesOf
<1>2. \A i \in 1 .. N : X(i) \in D
  OBVIOUS
<1> HIDE DEF X
<1>3. 0 \in S
  <2>1. Len(<< >>) = 0 /\ << >> \in Seq(D)
    OBVIOUS
  <2>2. Begins(f[0], f[0]) /\ f[0] \in Seq(D)
    BY <1>1, <2>1 DEF Begins
  <2>3. \A k \in 0 .. 0 : k = 0
    OBVIOUS
  <2> QED
    BY <2>2, <2>3
<1>4. ASSUME NEW n \in 0 .. N - 1, n \in S PROVE n + 1 \in S
  <2>1. n + 1 \in 1 .. N /\ n + 1 \in 0 .. N /\ (n + 1) - 1 = n /\ n \in 0 .. n
    OBVIOUS
  <2>2. \A k \in 0 .. n : f[k] \in Seq(D) /\ Begins(f[k], f[n])
    BY <1>4
  <2>3. f[n] \in Seq(D) /\ Len(f[n]) \in Nat
    BY <2>1, <2>2, LenProperties
  <2>4. f[n + 1] \in Seq(D) /\ Len(f[n + 1]) \in Nat /\ Begins(f[n], f[n + 1])
    <3>1. CASE f[n + 1] = f[n]
      BY <2>3, <3>1 DEF Begins
    <3>2. CASE f[n + 1] = Append(f[n], X(n + 1))
      <4>1. /\ f[n + 1] \in Seq(D) /\ Len(f[n + 1]) = Len(f[n]) + 1
            /\ \A i \in 1 .. Len(f[n]) : f[n + 1][i] = f[n][i]
        BY <1>2, <2>1, <2>3, <3>2, AppendProperties
      <4> QED
        BY <2>3, <4>1 DEF Begins
    <3> QED
      BY <1>1, <2>1, <3>1, <3>2
  <2>5. ASSUME NEW k \in 0 .. n + 1 PROVE f[k] \in Seq(D) /\ Begins(f[k], f[n + 1])
    <3>1. CASE k \in 0 .. n
      <4>1. f[k] \in Seq(D) /\ Begins(f[k], f[n])
        BY <2>2, <3>1
      <4>2. Len(f[k]) \in Nat
        BY <4>1, LenProperties
      <4>3. Begins(f[k], f[n + 1])
        BY <2>3, <2>4, <4>1, <4>2 DEF Begins
      <4> QED
        BY <4>1, <4>3
    <3>2. CASE k = n + 1
      BY <2>4, <3>2 DEF Begins
    <3> QED
      BY <3>1, <3>2
  <2> QED
    BY <2>1, <2>5
<1> HIDE DEF S
<1>5. \A n \in 0 .. N : n \in S
  BY <1>3, <1>4, UpTo
<1>6. ASSUME NEW n \in 0 .. N PROVE f[n] \in Seq(D) /\ \A k \in 0 .. n : Begins(f[k], f[n])
  <2>1. n \in 0 .. n
    OBVIOUS
  <2> QED
    BY <1>5, <2>1 DEF S
<1> QED
  BY <1>6

\* What a loop of parseInstrumentConfig needs of a partition.
ReadsPartition(instrument, p) ==
    /\ contains(p, "name")
    /\ ~inactive(p) => MarketPartitionKeys \subseteq DOMAIN p /\ InstrumentKeys \subseteq DOMAIN instrument

Parser(verdict, market, entry) == [verdict |-> verdict, market |-> market, entry |-> entry]

\* One round: the call ends, or the partition is taken as Active takes it.
LEMMA RoundTakes ==
    ASSUME NEW D, NEW market \in Seq(D), NEW entry, NEW instrument, NEW type, NEW x,
           NEW q, q = marketPartition(Parser("true", market, entry), instrument, type, x)
    PROVE  /\ ~ReadsPartition(instrument, x) => \E v : v # "true" /\ q = Parser(v, market, entry)
           /\ ReadsPartition(instrument, x) =>
                  q = Parser("true", IF inactive(x) THEN market ELSE Append(market, [from |-> x, type |-> type]), entry)
<1> DEFINE p == Parser("true", market, entry)
           a == Append(market, [from |-> x, type |-> type])
<1>1. p.verdict = "true" /\ p.market = market
  BY DEF Parser
<1>2. Fails(p) = Parser("false", market, entry) /\ Undefined(p) = Parser("undefined", market, entry)
  BY DEF Fails, Undefined, Parser
<1>3. [p EXCEPT !.market = a] = Parser("true", a, entry)
  BY DEF Parser
<1>4. q = IF ~contains(x, "name") THEN Undefined(p)
          ELSE IF inactive(x) THEN p
          ELSE IF ~(MarketPartitionKeys \subseteq DOMAIN x) THEN Fails(p)
          ELSE IF ~(InstrumentKeys \subseteq DOMAIN instrument) THEN Undefined(p)
          ELSE [p EXCEPT !.market = a]
  BY <1>1 DEF marketPartition
<1> HIDE DEF a, p
<1>5. ASSUME ~ReadsPartition(instrument, x) PROVE \E v : v # "true" /\ q = Parser(v, market, entry)
  <2>1. q = Undefined(p) \/ q = Fails(p)
    BY <1>4, <1>5 DEF ReadsPartition
  <2> QED
    BY <1>2, <2>1
<1>6. ASSUME ReadsPartition(instrument, x)
      PROVE  q = Parser("true", IF inactive(x) THEN market ELSE a, entry)
  BY <1>3, <1>4, <1>6 DEF ReadsPartition, p
<1> QED
  BY <1>5, <1>6 DEF a

\* The rounds of the loop.
RoundsOf(parser, instrument, type, partitions, n, g) ==
    /\ g[0] = parser
    /\ \A i \in 1 .. n : g[i] = marketPartition(g[i - 1], instrument, type, partitions[i])

\* They took what Active takes up to some partition, the last one if none ended the call.
RoundsEnd(market, entry, instrument, partitions, n, g, f) ==
    \E v : \E k \in 0 .. n :
        /\ g[n] = Parser(v, market \o f[k], entry)
        /\ v = "true" => k = n
        /\ v = "true" <=> \A i \in 1 .. n : ReadsPartition(instrument, partitions[i])

\* And so they do.
LEMMA RoundsTake ==
    ASSUME NEW D, NEW market \in Seq(D), NEW entry, NEW instrument, NEW type, NEW P, NEW N \in Nat,
           \A i \in 1 .. N : [from |-> P[i], type |-> type] \in D,
           NEW g, RoundsOf(Parser("true", market, entry), instrument, type, P, N, g),
           NEW f, TakesOf(P, type, N, f)
    PROVE  RoundsEnd(market, entry, instrument, P, N, g, f)
<1> DEFINE Q(n, v, k) ==
               /\ g[n] = Parser(v, market \o f[k], entry)
               /\ v = "true" => k = n
               /\ v = "true" <=> \A i \in 1 .. n : ReadsPartition(instrument, P[i])
           S == {n \in 0 .. N : \E v : \E k \in 0 .. n : Q(n, v, k)}
<1>1. \A n \in 0 .. N : f[n] \in Seq(D)
  BY TakesGrow
<1>2. 0 \in S
  <2>1. f[0] = << >> /\ g[0] = Parser("true", market, entry)
    BY DEF TakesOf, RoundsOf
  <2>2. market \o f[0] = market
    BY <2>1, ConcatEmptySeq
  <2>3. \A i \in 1 .. 0 : ReadsPartition(instrument, P[i])
    OBVIOUS
  <2>4. Q(0, "true", 0)
    BY <2>1, <2>2, <2>3
  <2> HIDE DEF Q
  <2>5. 0 \in 0 .. N /\ 0 \in 0 .. 0
    OBVIOUS
  <2> QED
    BY <2>4, <2>5
<1>3. ASSUME NEW n \in 0 .. N - 1, n \in S PROVE n + 1 \in S
  <2>1. n + 1 \in 1 .. N /\ n + 1 \in 0 .. N /\ (n + 1) - 1 = n /\ n \in 0 .. N
    OBVIOUS
  <2>2. PICK v : \E k \in 0 .. n : Q(n, v, k)
    BY <1>3
  <2>3. PICK k \in 0 .. n : Q(n, v, k)
    BY <2>2
  <2> DEFINE x == P[n + 1]
             y == [from |-> x, type |-> type]
             All(m) == \A i \in 1 .. m : ReadsPartition(instrument, P[i])
  <2>4. g[n + 1] = marketPartition(g[n], instrument, type, x)
    BY <2>1 DEF RoundsOf
  <2>5. f[n + 1] = IF inactive(x) THEN f[n] ELSE Append(f[n], y)
    BY <2>1 DEF TakesOf
  <2>6. All(n + 1) <=> All(n) /\ ReadsPartition(instrument, x)
    <3>1. \A i \in 1 .. n + 1 : i \in 1 .. n \/ i = n + 1
      OBVIOUS
    <3>2. \A i \in 1 .. n : i \in 1 .. n + 1
      OBVIOUS
    <3>3. n + 1 \in 1 .. n + 1
      OBVIOUS
    <3> QED
      BY <3>1, <3>2, <3>3
  <2>7. \E w : \E l \in 0 .. n + 1 : Q(n + 1, w, l)
    <3>1. CASE v # "true"
      <4>1. g[n + 1] = g[n]
        <5>1. g[n].verdict = v
          BY <2>3 DEF Parser
        <5> QED
          BY <2>4, <3>1, <5>1 DEF marketPartition
      <4>2. ~All(n + 1)
        BY <2>3, <2>6, <3>1
      <4>3. Q(n + 1, v, k)
        BY <2>3, <3>1, <4>1, <4>2
      <4>4. k \in 0 .. n + 1
        OBVIOUS
      <4> HIDE DEF Q
      <4> QED
        BY <4>3, <4>4
    <3>2. CASE v = "true"
      <4>1. k = n /\ All(n) /\ g[n] = Parser("true", market \o f[n], entry)
        BY <2>3, <3>2
      <4>2. f[n] \in Seq(D) /\ market \o f[n] \in Seq(D) /\ y \in D
        <5>1. f[n] \in Seq(D)
          BY <1>1, <2>1
        <5>2. market \o f[n] \in Seq(D)
          BY <5>1, ConcatProperties
        <5> QED
          BY <2>1, <5>1, <5>2
      <4> HIDE DEF x, y
      <4>3. /\ ~ReadsPartition(instrument, x) => \E w : w # "true" /\ g[n + 1] = Parser(w, market \o f[n], entry)
            /\ ReadsPartition(instrument, x) =>
                   g[n + 1] = Parser("true", IF inactive(x) THEN market \o f[n] ELSE Append(market \o f[n], y), entry)
        <5> DEFINE M == market \o f[n]
        <5>1. M \in Seq(D) /\ g[n + 1] = marketPartition(Parser("true", M, entry), instrument, type, x)
          BY <2>4, <4>1, <4>2
        <5> HIDE DEF M
        <5>2. /\ ~ReadsPartition(instrument, x) => \E w : w # "true" /\ g[n + 1] = Parser(w, M, entry)
              /\ ReadsPartition(instrument, x) =>
                     g[n + 1] = Parser("true", IF inactive(x) THEN M ELSE Append(M, [from |-> x, type |-> type]), entry)
          BY <5>1, RoundTakes
        <5> QED
          BY <5>2 DEF M, y
      <4>4. CASE ~ReadsPartition(instrument, x)
        <5>1. PICK w : w # "true" /\ g[n + 1] = Parser(w, market \o f[n], entry)
          BY <4>3, <4>4
        <5>2. Q(n + 1, w, n)
          BY <2>6, <4>4, <5>1
        <5>3. n \in 0 .. n + 1
          OBVIOUS
        <5> HIDE DEF Q
        <5> QED
          BY <5>2, <5>3
      <4>5. CASE ReadsPartition(instrument, x)
        <5>1. g[n + 1] = Parser("true", IF inactive(x) THEN market \o f[n] ELSE Append(market \o f[n], y), entry)
          BY <4>3, <4>5
        <5>2. Append(market \o f[n], y) = market \o Append(f[n], y)
          BY <4>2
        <5>3. g[n + 1] = Parser("true", market \o f[n + 1], entry)
          BY <2>5, <5>1, <5>2
        <5>4. Q(n + 1, "true", n + 1)
          BY <2>6, <4>1, <4>5, <5>3
        <5>5. n + 1 \in 0 .. n + 1
          OBVIOUS
        <5> HIDE DEF Q
        <5> QED
          BY <5>4, <5>5
      <4> QED
        BY <4>4, <4>5
    <3> QED
      BY <3>1, <3>2
  <2> HIDE DEF Q
  <2> QED
    BY <2>1, <2>7
<1> HIDE DEF S
<1>4. \A n \in 0 .. N : n \in S
  BY <1>2, <1>3, UpTo
<1>5. N \in S
  BY <1>4
<1> QED
  BY <1>5 DEF S, RoundsEnd

\* The recursive function of parseInstrumentConfig has these rounds.
LEMMA LoopRounds ==
    ASSUME NEW p, p.verdict = "true", NEW market_data, NEW type, NEW key,
           contains(market_data, key), contains(market_data[key], "partitions"),
           Len(market_data[key]["partitions"]) \in Nat
    PROVE  \E g : /\ RoundsOf(p, market_data[key], type, market_data[key]["partitions"],
                              Len(market_data[key]["partitions"]), g)
                  /\ parseInstrumentConfig(p, market_data, type, key) = g[Len(market_data[key]["partitions"])]
<1> DEFINE P == market_data[key]["partitions"]
           I == market_data[key]
           N == Len(P)
           A(s, i) == marketPartition(s, I, type, P[i])
           Step(f) == [i \in 0 .. N |-> IF i = 0 THEN p ELSE A(f[i - 1], i)]
           R == CHOOSE f : f = Step(f)
<1>1. N \in Nat
  OBVIOUS
<1>2. parseInstrumentConfig(p, market_data, type, key) = R[N]
  BY DEF parseInstrumentConfig
<1> HIDE DEF N
<1> DEFINE StepTo(n, f) == f = [i \in 0 .. n |-> IF i = 0 THEN p ELSE A(f[i - 1], i)]
           S == {n \in 0 .. N : \E f : StepTo(n, f)}
<1>3. 0 \in S
  <2> DEFINE f == [i \in 0 .. 0 |-> p]
  <2> HIDE DEF A
  <2>1. f = [i \in 0 .. 0 |-> IF i = 0 THEN p ELSE A(f[i - 1], i)]
    OBVIOUS
  <2> HIDE DEF f
  <2>2. StepTo(0, f)
    BY <2>1
  <2> QED
    BY <1>1, <2>2
<1> HIDE DEF A
<1>4. ASSUME NEW n \in 0 .. N - 1, n \in S PROVE n + 1 \in S
  <2>1. PICK f : StepTo(n, f)
    BY <1>4
  <2>2. f[0] = p /\ \A i \in 1 .. n : f[i] = A(f[i - 1], i)
    BY <2>1
  <2> DEFINE last == A(f[n], n + 1)
             h == [i \in 0 .. n + 1 |-> IF i <= n THEN f[i] ELSE last]
             rhs(i) == IF i = 0 THEN p ELSE A(h[i - 1], i)
  <2> HIDE DEF last, StepTo
  <2>3. DOMAIN h = 0 .. n + 1 /\ h[n + 1] = last /\ \A i \in 0 .. n : h[i] = f[i]
    OBVIOUS
  <2>4. h = [i \in 0 .. n + 1 |-> h[i]]
    BY <2>3
  <2> HIDE DEF h
  <2>5. ASSUME NEW i \in 0 .. n + 1 PROVE h[i] = rhs(i)
    <3>1. CASE i = 0
      BY <2>2, <2>3, <3>1
    <3>2. CASE i \in 1 .. n
      <4>1. i \in 0 .. n /\ i - 1 \in 0 .. n /\ i # 0
        BY <3>2
      <4> QED
        BY <2>2, <2>3, <3>2, <4>1
    <3>3. CASE i = n + 1
      <4>1. i - 1 = n /\ n \in 0 .. n /\ i # 0
        BY <3>3
      <4> QED
        BY <2>3, <3>3, <4>1 DEF last
    <3> QED
      BY <3>1, <3>2, <3>3
  <2> HIDE DEF rhs
  <2>6. h = [i \in 0 .. n + 1 |-> rhs(i)]
    BY <2>4, <2>5
  <2>7. StepTo(n + 1, h) /\ n + 1 \in 0 .. N
    BY <1>1, <2>6 DEF StepTo, rhs
  <2> QED
    BY <2>7
<1> HIDE DEF S
<1>5. \A n \in 0 .. N : n \in S
  BY <1>1, <1>3, <1>4, UpTo
<1>6. N \in S
  BY <1>1, <1>5
<1>7. R = Step(R)
  <2>1. \E f : f = Step(f)
    BY <1>6 DEF S
  <2> QED
    BY <2>1
<1> HIDE DEF R
<1>8. R[0] = p /\ \A i \in 1 .. N : R[i] = A(R[i - 1], i)
  <2>1. 0 \in 0 .. N
    BY <1>1
  <2>2. \A i \in 1 .. N : i \in 0 .. N /\ i # 0
    BY <1>1
  <2> QED
    BY <1>7, <2>1, <2>2
<1>9. RoundsOf(p, I, type, P, N, R)
  BY <1>8 DEF RoundsOf, A
<1> QED
  BY <1>2, <1>9 DEF N

\* What parseInstrumentConfig needs of an instrument.
ReadsInstrument(j, key) ==
    /\ contains(Instrument(j, key), "partitions")
    /\ \A p \in Range(Partitions(j, key)) : ReadsPartition(Instrument(j, key), p)

\* It took the first active partitions, all of them exactly if it found what it needs.
InstrumentEnd(D, market, entry, j, key, type) ==
    LET all == Active(Partitions(j, key), type)
    IN  /\ all \in Seq(D)
        /\ \E v : \E taken \in Seq(D) :
               /\ parseInstrumentConfig(Parser("true", market, entry), j["market_data"], type, key)
                      = Parser(v, market \o taken, entry)
               /\ Begins(taken, all)
               /\ v = "true" => taken = all
               /\ v = "true" <=> ReadsInstrument(j, key)

\* And so it does.
LEMMA InstrumentTakes ==
    ASSUME NEW D, NEW market \in Seq(D), NEW entry, NEW j, contains(j, "market_data"), NEW key, NEW type,
           Partitions(j, key) \in Seq(Range(Partitions(j, key))),
           \A p \in Range(Partitions(j, key)) : [from |-> p, type |-> type] \in D
    PROVE  InstrumentEnd(D, market, entry, j, key, type)
<1> DEFINE all == Active(Partitions(j, key), type)
           P == Partitions(j, key)
           N == Len(P)
           p == Parser("true", market, entry)
           q == parseInstrumentConfig(p, j["market_data"], type, key)
           Done(v, taken) ==
               /\ q = Parser(v, market \o taken, entry)
               /\ Begins(taken, all)
               /\ v = "true" => taken = all
               /\ v = "true" <=> ReadsInstrument(j, key)
<1>1. N \in Nat /\ \A i \in 1 .. N : P[i] \in Range(P)
  BY LenProperties, ElementOfSeq
<1>2. \A i \in 1 .. N : [from |-> P[i], type |-> type] \in D
  BY <1>1
<1>3. PICK f : TakesOf(P, type, N, f) /\ all = f[N]
  BY <1>1, ActiveTakes
<1>4. /\ \A n \in 0 .. N : f[n] \in Seq(D)
      /\ \A n \in 0 .. N : \A k \in 0 .. n : Begins(f[k], f[n])
  <2> HIDE DEF P, N
  <2> QED
    BY <1>1, <1>2, <1>3, TakesGrow
<1>5. all \in Seq(D) /\ \A k \in 0 .. N : Begins(f[k], all)
  <2>1. N \in 0 .. N
    BY <1>1
  <2> HIDE DEF all, N
  <2> QED
    BY <1>3, <1>4, <2>1
<1>6. p.verdict = "true" /\ Fails(p) = Parser("false", market, entry)
  BY DEF Parser, Fails
<1>7. CASE ~(contains(j["market_data"], key) /\ contains(j["market_data"][key], "partitions"))
  <2>1. q = Fails(p)
    BY <1>6, <1>7 DEF parseInstrumentConfig
  <2>2. ~ReadsInstrument(j, key)
    <3>1. ValueOf(j, "market_data") = j["market_data"]
      BY DEF ValueOf
    <3>2. CASE ~contains(j["market_data"], key)
      <4>1. Instrument(j, key) = << >>
        BY <3>1, <3>2 DEF Instrument, ValueOf
      <4> QED
        BY <4>1 DEF ReadsInstrument, contains
    <3>3. CASE contains(j["market_data"], key)
      <4>1. Instrument(j, key) = j["market_data"][key]
        BY <3>1, <3>3 DEF Instrument, ValueOf
      <4> QED
        BY <1>7, <3>3, <4>1 DEF ReadsInstrument
    <3> QED
      BY <3>2, <3>3
  <2>3. f[0] = << >> /\ 0 \in 0 .. N
    BY <1>1, <1>3 DEF TakesOf
  <2>4. market \o f[0] = market
    BY <2>3, ConcatEmptySeq
  <2>5. Begins(f[0], all) /\ f[0] \in Seq(D)
    BY <1>4, <1>5, <2>3
  <2> HIDE DEF q, p, all
  <2>6. Done("false", f[0])
    BY <1>6, <2>1, <2>2, <2>4, <2>5
  <2> HIDE DEF Done
  <2>7. \E v : \E taken \in Seq(D) : Done(v, taken)
    BY <2>5, <2>6
  <2> QED
    BY <1>5, <2>7 DEF Done, all, q, p, InstrumentEnd
<1>8. CASE contains(j["market_data"], key) /\ contains(j["market_data"][key], "partitions")
  <2>1. Instrument(j, key) = j["market_data"][key] /\ P = j["market_data"][key]["partitions"]
    BY <1>8 DEF Instrument, Partitions, ValueOf
  <2>2. PICK g : RoundsOf(p, Instrument(j, key), type, P, N, g) /\ q = g[N]
    <3> HIDE DEF p
    <3> QED
      BY <1>1, <1>6, <1>8, <2>1, LoopRounds
  <2>3. PICK v : \E k \in 0 .. N :
                     /\ g[N] = Parser(v, market \o f[k], entry)
                     /\ v = "true" => k = N
                     /\ v = "true" <=> \A i \in 1 .. N : ReadsPartition(Instrument(j, key), P[i])
    <3> DEFINE I == Instrument(j, key)
    <3>1. RoundsOf(Parser("true", market, entry), I, type, P, N, g)
      BY <2>2
    <3> HIDE DEF P, N, I, q, p, all
    <3>2. N \in Nat /\ TakesOf(P, type, N, f) /\ \A i \in 1 .. N : [from |-> P[i], type |-> type] \in D
      BY <1>1, <1>2, <1>3
    <3>3. RoundsEnd(market, entry, I, P, N, g, f)
      BY <3>1, <3>2, RoundsTake
    <3> QED
      BY <3>3 DEF RoundsEnd, I
  <2>4. PICK k \in 0 .. N :
                     /\ g[N] = Parser(v, market \o f[k], entry)
                     /\ v = "true" => k = N
                     /\ v = "true" <=> \A i \in 1 .. N : ReadsPartition(Instrument(j, key), P[i])
    BY <2>3
  <2>5. ReadsInstrument(j, key) <=> \A i \in 1 .. N : ReadsPartition(Instrument(j, key), P[i])
    <3>1. contains(Instrument(j, key), "partitions")
      BY <1>8, <2>1
    <3>2. \A x \in Range(P) : \E i \in 1 .. N : x = P[i]
      <4>1. DOMAIN P = 1 .. N
        BY LenProperties
      <4> QED
        BY <4>1 DEF Range
    <3> QED
      BY <1>1, <3>1, <3>2 DEF ReadsInstrument
  <2>6. Begins(f[k], all) /\ f[k] \in Seq(D) /\ (k = N => f[k] = all)
    BY <1>3, <1>4, <1>5, <2>4
  <2> HIDE DEF q, p, all
  <2>7. Done(v, f[k])
    BY <2>2, <2>4, <2>5, <2>6
  <2> HIDE DEF Done
  <2>8. \E w : \E taken \in Seq(D) : Done(w, taken)
    BY <2>6, <2>7
  <2> QED
    BY <1>5, <2>8 DEF Done, all, q, p, InstrumentEnd
<1> QED
  BY <1>7, <1>8

\* What parseOrderEntryConfig needs of a partition.
ReadsEntry(j, key) ==
    /\ contains(ValueOf(j, "order_entry"), key)
    /\ contains(Entry(j, key), "name")
    /\ ~inactive(Entry(j, key)) => EntryPartitionKeys \subseteq DOMAIN Entry(j, key)

\* It took an active one, or ended the call.
EntryEnd(D, market, entry, j, key, type) ==
    LET all == Active(<< Entry(j, key) >>, type)
    IN  /\ all \in Seq(D)
        /\ \E v : \E taken \in Seq(D) :
               /\ entryPartition(Parser("true", market, entry), j["order_entry"], key, type)
                      = Parser(v, market, entry \o taken)
               /\ Begins(taken, all)
               /\ v = "true" => taken = all
               /\ v = "true" <=> ReadsEntry(j, key)

\* And so it does.
LEMMA EntryTakes ==
    ASSUME NEW D, NEW entry \in Seq(D), NEW market, NEW j, contains(j, "order_entry"), NEW key, NEW type,
           [from |-> Entry(j, key), type |-> type] \in D
    PROVE  EntryEnd(D, market, entry, j, key, type)
<1> DEFINE all == Active(<< Entry(j, key) >>, type)
           e == Entry(j, key)
           x == [from |-> e, type |-> type]
           p == Parser("true", market, entry)
           q == entryPartition(p, j["order_entry"], key, type)
           Done(v, taken) ==
               /\ q = Parser(v, market, entry \o taken)
               /\ Begins(taken, all)
               /\ v = "true" => taken = all
               /\ v = "true" <=> ReadsEntry(j, key)
<1>1. all = IF inactive(e) THEN << >> ELSE << x >>
  <2> DEFINE P == << e >>
  <2>1. Len(P) = 1 /\ P[1] = e
    OBVIOUS
  <2> HIDE DEF P
  <2>2. PICK f : TakesOf(P, type, 1, f) /\ Active(P, type) = f[1]
    <3>1. Len(P) \in Nat
      BY <2>1
    <3> QED
      BY <2>1, <3>1, ActiveTakes
  <2>3. 1 \in 1 .. 1 /\ 1 - 1 = 0
    OBVIOUS
  <2>4. f[1] = IF inactive(e) THEN << >> ELSE Append(<< >>, x)
    BY <2>1, <2>2, <2>3 DEF TakesOf
  <2>5. Append(<< >>, x) = << x >>
    OBVIOUS
  <2> QED
    BY <2>2, <2>4, <2>5 DEF P
<1>2. << >> \in Seq(D) /\ << x >> \in Seq(D) /\ Len(<< >>) = 0 /\ Len(<< x >>) = 1
  OBVIOUS
<1>3. all \in Seq(D) /\ Begins(<< >>, all) /\ Begins(all, all)
  <2> HIDE DEF x, all
  <2>1. all \in Seq(D)
    BY <1>1, <1>2
  <2>2. Len(all) \in Nat
    BY <2>1, LenProperties
  <2> QED
    BY <1>2, <2>1, <2>2 DEF Begins
<1>4. /\ p.verdict = "true" /\ p.entry = entry
      /\ Fails(p) = Parser("false", market, entry) /\ Undefined(p) = Parser("undefined", market, entry)
  BY DEF Parser, Fails, Undefined
<1>5. [p EXCEPT !.entry = Append(entry, x)] = Parser("true", market, entry \o << x >>)
  <2> HIDE DEF x
  <2> DEFINE a == Append(entry, x)
  <2>1. a = entry \o << x >>
    BY <1>2
  <2> HIDE DEF a
  <2>2. [p EXCEPT !.entry = a] = Parser("true", market, a)
    BY DEF Parser
  <2> QED
    BY <2>1, <2>2 DEF a
<1>6. entry \o << >> = entry
  BY ConcatEmptySeq
<1>7. ValueOf(j, "order_entry") = j["order_entry"]
  BY DEF ValueOf
<1>8. CASE ~ReadsEntry(j, key)
  <2>1. q = Fails(p) \/ q = Undefined(p)
    <3>1. CASE ~contains(j["order_entry"], key)
      BY <1>4, <3>1 DEF entryPartition
    <3>2. CASE contains(j["order_entry"], key)
      <4>1. e = j["order_entry"][key]
        BY <1>7, <3>2 DEF Entry, ValueOf
      <4> QED
        BY <1>4, <1>7, <1>8, <3>2, <4>1 DEF entryPartition, ReadsEntry
    <3> QED
      BY <3>1, <3>2
  <2> HIDE DEF q, p, all
  <2>2. Done("false", << >>) \/ Done("undefined", << >>)
    BY <1>3, <1>4, <1>6, <1>8, <2>1
  <2> HIDE DEF Done
  <2>3. \E v : \E taken \in Seq(D) : Done(v, taken)
    BY <1>2, <2>2
  <2> QED
    BY <1>3, <2>3 DEF Done, all, q, p, EntryEnd
<1>9. CASE ReadsEntry(j, key)
  <2>1. e = j["order_entry"][key] /\ contains(j["order_entry"], key)
    BY <1>7, <1>9 DEF ReadsEntry, Entry, ValueOf
  <2>2. q = IF inactive(e) THEN p ELSE [p EXCEPT !.entry = Append(entry, x)]
    BY <1>4, <1>9, <2>1 DEF entryPartition, ReadsEntry
  <2>3. q = Parser("true", market, entry \o all)
    <3> HIDE DEF x, all, q
    <3> QED
      BY <1>1, <1>5, <1>6, <2>2
  <2> HIDE DEF q, p, all
  <2>4. Done("true", all)
    BY <1>3, <1>9, <2>3
  <2> HIDE DEF Done
  <2>5. \E v : \E taken \in Seq(D) : Done(v, taken)
    BY <1>3, <2>4
  <2> QED
    BY <1>3, <2>5 DEF Done, all, q, p, EntryEnd
<1> QED
  BY <1>8, <1>9

\* A call that has ended changes nothing any more.
LEMMA EndedStays ==
    ASSUME NEW p, p.verdict # "true"
    PROVE  /\ \A market_data, type, key : parseInstrumentConfig(p, market_data, type, key) = p
           /\ \A order_entry, key, type : entryPartition(p, order_entry, key, type) = p
           /\ \A order_entry : parseOrderEntryConfig(p, order_entry) = p
<1>1. ASSUME NEW market_data, NEW type, NEW key PROVE parseInstrumentConfig(p, market_data, type, key) = p
  BY Zenon DEF parseInstrumentConfig
<1>2. ASSUME NEW order_entry, NEW key, NEW type PROVE entryPartition(p, order_entry, key, type) = p
  BY Zenon DEF entryPartition
<1>3. ASSUME NEW order_entry PROVE parseOrderEntryConfig(p, order_entry) = p
  BY Zenon DEF parseOrderEntryConfig
<1> QED
  BY <1>1, <1>2, <1>3

\* Two calls, one after the other, take a prefix of what both are to take.
LEMMA TakenTwice ==
    ASSUME NEW D, NEW a \in Seq(D), NEW b \in Seq(D), NEW s \in Seq(D), NEW t \in Seq(D)
    PROVE  /\ Begins(s, a) => Begins(s, a \o b)
           /\ Begins(t, b) => Begins(a \o t, a \o b)
           /\ a \o b \in Seq(D) /\ a \o t \in Seq(D)
<1>1. ASSUME Begins(s, a) PROVE Begins(s, a \o b)
  BY <1>1, BeginsConcat
<1>2. ASSUME Begins(t, b) PROVE Begins(a \o t, a \o b)
  BY <1>2, BeginsConcat
<1>3. a \o b \in Seq(D) /\ a \o t \in Seq(D)
  BY ConcatProperties
<1> QED
  BY <1>1, <1>2, <1>3

\* The partitions of a configuration as they are taken.
Taken(j) ==
    [from : Range(Partitions(j, "equity")) \cup Range(Partitions(j, "derivative"))
                \cup {Entry(j, "equity"), Entry(j, "derivative")},
     type : {"Equity", "Derivative"}]

\* Both instruments, one after the other.
LEMMA MarketTakes ==
    ASSUME NEW j, contains(j, "market_data"),
           \A key \in {"equity", "derivative"} : Partitions(j, key) \in Seq(Range(Partitions(j, key)))
    PROVE  \E v : \E m \in Seq(Taken(j)) :
               /\ parseInstrumentConfig(parseInstrumentConfig(NewParser, j["market_data"], "Equity", "equity"),
                                        j["market_data"], "Derivative", "derivative") = Parser(v, m, << >>)
               /\ Begins(m, ListedMarket(j))
               /\ v = "true" => m = ListedMarket(j)
               /\ v = "true" <=> ReadsInstrument(j, "equity") /\ ReadsInstrument(j, "derivative")
<1> DEFINE D == Taken(j)
           md == j["market_data"]
           all == ListedMarket(j)
           a == Active(Partitions(j, "equity"), "Equity")
           b == Active(Partitions(j, "derivative"), "Derivative")
           p == parseInstrumentConfig(NewParser, md, "Equity", "equity")
           q == parseInstrumentConfig(p, md, "Derivative", "derivative")
           ok == ReadsInstrument(j, "equity") /\ ReadsInstrument(j, "derivative")
           Done(v, m) ==
               /\ q = Parser(v, m, << >>)
               /\ Begins(m, all)
               /\ v = "true" => m = all
               /\ v = "true" <=> ok
<1>1. /\ \A x \in Range(Partitions(j, "equity")) : [from |-> x, type |-> "Equity"] \in D
      /\ \A x \in Range(Partitions(j, "derivative")) : [from |-> x, type |-> "Derivative"] \in D
  BY DEF Taken
<1>2. NewParser = Parser("true", << >>, << >>) /\ << >> \in Seq(D)
  BY DEF NewParser, Parser
<1>3. /\ Partitions(j, "equity") \in Seq(Range(Partitions(j, "equity")))
      /\ Partitions(j, "derivative") \in Seq(Range(Partitions(j, "derivative")))
  OBVIOUS
<1>0. all = a \o b
  BY DEF ListedMarket
<1> HIDE DEF D
<1>4. /\ a \in Seq(D)
      /\ \E v : \E s \in Seq(D) :
             /\ p = Parser(v, << >> \o s, << >>)
             /\ Begins(s, a)
             /\ v = "true" => s = a
             /\ v = "true" <=> ReadsInstrument(j, "equity")
  <2>1. InstrumentEnd(D, << >>, << >>, j, "equity", "Equity")
    BY <1>1, <1>2, <1>3, InstrumentTakes
  <2> QED
    BY <1>2, <2>1 DEF InstrumentEnd
<1>5. PICK v : \E s \in Seq(D) :
             /\ p = Parser(v, << >> \o s, << >>)
             /\ Begins(s, a)
             /\ v = "true" => s = a
             /\ v = "true" <=> ReadsInstrument(j, "equity")
  BY <1>4
<1>6. PICK s \in Seq(D) :
             /\ p = Parser(v, << >> \o s, << >>)
             /\ Begins(s, a)
             /\ v = "true" => s = a
             /\ v = "true" <=> ReadsInstrument(j, "equity")
  BY <1>5
<1>7. << >> \o s = s
  BY ConcatEmptySeq
<1> HIDE DEF a, p
<1>8. b \in Seq(D)
  <2>1. << >> \in Seq(D)
    BY <1>2
  <2>2. InstrumentEnd(D, << >>, << >>, j, "derivative", "Derivative")
    BY <1>1, <1>3, <2>1, InstrumentTakes
  <2> QED
    BY <2>2 DEF InstrumentEnd
<1>9. CASE v # "true"
  <2>1. q = p
    <3>1. p.verdict = v
      BY <1>6 DEF Parser
    <3>2. \A market_data, type, key : parseInstrumentConfig(p, market_data, type, key) = p
      BY <1>9, <3>1, EndedStays
    <3> QED
      BY <3>2
  <2>0. ~ok
    BY <1>6, <1>9
  <2> HIDE DEF q, b, ok, all
  <2>2. Begins(s, all)
    BY <1>0, <1>4, <1>6, <1>8, TakenTwice
  <2>3. Done(v, s)
    BY <1>6, <1>7, <1>9, <2>0, <2>1, <2>2
  <2> HIDE DEF Done
  <2>4. \E w : \E m \in Seq(D) : Done(w, m)
    BY <2>3
  <2> QED
    BY <2>4 DEF Done, q, p, ok, all, D
<1>10. CASE v = "true"
  <2>1. p = Parser("true", a, << >>) /\ ReadsInstrument(j, "equity")
    BY <1>6, <1>7, <1>10
  <2>2. \E w : \E t \in Seq(D) :
             /\ q = Parser(w, a \o t, << >>)
             /\ Begins(t, b)
             /\ w = "true" => t = b
             /\ w = "true" <=> ReadsInstrument(j, "derivative")
    <3>1. InstrumentEnd(D, a, << >>, j, "derivative", "Derivative")
      BY <1>1, <1>3, <1>4, InstrumentTakes
    <3> QED
      BY <2>1, <3>1 DEF InstrumentEnd
  <2>3. PICK w : \E t \in Seq(D) :
             /\ q = Parser(w, a \o t, << >>)
             /\ Begins(t, b)
             /\ w = "true" => t = b
             /\ w = "true" <=> ReadsInstrument(j, "derivative")
    BY <2>2
  <2>4. PICK t \in Seq(D) :
             /\ q = Parser(w, a \o t, << >>)
             /\ Begins(t, b)
             /\ w = "true" => t = b
             /\ w = "true" <=> ReadsInstrument(j, "derivative")
    BY <2>3
  <2> HIDE DEF q, b, all
  <2>5. Begins(a \o t, all) /\ a \o t \in Seq(D)
    BY <1>0, <1>4, <1>8, <2>4, TakenTwice
  <2>6. Done(w, a \o t)
    BY <1>0, <2>1, <2>4, <2>5
  <2> HIDE DEF Done
  <2>7. \E u : \E m \in Seq(D) : Done(u, m)
    BY <2>5, <2>6
  <2> QED
    BY <2>7 DEF Done, q, p, ok, all, D
<1> QED
  BY <1>9, <1>10

\* Both order entry partitions, one after the other.
LEMMA EntriesTake ==
    ASSUME NEW j, contains(j, "order_entry"), NEW market
    PROVE  \E v : \E e \in Seq(Taken(j)) :
               /\ parseOrderEntryConfig(Parser("true", market, << >>), j["order_entry"]) = Parser(v, market, e)
               /\ Begins(e, ListedEntry(j))
               /\ v = "true" => e = ListedEntry(j)
               /\ v = "true" <=> /\ {"client_account", "exchange_info"} \subseteq DOMAIN j["order_entry"]
                                 /\ ReadsEntry(j, "equity") /\ ReadsEntry(j, "derivative")
<1> DEFINE D == Taken(j)
           oe == j["order_entry"]
           all == ListedEntry(j)
           a == Active(<< Entry(j, "equity") >>, "Equity")
           b == Active(<< Entry(j, "derivative") >>, "Derivative")
           n == Parser("true", market, << >>)
           p == entryPartition(n, oe, "equity", "Equity")
           q == entryPartition(p, oe, "derivative", "Derivative")
           r == parseOrderEntryConfig(n, oe)
           keys == {"client_account", "exchange_info"} \subseteq DOMAIN oe
           ok == keys /\ ReadsEntry(j, "equity") /\ ReadsEntry(j, "derivative")
           Done(v, e) ==
               /\ r = Parser(v, market, e)
               /\ Begins(e, all)
               /\ v = "true" => e = all
               /\ v = "true" <=> ok
<1>1. /\ [from |-> Entry(j, "equity"), type |-> "Equity"] \in D
      /\ [from |-> Entry(j, "derivative"), type |-> "Derivative"] \in D
  BY DEF Taken
<1>2. << >> \in Seq(D) /\ Len(<< >>) = 0 /\ n.verdict = "true" /\ Fails(n) = Parser("false", market, << >>)
  BY DEF Parser, Fails
<1>3. all = a \o b
  BY DEF ListedEntry
<1> HIDE DEF D
<1>4. /\ a \in Seq(D)
      /\ \E v : \E s \in Seq(D) :
             /\ p = Parser(v, market, << >> \o s)
             /\ Begins(s, a)
             /\ v = "true" => s = a
             /\ v = "true" <=> ReadsEntry(j, "equity")
  <2>1. EntryEnd(D, market, << >>, j, "equity", "Equity")
    BY <1>1, <1>2, EntryTakes
  <2> QED
    BY <2>1 DEF EntryEnd
<1>5. PICK v : \E s \in Seq(D) :
             /\ p = Parser(v, market, << >> \o s)
             /\ Begins(s, a)
             /\ v = "true" => s = a
             /\ v = "true" <=> ReadsEntry(j, "equity")
  BY <1>4
<1>6. PICK s \in Seq(D) :
             /\ p = Parser(v, market, << >> \o s)
             /\ Begins(s, a)
             /\ v = "true" => s = a
             /\ v = "true" <=> ReadsEntry(j, "equity")
  BY <1>5
<1>7. << >> \o s = s
  BY ConcatEmptySeq
<1>8. r = IF keys THEN q ELSE Fails(n)
  BY <1>2, Zenon DEF parseOrderEntryConfig
<1> HIDE DEF a, p, n
<1>9. b \in Seq(D)
  <2>1. EntryEnd(D, market, << >>, j, "derivative", "Derivative")
    BY <1>1, <1>2, EntryTakes
  <2> QED
    BY <2>1 DEF EntryEnd
<1>10. CASE ~keys
  <2>1. Begins(<< >>, all)
    <3>1. Len(all) \in Nat
      <4> HIDE DEF all, b
      <4>1. all \in Seq(D)
        BY <1>3, <1>4, <1>9, TakenTwice
      <4> QED
        BY <4>1, LenProperties
    <3> QED
      BY <1>2, <3>1 DEF Begins
  <2> HIDE DEF r, q, b, all
  <2>2. Done("false", << >>)
    BY <1>2, <1>8, <1>10, <2>1
  <2> HIDE DEF Done
  <2>3. \E w : \E e \in Seq(D) : Done(w, e)
    BY <1>2, <2>2
  <2> QED
    BY <2>3 DEF Done, r, n, all, D
<1>11. CASE keys /\ v # "true"
  <2>1. q = p
    <3>1. p.verdict = v
      BY <1>6 DEF Parser
    <3>2. \A order_entry, key, type : entryPartition(p, order_entry, key, type) = p
      BY <1>11, <3>1, EndedStays
    <3> QED
      BY <3>2
  <2>2. ~ok
    BY <1>6, <1>11
  <2> HIDE DEF r, q, b, ok, all
  <2>3. Begins(s, all)
    BY <1>3, <1>4, <1>6, <1>9, TakenTwice
  <2>4. Done(v, s)
    BY <1>6, <1>7, <1>8, <1>11, <2>1, <2>2, <2>3
  <2> HIDE DEF Done
  <2>5. \E w : \E e \in Seq(D) : Done(w, e)
    BY <2>4
  <2> QED
    BY <2>5 DEF Done, r, n, ok, all, D
<1>12. CASE keys /\ v = "true"
  <2>1. p = Parser("true", market, a) /\ ReadsEntry(j, "equity")
    BY <1>6, <1>7, <1>12
  <2>2. \E w : \E t \in Seq(D) :
             /\ q = Parser(w, market, a \o t)
             /\ Begins(t, b)
             /\ w = "true" => t = b
             /\ w = "true" <=> ReadsEntry(j, "derivative")
    <3>1. EntryEnd(D, market, a, j, "derivative", "Derivative")
      BY <1>1, <1>4, EntryTakes
    <3> QED
      BY <2>1, <3>1 DEF EntryEnd
  <2>3. PICK w : \E t \in Seq(D) :
             /\ q = Parser(w, market, a \o t)
             /\ Begins(t, b)
             /\ w = "true" => t = b
             /\ w = "true" <=> ReadsEntry(j, "derivative")
    BY <2>2
  <2>4. PICK t \in Seq(D) :
             /\ q = Parser(w, market, a \o t)
             /\ Begins(t, b)
             /\ w = "true" => t = b
             /\ w = "true" <=> ReadsEntry(j, "derivative")
    BY <2>3
  <2> HIDE DEF r, q, b, all
  <2>5. Begins(a \o t, all) /\ a \o t \in Seq(D)
    BY <1>3, <1>4, <1>9, <2>4, TakenTwice
  <2>6. Done(w, a \o t)
    BY <1>3, <1>8, <1>12, <2>1, <2>4, <2>5
  <2> HIDE DEF Done
  <2>7. \E u : \E e \in Seq(D) : Done(u, e)
    BY <2>5, <2>6
  <2> QED
    BY <2>7 DEF Done, r, n, all, D
<1> QED
  BY <1>10, <1>11, <1>12

\* Complete says what the calls need.
LEMMA CompleteReads ==
    ASSUME NEW j
    PROVE  Complete(j) <=>
               /\ {"client_account", "exchange_info"} \subseteq DOMAIN ValueOf(j, "order_entry")
               /\ ReadsInstrument(j, "equity") /\ ReadsInstrument(j, "derivative")
               /\ ReadsEntry(j, "equity") /\ ReadsEntry(j, "derivative")
<1> DEFINE oe == ValueOf(j, "order_entry")
           Reads(key) == ReadsInstrument(j, key) /\ ReadsEntry(j, key)
           Key(key) ==
               /\ contains(Instrument(j, key), "partitions")
               /\ \A p \in Range(Partitions(j, key)) :
                      /\ contains(p, "name")
                      /\ ~inactive(p) => MarketPartitionKeys \subseteq DOMAIN p /\ InstrumentKeys \subseteq DOMAIN Instrument(j, key)
               /\ contains(Entry(j, key), "name")
               /\ ~inactive(Entry(j, key)) => EntryPartitionKeys \subseteq DOMAIN Entry(j, key)
<1>1. \A key : Reads(key) <=> contains(oe, key) /\ Key(key)
  BY Zenon DEF ReadsInstrument, ReadsEntry, ReadsPartition
<1>2. Complete(j) <=> /\ {"client_account", "exchange_info", "equity", "derivative"} \subseteq DOMAIN oe
                      /\ \A key \in {"equity", "derivative"} : Key(key)
  BY Zenon DEF Complete
<1>3. Complete(j) <=> /\ {"client_account", "exchange_info"} \subseteq DOMAIN oe
                      /\ contains(oe, "equity") /\ contains(oe, "derivative")
                      /\ Key("equity") /\ Key("derivative")
  <2> HIDE DEF Key, oe
  <2> QED
    BY <1>2 DEF contains
<1> HIDE DEF Key, oe
<1> QED
  BY <1>1, <1>3, Zenon DEF oe

\* What is listed is a sequence of partitions.
LEMMA ListedIsASequence ==
    ASSUME NEW j, \A key \in {"equity", "derivative"} : Partitions(j, key) \in Seq(Range(Partitions(j, key)))
    PROVE  ListedMarket(j) \in Seq(Taken(j)) /\ ListedEntry(j) \in Seq(Taken(j))
<1> DEFINE D == Taken(j)
<1>1. ASSUME NEW P, NEW type, P \in Seq(Range(P)), \A x \in Range(P) : [from |-> x, type |-> type] \in D
      PROVE  Active(P, type) \in Seq(D)
  <2> HIDE DEF D
  <2>1. Len(P) \in Nat /\ \A i \in 1 .. Len(P) : P[i] \in Range(P)
    BY <1>1, LenProperties, ElementOfSeq
  <2>2. PICK f : TakesOf(P, type, Len(P), f) /\ Active(P, type) = f[Len(P)]
    BY <2>1, ActiveTakes
  <2>3. \A i \in 1 .. Len(P) : [from |-> P[i], type |-> type] \in D
    BY <1>1, <2>1
  <2> DEFINE N == Len(P)
  <2>4. N \in 0 .. N
    BY <2>1
  <2> HIDE DEF N
  <2>5. \A n \in 0 .. N : f[n] \in Seq(D)
    BY <2>1, <2>2, <2>3, TakesGrow DEF N
  <2> QED
    BY <2>2, <2>4, <2>5 DEF N
<1>2. /\ \A x \in Range(Partitions(j, "equity")) : [from |-> x, type |-> "Equity"] \in D
      /\ \A x \in Range(Partitions(j, "derivative")) : [from |-> x, type |-> "Derivative"] \in D
      /\ [from |-> Entry(j, "equity"), type |-> "Equity"] \in D
      /\ [from |-> Entry(j, "derivative"), type |-> "Derivative"] \in D
  BY DEF Taken
<1>3. ASSUME NEW x, NEW type, [from |-> x, type |-> type] \in D
      PROVE  Active(<< x >>, type) \in Seq(D)
  <2> DEFINE P == << x >>
  <2>1. Range(P) = {x} /\ P \in Seq({x})
    BY DEF Range
  <2> HIDE DEF P
  <2>2. Active(P, type) \in Seq(D)
    <3> HIDE DEF D
    <3> QED
      BY <1>1, <1>3, <2>1
  <2> QED
    BY <2>2 DEF P
<1> HIDE DEF D
<1>4. Active(Partitions(j, "equity"), "Equity") \in Seq(D) /\ Active(Partitions(j, "derivative"), "Derivative") \in Seq(D)
  BY <1>1, <1>2
<1>5. Active(<< Entry(j, "equity") >>, "Equity") \in Seq(D) /\ Active(<< Entry(j, "derivative") >>, "Derivative") \in Seq(D)
  BY <1>2, <1>3
<1>6. \A a, b \in Seq(D) : a \o b \in Seq(D)
  BY ConcatProperties
<1> QED
  BY <1>4, <1>5, <1>6 DEF ListedMarket, ListedEntry, D

\* What the parser made of the configuration.
Parsed(c, j, valid) ==
    \E v : \E m, e \in Seq(Taken(j)) :
        /\ c = Parser(v, m, e)
        /\ Begins(m, ListedMarket(j)) /\ Begins(e, ListedEntry(j))
        /\ v = "true" => m = ListedMarket(j) /\ e = ListedEntry(j)
        /\ v = "true" <=> valid /\ Complete(j)

\* And so it does.
LEMMA ParsedConfig ==
    ASSUME FileTypes
    PROVE  /\ Parsed(parseConfig(document), document.json, document.valid)
           /\ ListedMarket(document.json) \in Seq(Taken(document.json))
           /\ ListedEntry(document.json) \in Seq(Taken(document.json))
<1> DEFINE j == document.json
           D == Taken(j)
           c == parseConfig(document)
           both == contains(j, "market_data") /\ contains(j, "order_entry")
<1>1. \/ \E x \in Configs : document = JsonFile(x)
      \/ document = NoFile \/ document = Torn
  BY DEF FileTypes
<1>2. \A key \in {"equity", "derivative"} : Partitions(j, key) \in Seq(Range(Partitions(j, key)))
  <2>1. CASE \E x \in Configs : document = JsonFile(x)
    <3>1. PICK x \in Configs : document = JsonFile(x)
      BY <2>1
    <3>2. j = x
      BY <3>1 DEF JsonFile
    <3> QED
      BY <3>2, EntryAssumption
  <2>2. CASE document = NoFile \/ document = Torn
    <3>1. j = << >>
      BY <2>2 DEF NoFile, Torn
    <3>2. \A key : ~contains(<< >>, key)
      BY DEF contains
    <3>3. \A key : Partitions(j, key) = << >>
      BY <3>1, <3>2 DEF Partitions, Instrument, ValueOf
    <3>4. \A S : << >> \in Seq(S)
      OBVIOUS
    <3> QED
      BY <3>3, <3>4, Zenon
  <2> QED
    BY <1>1, <2>1, <2>2
<1>3. ListedMarket(j) \in Seq(D) /\ ListedEntry(j) \in Seq(D)
  BY <1>2, ListedIsASequence
<1>4. << >> \in Seq(D) /\ Begins(<< >>, ListedMarket(j)) /\ Begins(<< >>, ListedEntry(j))
  <2>1. << >> \in Seq(D) /\ Len(<< >>) = 0
    OBVIOUS
  <2>2. Len(ListedMarket(j)) \in Nat /\ Len(ListedEntry(j)) \in Nat
    BY <1>3, LenProperties
  <2> QED
    BY <2>1, <2>2 DEF Begins
<1> DEFINE Done(v, m, e) ==
               /\ c = Parser(v, m, e)
               /\ Begins(m, ListedMarket(j)) /\ Begins(e, ListedEntry(j))
               /\ v = "true" => m = ListedMarket(j) /\ e = ListedEntry(j)
               /\ v = "true" <=> document.valid /\ Complete(j)
<1>5. SUFFICES \E v : \E m, e \in Seq(D) : Done(v, m, e)
  BY <1>3 DEF Parsed
<1>6. Complete(j) <=>
               /\ {"client_account", "exchange_info"} \subseteq DOMAIN ValueOf(j, "order_entry")
               /\ ReadsInstrument(j, "equity") /\ ReadsInstrument(j, "derivative")
               /\ ReadsEntry(j, "equity") /\ ReadsEntry(j, "derivative")
  BY CompleteReads
<1>7. CASE ~(document.valid /\ both)
  <2>1. c = Fails(NewParser)
    BY <1>7 DEF parseConfig
  <2>2. Fails(NewParser) = Parser("false", << >>, << >>)
    BY DEF Fails, NewParser, Parser
  <2>3. ~(document.valid /\ Complete(j))
    <3>1. CASE ~document.valid
      BY <3>1
    <3>2. CASE ~contains(j, "order_entry")
      <4>1. ValueOf(j, "order_entry") = << >>
        BY <3>2 DEF ValueOf
      <4>2. ~({"client_account", "exchange_info"} \subseteq DOMAIN << >>)
        OBVIOUS
      <4> QED
        BY <1>6, <4>1, <4>2
    <3>3. CASE ~contains(j, "market_data")
      <4>1. ~contains(<< >>, "equity") /\ ~contains(<< >>, "partitions")
        BY DEF contains
      <4>2. Instrument(j, "equity") = << >>
        BY <3>3, <4>1 DEF Instrument, ValueOf
      <4>3. ~ReadsInstrument(j, "equity")
        BY <4>1, <4>2 DEF ReadsInstrument
      <4> QED
        BY <1>6, <4>3
    <3> QED
      BY <1>7, <3>1, <3>2, <3>3
  <2> HIDE DEF c, D, j
  <2>4. Done("false", << >>, << >>)
    BY <1>4, <2>1, <2>2, <2>3
  <2> HIDE DEF Done
  <2> QED
    BY <1>4, <2>4
<1>8. CASE document.valid /\ both
  <2> DEFINE market == parseInstrumentConfig(parseInstrumentConfig(NewParser, j["market_data"], "Equity", "equity"),
                                             j["market_data"], "Derivative", "derivative")
  <2>1. document.opens
    BY <1>1, <1>8 DEF JsonFile, NoFile, Torn
  <2>2. c = parseOrderEntryConfig(market, j["order_entry"])
    BY <1>8, <2>1 DEF parseConfig
  <2>3. ValueOf(j, "order_entry") = j["order_entry"]
    BY <1>8 DEF ValueOf
  <2> HIDE DEF c, j
  <2>4. PICK v : \E m \in Seq(D) :
               /\ market = Parser(v, m, << >>)
               /\ Begins(m, ListedMarket(j))
               /\ v = "true" => m = ListedMarket(j)
               /\ v = "true" <=> ReadsInstrument(j, "equity") /\ ReadsInstrument(j, "derivative")
    BY <1>2, <1>8, MarketTakes
  <2> HIDE DEF market
  <2>5. PICK m \in Seq(D) :
               /\ market = Parser(v, m, << >>)
               /\ Begins(m, ListedMarket(j))
               /\ v = "true" => m = ListedMarket(j)
               /\ v = "true" <=> ReadsInstrument(j, "equity") /\ ReadsInstrument(j, "derivative")
    BY <2>4
  <2>6. CASE v # "true"
    <3>1. c = market
      <4>1. market.verdict # "true"
        BY <2>5, <2>6 DEF Parser
      <4> QED
        BY <2>2, <4>1, EndedStays
    <3>2. ~Complete(j)
      BY <1>6, <2>5, <2>6
    <3> HIDE DEF D
    <3>3. Done(v, m, << >>)
      BY <1>4, <2>5, <2>6, <3>1, <3>2
    <3> HIDE DEF Done
    <3> QED
      BY <1>4, <3>3
  <2>7. CASE v = "true"
    <3>1. PICK w : \E e \in Seq(D) :
               /\ parseOrderEntryConfig(Parser("true", m, << >>), j["order_entry"]) = Parser(w, m, e)
               /\ Begins(e, ListedEntry(j))
               /\ w = "true" => e = ListedEntry(j)
               /\ w = "true" <=> /\ {"client_account", "exchange_info"} \subseteq DOMAIN j["order_entry"]
                                 /\ ReadsEntry(j, "equity") /\ ReadsEntry(j, "derivative")
      BY <1>8, EntriesTake
    <3>2. PICK e \in Seq(D) :
               /\ parseOrderEntryConfig(Parser("true", m, << >>), j["order_entry"]) = Parser(w, m, e)
               /\ Begins(e, ListedEntry(j))
               /\ w = "true" => e = ListedEntry(j)
               /\ w = "true" <=> /\ {"client_account", "exchange_info"} \subseteq DOMAIN j["order_entry"]
                                 /\ ReadsEntry(j, "equity") /\ ReadsEntry(j, "derivative")
      BY <3>1
    <3>3. c = Parser(w, m, e)
      BY <2>2, <2>5, <2>7, <3>2
    <3>4. w = "true" <=> Complete(j)
      BY <1>6, <2>3, <2>5, <2>7, <3>2
    <3> HIDE DEF D
    <3>5. Done(w, m, e)
      BY <1>8, <2>5, <2>7, <3>2, <3>3, <3>4
    <3> HIDE DEF Done
    <3> QED
      BY <3>5
  <2> QED
    BY <2>6, <2>7
<1> QED
  BY <1>7, <1>8

\* What is said of a configuration that was parsed.
LEMMA ParsedIsTaken ==
    ASSUME NEW c, NEW j, NEW valid, Parsed(c, j, valid),
           ListedMarket(j) \in Seq(Taken(j)), ListedEntry(j) \in Seq(Taken(j))
    PROVE  /\ c.verdict = "true" <=> valid /\ Complete(j)
           /\ c.verdict = "true" => c.market = ListedMarket(j) /\ c.entry = ListedEntry(j)
           /\ IsPrefix(c.market, ListedMarket(j)) /\ IsPrefix(c.entry, ListedEntry(j))
           /\ Len(c.entry) \in Nat
<1>1. PICK v : \E m, e \in Seq(Taken(j)) :
        /\ c = Parser(v, m, e)
        /\ Begins(m, ListedMarket(j)) /\ Begins(e, ListedEntry(j))
        /\ v = "true" => m = ListedMarket(j) /\ e = ListedEntry(j)
        /\ v = "true" <=> valid /\ Complete(j)
  BY Zenon DEF Parsed
<1>2. PICK m, e \in Seq(Taken(j)) :
        /\ c = Parser(v, m, e)
        /\ Begins(m, ListedMarket(j)) /\ Begins(e, ListedEntry(j))
        /\ v = "true" => m = ListedMarket(j) /\ e = ListedEntry(j)
        /\ v = "true" <=> valid /\ Complete(j)
  BY <1>1
<1>3. c.verdict = v /\ c.market = m /\ c.entry = e
  BY <1>2 DEF Parser
<1>4. IsPrefix(m, ListedMarket(j)) /\ IsPrefix(e, ListedEntry(j)) /\ Len(e) \in Nat
  BY <1>2, BeginsIsPrefix, LenProperties
<1>5. v = "true" <=> valid /\ Complete(j)
  BY <1>2
<1> QED
  BY <1>2, <1>3, <1>4, <1>5, Zenon

\* The partitions read from a configuration are a sequence.
LEMMA EntryIsASequence ==
    ASSUME FileTypes
    PROVE  Len(parseConfig(document).entry) \in Nat
<1> DEFINE c == parseConfig(document)
<1>1. /\ Parsed(c, document.json, document.valid)
      /\ ListedMarket(document.json) \in Seq(Taken(document.json))
      /\ ListedEntry(document.json) \in Seq(Taken(document.json))
  BY ParsedConfig
<1> HIDE DEF c
<1>2. Len(c.entry) \in Nat
  BY <1>1, ParsedIsTaken
<1> QED
  BY <1>2 DEF c

----------------------------------------------------------------------------
(* Messages, the table and the tokens. *)

\* The fields of a response.
LEMMA ResponseFields ==
    ASSUME NEW m \in Response
    PROVE  /\ m.type \in {"Accepted", "Executed", "Replaced", "Rejected", "Canceled"} => m.token \in Token
           /\ m.type \in {"Accepted", "Executed"} => m.quantity \in OrderQuantity
           /\ m.type = "Rejected" => m = [type |-> "Rejected", token |-> m.token]
<1>1. CASE m \in OrderAccepted \/ m \in OrderExecuted
  BY <1>1 DEF OrderAccepted, OrderExecuted
<1>2. CASE m \in OrderReplaced \/ m \in OrderCanceled
  BY <1>2 DEF OrderReplaced, OrderCanceled
<1>3. CASE m \in OrderRejected
  BY <1>3 DEF OrderRejected
<1>4. CASE m \in LoginAccepted \/ m \in LoginRejected \/ m \in ServerHeartbeat \/ m \in EndOfSession
  BY <1>4 DEF LoginAccepted, LoginRejected, ServerHeartbeat, EndOfSession
<1> QED
  BY <1>1, <1>2, <1>3, <1>4 DEF Response

\* The fields of a request.
LEMMA RequestFields ==
    ASSUME NEW r \in Request
    PROVE  /\ r.type \in {"Enter", "Replace", "Cancel"} => r.token \in Token
           /\ r.type \in {"Login", "Enter", "Replace", "Cancel", "ClientHeartbeat"}
<1>1. CASE r \in EnterOrder
  BY <1>1 DEF EnterOrder
<1>2. CASE r \in ReplaceOrder
  BY <1>2 DEF ReplaceOrder
<1>3. CASE r \in CancelOrder
  BY <1>3 DEF CancelOrder
<1>4. CASE r \in LoginRequest \/ r \in ClientHeartbeat
  BY <1>4 DEF LoginRequest, ClientHeartbeat
<1> QED
  BY <1>1, <1>2, <1>3, <1>4 DEF Request

\* The number of a token is an index, or lies beyond the table.
LEMMA IndexType ==
    ASSUME NEW t \in Token
    PROVE  /\ Index(t) \in Int
           /\ withinRange(Index(t)) => Index(t) \in 0 .. OrdersSize - 1
BY ParseType, ManagerAssumption DEF Index, withinRange

\* What a response does to the table: only the entry of its token changes, none becomes
\* valid again, and a rejected one is invalid.
TableStep(o1, o2, t) ==
    /\ o2 \in Table
    /\ \A n \in 0 .. OrdersSize - 1 : n # Index(t) => o2[n] = o1[n]
    /\ \A n \in 0 .. OrdersSize - 1 : ~o1[n].is_valid => ~o2[n].is_valid

\* An entry replaced by another one that is valid only if the old one was.
LEMMA EntryReplaced ==
    ASSUME NEW o \in Table, NEW t \in Token, withinRange(Index(t)),
           NEW e \in [quantity : OrderQuantity, is_valid : BOOLEAN],
           ~o[Index(t)].is_valid => ~e.is_valid
    PROVE  TableStep(o, [o EXCEPT ![Index(t)] = e], t) /\ [o EXCEPT ![Index(t)] = e][Index(t)] = e
<1> DEFINE n == Index(t)
<1>1. n \in 0 .. OrdersSize - 1
  BY IndexType
<1> HIDE DEF n
<1>2. [o EXCEPT ![n] = e] \in Table /\ [o EXCEPT ![n] = e][n] = e
  BY <1>1 DEF Table
<1>3. \A k \in 0 .. OrdersSize - 1 : k # n => [o EXCEPT ![n] = e][k] = o[k]
  BY <1>1 DEF Table
<1>4. \A k \in 0 .. OrdersSize - 1 : ~o[k].is_valid => ~[o EXCEPT ![n] = e][k].is_valid
  <2> SUFFICES ASSUME NEW k \in 0 .. OrdersSize - 1, ~o[k].is_valid
               PROVE  ~[o EXCEPT ![n] = e][k].is_valid
    OBVIOUS
  <2>1. CASE k = n
    BY <1>2, <2>1 DEF n
  <2>2. CASE k # n
    BY <1>3, <2>2
  <2> QED
    BY <2>1, <2>2
<1> QED
  BY <1>2, <1>3, <1>4 DEF TableStep, n

\* A table that no entry of is changed.
LEMMA TableStays ==
    ASSUME NEW o \in Table, NEW t
    PROVE  TableStep(o, o, t)
BY DEF TableStep

\* Each of the three calls is such a step.
LEMMA CallsStep ==
    ASSUME NEW o \in Table, NEW t \in Token, NEW qty \in OrderQuantity
    PROVE  /\ TableStep(o, orderAccepted(o, t, qty), t)
           /\ TableStep(o, orderExecuted(o, t, qty), t)
           /\ TableStep(o, orderDeleted(o, t), t)
           /\ withinRange(Index(t)) => ~orderDeleted(o, t)[Index(t)].is_valid
<1> DEFINE n == Index(t)
           left_ == (o[n].quantity - qty) % QtyMod
<1>1. CASE withinRange(n)
  <2>1. /\ orderAccepted(o, t, qty) = [o EXCEPT ![n] = [o[n] EXCEPT !.quantity = qty]]
        /\ orderExecuted(o, t, qty)
               = [o EXCEPT ![n] = [quantity |-> left_, is_valid |-> o[n].is_valid /\ left_ # 0]]
        /\ orderDeleted(o, t) = [o EXCEPT ![n] = [o[n] EXCEPT !.is_valid = FALSE]]
    BY <1>1 DEF orderAccepted, orderExecuted, orderDeleted, Update, Index
  <2>2. n \in 0 .. OrdersSize - 1
    BY <1>1, IndexType
  <2> HIDE DEF n
  <2>3. o[n] \in [quantity : OrderQuantity, is_valid : BOOLEAN]
    BY <2>2 DEF Table
  <2>4. left_ \in OrderQuantity
    BY <2>3, ManagerAssumption DEF OrderQuantity
  <2> HIDE DEF left_
  <2> DEFINE a == [o[n] EXCEPT !.quantity = qty]
             x == [quantity |-> left_, is_valid |-> o[n].is_valid /\ left_ # 0]
             d == [o[n] EXCEPT !.is_valid = FALSE]
  <2>5. a \in [quantity : OrderQuantity, is_valid : BOOLEAN] /\ a.is_valid = o[n].is_valid
    BY <2>3
  <2>6. x \in [quantity : OrderQuantity, is_valid : BOOLEAN] /\ (~o[n].is_valid => ~x.is_valid)
    BY <2>3, <2>4
  <2>7. d \in [quantity : OrderQuantity, is_valid : BOOLEAN] /\ ~d.is_valid
    BY <2>3
  <2> HIDE DEF a, x, d
  <2>8. TableStep(o, [o EXCEPT ![n] = a], t)
    BY <1>1, <2>5, EntryReplaced DEF n
  <2>9. TableStep(o, [o EXCEPT ![n] = x], t)
    BY <1>1, <2>6, EntryReplaced DEF n
  <2>10. TableStep(o, [o EXCEPT ![n] = d], t) /\ [o EXCEPT ![n] = d][n] = d
    BY <1>1, <2>7, EntryReplaced DEF n
  <2> QED
    BY <2>1, <2>7, <2>8, <2>9, <2>10 DEF n, a, x, d
<1>2. CASE ~withinRange(n)
  <2>1. orderAccepted(o, t, qty) = o /\ orderExecuted(o, t, qty) = o /\ orderDeleted(o, t) = o
    BY <1>2 DEF orderAccepted, orderExecuted, orderDeleted, Update, Index
  <2> QED
    BY <1>2, <2>1, TableStays
<1> QED
  BY <1>1, <1>2

\* The table as it is constructed.
LEMMA NewTable == NoOrders \in Table
<1>1. 0 \in OrderQuantity
  BY ManagerAssumption DEF OrderQuantity
<1>2. [quantity |-> 0, is_valid |-> TRUE] \in [quantity : OrderQuantity, is_valid : BOOLEAN]
  BY <1>1
<1> QED
  BY <1>2 DEF NoOrders, Table

\* Requests and responses as they are put together.
LEMMA NewMessages ==
    ASSUME NEW s \in Token, NEW t \in Token, NEW qty \in 1 .. OrderQty
    PROVE  /\ prepareEnterOrderBuffer(t) \in Request
           /\ prepareReplaceOrderBuffer(s, t) \in Request
           /\ prepareCancelOrderBuffer(t) \in Request
           /\ [type |-> "Login"] \in Request /\ [type |-> "ClientHeartbeat"] \in Request
           /\ [type |-> "Accepted", token |-> t, quantity |-> OrderQty] \in Response
           /\ [type |-> "Executed", token |-> t, quantity |-> qty] \in Response
           /\ [type |-> "Replaced", token |-> t, previous |-> s] \in Response
           /\ [type |-> "Rejected", token |-> t] \in Response
           /\ [type |-> "Canceled", token |-> t] \in Response
           /\ \A type \in {"LoginAccepted", "LoginRejected", "ServerHeartbeat", "EndOfSession"} :
                  [type |-> type] \in Response
<1>1. OrderQty \in OrderQuantity /\ qty \in OrderQuantity /\ 0 \in OrderQuantity
  BY EntryAssumption, ManagerAssumption DEF OrderQuantity
<1>2. prepareEnterOrderBuffer(t) \in EnterOrder
  BY <1>1 DEF prepareEnterOrderBuffer, EnterOrder
<1>3. prepareReplaceOrderBuffer(s, t) \in ReplaceOrder
  BY <1>1 DEF prepareReplaceOrderBuffer, ReplaceOrder
<1>4. prepareCancelOrderBuffer(t) \in CancelOrder
  BY DEF prepareCancelOrderBuffer, CancelOrder
<1>5. [type |-> "Login"] \in LoginRequest /\ [type |-> "ClientHeartbeat"] \in ClientHeartbeat
  BY DEF LoginRequest, ClientHeartbeat
<1>6. /\ [type |-> "Accepted", token |-> t, quantity |-> OrderQty] \in OrderAccepted
      /\ [type |-> "Executed", token |-> t, quantity |-> qty] \in OrderExecuted
  BY <1>1 DEF OrderAccepted, OrderExecuted
<1>7. [type |-> "Replaced", token |-> t, previous |-> s] \in OrderReplaced
  BY DEF OrderReplaced
<1>8. [type |-> "Rejected", token |-> t] \in OrderRejected /\ [type |-> "Canceled", token |-> t] \in OrderCanceled
  BY DEF OrderRejected, OrderCanceled
<1>9. /\ [type |-> "LoginAccepted"] \in LoginAccepted /\ [type |-> "LoginRejected"] \in LoginRejected
      /\ [type |-> "ServerHeartbeat"] \in ServerHeartbeat /\ [type |-> "EndOfSession"] \in EndOfSession
  BY DEF LoginAccepted, LoginRejected, ServerHeartbeat, EndOfSession
<1> QED
  BY <1>2, <1>3, <1>4, <1>5, <1>6, <1>7, <1>8, <1>9 DEF Request, Response

----------------------------------------------------------------------------
(* What the steps have in common. *)

\* A new token is issued, or none.
Issues == token' = nextToken(token) /\ issued' = Append(issued, << runs, token' >>)
IssuesNothing == token' = token /\ issued' = issued

\* The client handles the oldest response, or trades on its own account.
ClientStep ==
    /\ running = "logged in"
    /\ state' \in {"Disconnected", "Continuous"}
    /\ Issues \/ IssuesNothing
    /\ pending' \in Seq(Token \X Token)
    /\ \/ out' = out
       \/ \E r \in Request :
              /\ out' = Append(out, r)
              /\ r.type \in {"Enter", "Replace", "Cancel"} =>
                     \/ Issues /\ r.token = token'
                     \/ /\ r.type = "Cancel"
                        /\ in # << >> /\ Head(in).type = "Replaced" /\ r.token = Head(in).token
    /\ \/ in' = in /\ orders' = orders
       \/ /\ in # << >> /\ in' = Tail(in)
          /\ \/ Head(in).type # "Rejected" /\ orders' = orders
             \/ /\ Head(in).type \in {"Accepted", "Executed", "Rejected"}
                /\ TableStep(orders, orders', Head(in).token)
                /\ Head(in).type = "Rejected" /\ withinRange(Index(Head(in).token)) =>
                       ~orders'[Index(Head(in).token)].is_valid
    /\ UNCHANGED << running, other, unsaved, file, left, kept, document, open, ended, runs >>

\* sendEnterOrder is part of one.
LEMMA SendsEnter ==
    ASSUME Types, sendEnterOrder
    PROVE  /\ Issues
           /\ \E r \in Request : out' = Append(out, r) /\ r.token = token'
           /\ pending' = pending
<1>1. token' \in Token
  BY NextTokenType DEF sendEnterOrder, Types, ProcessTypes
<1>2. 1 \in 1 .. OrderQty
  BY EntryAssumption
<1>3. prepareEnterOrderBuffer(token') \in Request
  BY <1>1, <1>2, NewMessages
<1>4. prepareEnterOrderBuffer(token').token = token'
  BY DEF prepareEnterOrderBuffer
<1> QED
  BY <1>3, <1>4 DEF sendEnterOrder, Issues

\* handleMessage is one, whatever the message.
LEMMA HandleIsStep ==
    ASSUME Types, handleMessage
    PROVE  ClientStep
<1> DEFINE m == Head(in)
<1>1. /\ running = "logged in" /\ in # << >> /\ in' = Tail(in)
      /\ UNCHANGED << running, other, unsaved, file, left, kept, document, open, ended, runs >>
  BY DEF handleMessage, exchangeVars, rest, processVars
<1>2. m \in Response
  <2>1. in \in Seq(Response)
    BY DEF Types, SessionTypes
  <2> QED
    BY <1>1, <2>1, HeadTailProperties DEF m
<1>3. /\ orders \in Table /\ token \in Token /\ state \in {"Disconnected", "Continuous"}
      /\ pending \in Seq(Token \X Token) /\ 1 \in 1 .. OrderQty
  <2>1. 1 \in 1 .. OrderQty
    BY EntryAssumption
  <2> QED
    BY <2>1 DEF Types, ProcessTypes
<1>4. nextToken(token) \in Token
  BY <1>3, NextTokenType
<1> HIDE DEF m
<1>5. CASE onLoginAccepted(m)
  <2>1. state' = "Continuous" /\ orders' = orders /\ m.type # "Rejected"
    BY <1>5 DEF onLoginAccepted
  <2>2. CASE sendEnterOrder
    BY <1>1, <1>3, <2>1, <2>2, SendsEnter DEF ClientStep, m
  <2>3. CASE UNCHANGED << token, issued, entered, out, pending >>
    BY <1>1, <1>3, <2>1, <2>3 DEF ClientStep, IssuesNothing, m
  <2> QED
    BY <1>5, <2>2, <2>3 DEF onLoginAccepted
<1>6. CASE onLoginRejected(m) \/ onOrderCanceled(m) \/ onEndOfSession(m)
  <2>1. m.type # "Rejected" /\ UNCHANGED << state, token, orders, pending, out, issued >>
    BY <1>6 DEF onLoginRejected, onOrderCanceled, onEndOfSession
  <2> QED
    BY <1>1, <1>3, <2>1 DEF ClientStep, IssuesNothing, m
<1>7. CASE onOrderAccepted(m)
  <2>1. m.type = "Accepted" /\ m.token \in Token /\ m.quantity \in OrderQuantity /\ state' = state
    BY <1>2, <1>7, ResponseFields DEF onOrderAccepted
  <2>2. TableStep(orders, orders', m.token)
    BY <1>3, <1>7, <2>1, CallsStep DEF onOrderAccepted
  <2>3. Issues /\ pending' = Append(pending, << m.token, token' >>)
    BY <1>7 DEF onOrderAccepted, sendReplaceOrder, pendingReplace, Issues
  <2>4. token' \in Token /\ pending' \in Seq(Token \X Token)
    BY <1>3, <1>4, <2>1, <2>3 DEF Issues
  <2>5. prepareReplaceOrderBuffer(m.token, token') \in Request
    BY <1>3, <2>1, <2>4, NewMessages
  <2>6. prepareReplaceOrderBuffer(m.token, token').token = token'
    BY DEF prepareReplaceOrderBuffer
  <2>7. \E r \in Request : out' = Append(out, r) /\ r.token = token'
    BY <1>7, <2>5, <2>6 DEF onOrderAccepted, sendReplaceOrder
  <2> QED
    BY <1>1, <1>3, <2>1, <2>2, <2>3, <2>4, <2>7 DEF ClientStep, m
<1>8. CASE onOrderExecuted(m)
  <2>1. /\ m.type = "Executed" /\ m.token \in Token /\ m.quantity \in OrderQuantity
        /\ UNCHANGED << state, token, pending, out, issued >>
    BY <1>2, <1>8, ResponseFields DEF onOrderExecuted
  <2>2. TableStep(orders, orders', m.token)
    BY <1>3, <1>8, <2>1, CallsStep DEF onOrderExecuted
  <2> QED
    BY <1>1, <1>3, <2>1, <2>2 DEF ClientStep, IssuesNothing, m
<1>9. CASE onOrderReplaced(m)
  <2>1. /\ m.type = "Replaced" /\ m.token \in Token /\ UNCHANGED << state, token, orders, pending, issued >>
        /\ out' = Append(out, prepareCancelOrderBuffer(m.token))
    BY <1>2, <1>9, ResponseFields DEF onOrderReplaced, sendCancelOrder
  <2>2. /\ prepareCancelOrderBuffer(m.token) \in Request
        /\ prepareCancelOrderBuffer(m.token).type = "Cancel" /\ prepareCancelOrderBuffer(m.token).token = m.token
    BY <1>3, <2>1, NewMessages DEF prepareCancelOrderBuffer
  <2> QED
    BY <1>1, <1>3, <2>1, <2>2 DEF ClientStep, IssuesNothing, m
<1>10. CASE onOrderRejected(m)
  <2>1. m.type = "Rejected" /\ m.token \in Token /\ UNCHANGED << state, token, pending, out, issued >>
    BY <1>2, <1>10, ResponseFields DEF onOrderRejected
  <2>2. 0 \in OrderQuantity
    BY ManagerAssumption DEF OrderQuantity
  <2>3. /\ TableStep(orders, orders', m.token)
        /\ withinRange(Index(m.token)) => ~orders'[Index(m.token)].is_valid
    BY <1>3, <1>10, <2>1, <2>2, CallsStep DEF onOrderRejected
  <2> QED
    BY <1>1, <1>3, <2>1, <2>3 DEF ClientStep, IssuesNothing, m
<1>11. CASE onServerHeartbeat(m)
  <2>1. /\ m.type # "Rejected" /\ UNCHANGED << state, token, orders, pending, issued >>
        /\ out' = Append(out, [type |-> "ClientHeartbeat"])
    BY <1>11 DEF onServerHeartbeat
  <2>2. [type |-> "ClientHeartbeat"] \in Request
    BY <1>3, NewMessages
  <2>3. [type |-> "ClientHeartbeat"].type \notin {"Enter", "Replace", "Cancel"}
    OBVIOUS
  <2> QED
    BY <1>1, <1>3, <2>1, <2>2, <2>3 DEF ClientStep, IssuesNothing, m
<1> QED
  BY <1>5, <1>6, <1>7, <1>8, <1>9, <1>10, <1>11 DEF handleMessage, m

\* So is Trade.
LEMMA TradeIsStep ==
    ASSUME Types, Trade
    PROVE  ClientStep
<1>1. /\ running = "logged in" /\ sendEnterOrder /\ in' = in /\ orders' = orders /\ state' = state
      /\ UNCHANGED << running, other, unsaved, file, left, kept, document, open, ended, runs >>
  BY DEF Trade, exchangeVars, rest, processVars
<1>2. state \in {"Disconnected", "Continuous"} /\ pending \in Seq(Token \X Token)
  BY DEF Types, ProcessTypes
<1> QED
  BY <1>1, <1>2, SendsEnter DEF ClientStep

\* The exchange answers, executes or sends on its own account.
ExchangeStep ==
    /\ out' = out \/ (out # << >> /\ out' = Tail(out))
    /\ \/ in' = in
       \/ \E m \in Response :
              /\ in' = Append(in, m)
              /\ m.type \in {"Accepted", "Executed", "Replaced", "Rejected"} => m.token \in Mine
    /\ DOMAIN open' \subseteq Mine
    /\ \A t \in DOMAIN open' : open'[t] \in [left : 1 .. OrderQty, original : Token]
    /\ DOMAIN ended' \subseteq Token
    /\ \A t \in DOMAIN ended' :
           ended'[t] = "rejected" =>
               \/ t \in DOMAIN ended /\ ended[t] = "rejected"
               \/ in' = Append(in, [type |-> "Rejected", token |-> t])
    /\ UNCHANGED << state, token, orders, pending, running, other, unsaved, file, left, kept, document,
                    issued, runs >>

\* Functions with a key more and with one less.
LEMMA WithWithout ==
    ASSUME NEW f, NEW k, NEW v
    PROVE  /\ DOMAIN With(f, k, v) = DOMAIN f \cup {k}
           /\ With(f, k, v)[k] = v
           /\ \A x \in DOMAIN f : x # k => With(f, k, v)[x] = f[x]
           /\ DOMAIN Without(f, k) = DOMAIN f \ {k}
           /\ \A x \in DOMAIN f : x # k => Without(f, k)[x] = f[x]
BY DEF With, Without

\* The orders the exchange may have open.
OpenOK(o) == DOMAIN o \subseteq Mine /\ \A t \in DOMAIN o : o[t] \in [left : 1 .. OrderQty, original : Token]

\* One more, one less, or another one in its place.
LEMMA OpenChanges ==
    ASSUME NEW o, OpenOK(o), NEW k, NEW v \in [left : 1 .. OrderQty, original : Token]
    PROVE  OpenOK(Without(o, k)) /\ (k \in Mine => OpenOK(With(o, k, v)))
<1> DEFINE w == Without(o, k)
           a == With(o, k, v)
<1>1. DOMAIN w = DOMAIN o \ {k} /\ \A t \in DOMAIN o : t # k => w[t] = o[t]
  BY WithWithout, Zenon
<1>2. DOMAIN a = DOMAIN o \cup {k} /\ a[k] = v /\ \A t \in DOMAIN o : t # k => a[t] = o[t]
  BY DEF With
<1> HIDE DEF w, a
<1>3. OpenOK(w)
  <2>1. ASSUME NEW t \in DOMAIN w
        PROVE  t \in Mine /\ w[t] \in [left : 1 .. OrderQty, original : Token]
    <3>1. t \in DOMAIN o /\ w[t] = o[t]
      BY <1>1, <2>1
    <3> QED
      BY <3>1 DEF OpenOK
  <2> QED
    BY <2>1 DEF OpenOK
<1>4. ASSUME k \in Mine PROVE OpenOK(a)
  <2>1. ASSUME NEW t \in DOMAIN a
        PROVE  t \in Mine /\ a[t] \in [left : 1 .. OrderQty, original : Token]
    <3>1. CASE t = k
      BY <1>2, <1>4, <3>1
    <3>2. CASE t # k
      BY <1>2, <3>2 DEF OpenOK
    <3> QED
      BY <3>1, <3>2
  <2> QED
    BY <2>1 DEF OpenOK
<1> QED
  BY <1>3, <1>4 DEF w, a

\* How orders end: rejected only with a message that says so.
EndOK(e, m) ==
    /\ DOMAIN e \subseteq Token
    /\ \A t \in DOMAIN e :
           e[t] = "rejected" =>
               (t \in DOMAIN ended /\ ended[t] = "rejected") \/ m = [type |-> "Rejected", token |-> t]

\* One order more that has ended.
LEMMA EndChanges ==
    ASSUME DOMAIN ended \subseteq Token, NEW k \in Token, NEW m, NEW how,
           how = "rejected" => m = [type |-> "Rejected", token |-> k]
    PROVE  EndOK(ended, m) /\ EndOK(With(ended, k, how), m)
<1>1. EndOK(ended, m)
  BY DEF EndOK
<1> DEFINE e == With(ended, k, how)
<1>2. DOMAIN e = DOMAIN ended \cup {k} /\ e[k] = how /\ \A t \in DOMAIN ended : t # k => e[t] = ended[t]
  BY DEF With
<1> HIDE DEF e
<1>3. ASSUME NEW t \in DOMAIN e, e[t] = "rejected"
      PROVE  (t \in DOMAIN ended /\ ended[t] = "rejected") \/ m = [type |-> "Rejected", token |-> t]
  <2>1. CASE t = k
    BY <1>2, <1>3, <2>1
  <2>2. CASE t # k
    BY <1>2, <1>3, <2>2
  <2> QED
    BY <2>1, <2>2
<1>4. DOMAIN e \subseteq Token
  BY <1>2
<1>5. EndOK(e, m)
  BY <1>3, <1>4 DEF EndOK
<1> QED
  BY <1>1, <1>5 DEF e

\* A reply is what the exchange may do.
LEMMA ReplyIsStep ==
    ASSUME NEW m \in Response, NEW o, NEW e, Reply(m, o, e), OpenOK(o), EndOK(e, m),
           m.type \in {"Accepted", "Executed", "Replaced", "Rejected"} => m.token \in Mine,
           out' = out \/ (out # << >> /\ out' = Tail(out)),
           UNCHANGED << state, token, orders, pending, running, other, unsaved, file, left, kept, document,
                        issued, runs >>
    PROVE  ExchangeStep
<1>1. in' = Append(in, m) /\ open' = o /\ ended' = e
  BY DEF Reply
<1>2. \A t \in DOMAIN e :
          e[t] = "rejected" =>
              \/ t \in DOMAIN ended /\ ended[t] = "rejected"
              \/ in' = Append(in, [type |-> "Rejected", token |-> t])
  BY <1>1 DEF EndOK
<1> QED
  BY <1>1, <1>2 DEF ExchangeStep, OpenOK, EndOK

\* Respond, whatever the request.
LEMMA RespondIsStep ==
    ASSUME Types, AboutMine, Respond
    PROVE  ExchangeStep
<1> DEFINE r == Head(out)
<1>1. /\ out # << >> /\ out' = Tail(out)
      /\ UNCHANGED << state, token, orders, pending, running, other, unsaved, file, left, kept, document,
                      issued, runs >>
  BY DEF Respond, memberVars, rest, processVars
<1>2. out' = out \/ (out # << >> /\ out' = Tail(out))
  BY <1>1
<1>3. r \in Request /\ r = out[1] /\ 1 \in 1 .. Len(out)
  <2>1. out \in Seq(Request)
    BY DEF Types, SessionTypes
  <2>2. Head(out) \in Request /\ Head(out) = out[1]
    BY <1>1, <2>1, HeadTailProperties
  <2>3. 1 \in 1 .. Len(out)
    BY <1>1, <2>1
  <2> QED
    BY <2>2, <2>3
<1>4. r.type \in {"Enter", "Replace", "Cancel"} => r.token \in Mine /\ r.token \in Token
  BY <1>3, RequestFields DEF AboutMine
<1>5. OpenOK(open) /\ DOMAIN ended \subseteq Token /\ DOMAIN open \subseteq Token
  BY DEF OpenOK, Types, SessionTypes, AboutMine
<1>6. OrderQty \in 1 .. OrderQty
  BY EntryAssumption
<1> HIDE DEF r
<1>7. CASE \E verdict \in {"LoginAccepted", "LoginRejected"} : Reply([type |-> verdict], open, ended)
  <2>1. PICK verdict \in {"LoginAccepted", "LoginRejected"} : Reply([type |-> verdict], open, ended)
    BY <1>7
  <2>2. token \in Token
    BY DEF Types, ProcessTypes
  <2>3. /\ [type |-> verdict] \in Response
        /\ [type |-> verdict].type \notin {"Accepted", "Executed", "Replaced", "Rejected"}
    BY <1>6, <2>2, NewMessages
  <2>4. EndOK(ended, [type |-> verdict])
    BY <1>5 DEF EndOK
  <2> HIDE DEF Reply
  <2> QED
    BY <1>1, <1>2, <1>5, <2>1, <2>3, <2>4, ReplyIsStep
<1>8. CASE /\ r.type = "Enter"
           /\ Reply([type |-> "Accepted", token |-> r.token, quantity |-> OrderQty],
                    With(open, r.token, [left |-> OrderQty, original |-> r.token]), ended)
  <2> DEFINE m == [type |-> "Accepted", token |-> r.token, quantity |-> OrderQty]
             v == [left |-> OrderQty, original |-> r.token]
  <2>1. m \in Response /\ m.token \in Mine /\ v \in [left : 1 .. OrderQty, original : Token]
    BY <1>4, <1>6, <1>8, NewMessages
  <2>2. EndOK(ended, m)
    BY <1>5 DEF EndOK
  <2>3. OpenOK(With(open, r.token, v))
    BY <1>4, <1>5, <1>8, <2>1, OpenChanges
  <2> HIDE DEF m, v
  <2> QED
    BY <1>1, <1>2, <1>8, <2>1, <2>2, <2>3, ReplyIsStep DEF m, v
<1>9. CASE /\ r.type = "Enter"
           /\ Reply([type |-> "Rejected", token |-> r.token], open, With(ended, r.token, "rejected"))
  <2> DEFINE m == [type |-> "Rejected", token |-> r.token]
  <2>1. m \in Response /\ m.token \in Mine
    BY <1>4, <1>6, <1>9, NewMessages
  <2>2. EndOK(With(ended, r.token, "rejected"), m)
    BY <1>4, <1>5, <1>9, EndChanges
  <2> HIDE DEF m
  <2> QED
    BY <1>1, <1>2, <1>5, <1>9, <2>1, <2>2, ReplyIsStep DEF m
<1>10. CASE /\ r.type = "Replace" /\ r.original \in DOMAIN open
            /\ Reply([type |-> "Replaced", token |-> r.token, previous |-> r.original],
                     With(Without(open, r.original), r.token, open[r.original]), ended)
  <2> DEFINE m == [type |-> "Replaced", token |-> r.token, previous |-> r.original]
             v == open[r.original]
  <2>1. r.original \in Token /\ v \in [left : 1 .. OrderQty, original : Token]
    BY <1>5, <1>10 DEF OpenOK
  <2>2. m \in Response /\ m.token \in Mine
    BY <1>4, <1>6, <1>10, <2>1, NewMessages
  <2>3. EndOK(ended, m)
    BY <1>5 DEF EndOK
  <2> HIDE DEF m, v
  <2>4. OpenOK(Without(open, r.original))
    BY <1>5, <2>1, OpenChanges
  <2>5. OpenOK(With(Without(open, r.original), r.token, v))
    BY <1>4, <1>10, <2>1, <2>4, OpenChanges
  <2> QED
    BY <1>1, <1>2, <1>10, <2>2, <2>3, <2>5, ReplyIsStep DEF m, v
<1>11. CASE /\ r.type = "Replace"
            /\ Reply([type |-> "Rejected", token |-> r.token], open, ended)
  <2> DEFINE m == [type |-> "Rejected", token |-> r.token]
  <2>1. m \in Response /\ m.token \in Mine
    BY <1>4, <1>6, <1>11, NewMessages
  <2>2. EndOK(ended, m)
    BY <1>5 DEF EndOK
  <2> HIDE DEF m
  <2> QED
    BY <1>1, <1>2, <1>5, <1>11, <2>1, <2>2, ReplyIsStep DEF m
<1>12. CASE /\ r.type = "Cancel" /\ r.token \in DOMAIN open
            /\ Reply([type |-> "Canceled", token |-> r.token],
                     Without(open, r.token), With(ended, open[r.token].original, "canceled"))
  <2> DEFINE m == [type |-> "Canceled", token |-> r.token]
  <2>1. m \in Response /\ m.type \notin {"Accepted", "Executed", "Replaced", "Rejected"}
    BY <1>4, <1>6, <1>12, NewMessages
  <2>2. open[r.token] \in [left : 1 .. OrderQty, original : Token]
    BY <1>5, <1>12 DEF OpenOK
  <2>3. open[r.token].original \in Token
    BY <2>2
  <2>4. EndOK(With(ended, open[r.token].original, "canceled"), m)
    BY <1>5, <2>3, EndChanges
  <2>5. OpenOK(Without(open, r.token))
    BY <1>5, <2>2, OpenChanges
  <2> HIDE DEF m
  <2> QED
    BY <1>1, <1>2, <1>12, <2>1, <2>4, <2>5, ReplyIsStep DEF m
<1>13. CASE UNCHANGED << in, exchangeVars >>
  <2>1. in' = in /\ open' = open /\ ended' = ended
    BY <1>13 DEF exchangeVars
  <2> QED
    BY <1>1, <1>2, <1>5, <2>1 DEF ExchangeStep, OpenOK
<1> QED
  BY <1>7, <1>8, <1>9, <1>10, <1>11, <1>12, <1>13 DEF Respond, r

\* An execution.
LEMMA TradesIsStep ==
    ASSUME Types, AboutMine, NEW t \in DOMAIN open, NEW qty \in 1 .. OrderQty, Trades(t, qty)
    PROVE  ExchangeStep
<1> DEFINE m == [type |-> "Executed", token |-> t, quantity |-> qty]
           v == [open[t] EXCEPT !.left = @ - qty]
<1>1. /\ out' = out /\ qty <= open[t].left
      /\ UNCHANGED << state, token, orders, pending, running, other, unsaved, file, left, kept, document,
                      issued, runs >>
  BY DEF Trades, memberVars, rest, processVars
<1>2. OpenOK(open) /\ DOMAIN ended \subseteq Token /\ t \in Token /\ t \in Mine
  BY DEF OpenOK, Types, SessionTypes, AboutMine
<1>3. open[t] \in [left : 1 .. OrderQty, original : Token] /\ open[t].original \in Token
  BY <1>2 DEF OpenOK
<1>4. m \in Response /\ m.token \in Mine
  BY <1>2, NewMessages
<1>5. CASE Reply(m, Without(open, t), With(ended, open[t].original, "executed"))
  <2>1. EndOK(With(ended, open[t].original, "executed"), m)
    BY <1>2, <1>3, EndChanges
  <2>2. OpenOK(Without(open, t))
    BY <1>2, <1>3, OpenChanges
  <2> HIDE DEF m
  <2> QED
    BY <1>1, <1>4, <1>5, <2>1, <2>2, ReplyIsStep
<1>6. CASE qty # open[t].left /\ Reply(m, [open EXCEPT ![t].left = @ - qty], ended)
  <2>1. v \in [left : 1 .. OrderQty, original : Token]
    <3> DEFINE rest_ == open[t].left - qty
    <3>1. rest_ \in 1 .. OrderQty
      <4>1. open[t].left \in 1 .. OrderQty
        BY <1>3
      <4> QED
        BY <1>1, <1>6, <4>1, EntryAssumption
    <3>2. v = [open[t] EXCEPT !.left = rest_]
      OBVIOUS
    <3> HIDE DEF rest_
    <3> QED
      BY <1>3, <3>1, <3>2
  <2>2. /\ DOMAIN [open EXCEPT ![t].left = @ - qty] = DOMAIN open
        /\ [open EXCEPT ![t].left = @ - qty][t] = v
        /\ \A x \in DOMAIN open : x # t => [open EXCEPT ![t].left = @ - qty][x] = open[x]
    OBVIOUS
  <2> HIDE DEF v
  <2>3. OpenOK([open EXCEPT ![t].left = @ - qty])
    <3> DEFINE o == [open EXCEPT ![t].left = @ - qty]
    <3> HIDE DEF o
    <3>1. DOMAIN o = DOMAIN open /\ o[t] = v /\ \A x \in DOMAIN open : x # t => o[x] = open[x]
      BY <2>2 DEF o
    <3>2. ASSUME NEW x \in DOMAIN o PROVE x \in Mine /\ o[x] \in [left : 1 .. OrderQty, original : Token]
      BY <1>2, <2>1, <3>1 DEF OpenOK
    <3>3. OpenOK(o)
      BY <3>2 DEF OpenOK
    <3> QED
      BY <3>3 DEF o
  <2>4. EndOK(ended, m)
    BY <1>2 DEF EndOK
  <2> HIDE DEF m
  <2> QED
    BY <1>1, <1>4, <1>6, <2>3, <2>4, ReplyIsStep
<1> QED
  BY <1>5, <1>6 DEF Trades

\* A packet the exchange sends on its own account.
LEMMA HeartbeatIsStep ==
    ASSUME Types, AboutMine, NEW type \in {"ServerHeartbeat", "EndOfSession"}, Heartbeat(type)
    PROVE  ExchangeStep
<1>1. /\ in' = Append(in, [type |-> type]) /\ out' = out /\ open' = open /\ ended' = ended
      /\ UNCHANGED << state, token, orders, pending, running, other, unsaved, file, left, kept, document,
                      issued, runs >>
  BY DEF Heartbeat, memberVars, processVars, exchangeVars
<1>2. token \in Token
  BY DEF Types, ProcessTypes
<1>3. 1 \in 1 .. OrderQty
  BY EntryAssumption
<1>5. /\ [type |-> type] \in Response
      /\ [type |-> type].type \notin {"Accepted", "Executed", "Replaced", "Rejected"}
  BY <1>2, <1>3, NewMessages
<1>4. OpenOK(open) /\ DOMAIN ended \subseteq Token
  BY DEF OpenOK, Types, SessionTypes, AboutMine
<1> QED
  BY <1>1, <1>4, <1>5 DEF ExchangeStep, OpenOK

----------------------------------------------------------------------------
(* The steps of the client keep the invariant. *)

\* A sequence without its head.
LEMMA WithoutHead ==
    ASSUME NEW S, NEW s \in Seq(S), s # << >>
    PROVE  /\ Tail(s) \in Seq(S) /\ Head(s) = s[1] /\ s[1] \in S /\ 1 \in 1 .. Len(s)
           /\ \A i \in 1 .. Len(Tail(s)) : i + 1 \in 1 .. Len(s) /\ Tail(s)[i] = s[i + 1]
           /\ \A i \in 1 .. Len(s) : i # 1 => i - 1 \in 1 .. Len(Tail(s)) /\ Tail(s)[i - 1] = s[i]
<1>1. /\ Tail(s) \in Seq(S) /\ Head(s) = s[1] /\ s[1] \in S
      /\ Len(Tail(s)) = Len(s) - 1 /\ \A i \in 1 .. Len(Tail(s)) : Tail(s)[i] = s[i + 1]
  <2>1. Len(s) \in Nat /\ Len(s) # 0
    BY EmptySeq, LenProperties
  <2>2. 1 \in 1 .. Len(s)
    BY <2>1
  <2> QED
    BY <2>2, HeadTailProperties
<1>2. Len(s) \in Nat /\ Len(s) # 0
  BY EmptySeq, LenProperties
<1> QED
  BY <1>1, <1>2

\* A sequence with an element more.
LEMMA WithLast ==
    ASSUME NEW S, NEW s \in Seq(S), NEW x \in S
    PROVE  /\ Append(s, x) \in Seq(S)
           /\ \A i \in 1 .. Len(s) : i \in 1 .. Len(Append(s, x)) /\ Append(s, x)[i] = s[i]
           /\ Len(s) + 1 \in 1 .. Len(Append(s, x)) /\ Append(s, x)[Len(s) + 1] = x
           /\ \A i \in 1 .. Len(Append(s, x)) : i \in 1 .. Len(s) \/ i = Len(s) + 1
<1>1. Len(s) \in Nat
  BY LenProperties
<1>2. /\ Append(s, x) \in Seq(S) /\ Len(Append(s, x)) = Len(s) + 1
      /\ \A i \in 1 .. Len(s) : Append(s, x)[i] = s[i]
      /\ Append(s, x)[Len(s) + 1] = x
  BY AppendProperties
<1> QED
  BY <1>1, <1>2

\* The tokens of a process only become more, and a new one is among them.
LEMMA MineGrows ==
    ASSUME Types, running # "down", runs' = runs, Issues \/ IssuesNothing
    PROVE  /\ issued' \in Seq((1 .. MaxRuns) \X Token) /\ token' \in Token
           /\ Mine \subseteq Mine' /\ (Issues => token' \in Mine')
<1>1. issued \in Seq((1 .. MaxRuns) \X Token) /\ token \in Token
  BY DEF Types, ProcessTypes, SessionTypes
<1>2. runs \in 1 .. MaxRuns
  <2>1. runs \in 0 .. MaxRuns /\ runs > 0
    BY DEF Types, ProcessTypes
  <2> QED
    BY <2>1, EntryAssumption
<1>3. CASE Issues
  <2> DEFINE x == << runs, token' >>
  <2>1. token' \in Token /\ issued' = Append(issued, x)
    BY <1>1, <1>3, NextTokenType DEF Issues
  <2>2. x \in (1 .. MaxRuns) \X Token /\ x[1] = runs /\ x[2] = token'
    BY <1>2, <2>1
  <2> HIDE DEF x
  <2>3. /\ issued' \in Seq((1 .. MaxRuns) \X Token)
        /\ \A i \in 1 .. Len(issued) : i \in 1 .. Len(issued') /\ issued'[i] = issued[i]
        /\ Len(issued) + 1 \in 1 .. Len(issued') /\ issued'[Len(issued) + 1] = x
    BY <1>1, <2>1, <2>2, WithLast
  <2>4. ASSUME NEW t \in Mine PROVE t \in Mine'
    <3>1. PICK i \in 1 .. Len(issued) : issued[i][1] = runs /\ issued[i][2] = t
      BY <2>4 DEF Mine
    <3>2. i \in 1 .. Len(issued') /\ issued'[i][1] = runs' /\ issued'[i][2] = t
      BY <2>3, <3>1
    <3> QED
      BY <3>2 DEF Mine
  <2>5. token' \in Mine'
    <3>1. issued'[Len(issued) + 1][1] = runs' /\ issued'[Len(issued) + 1][2] = token'
      BY <2>2, <2>3
    <3> QED
      BY <2>3, <3>1 DEF Mine
  <2> QED
    BY <2>1, <2>3, <2>4, <2>5
<1>4. CASE IssuesNothing /\ ~Issues
  BY <1>1, <1>4 DEF IssuesNothing, Mine
<1> QED
  BY <1>3, <1>4

\* A step of the client keeps the types.
LEMMA ClientTypes ==
    ASSUME Types, ClientStep
    PROVE  Types'
<1>1. issued' \in Seq((1 .. MaxRuns) \X Token) /\ token' \in Token
  BY MineGrows DEF ClientStep
<1>2. out' \in Seq(Request)
  <2>1. out \in Seq(Request)
    BY DEF Types, SessionTypes
  <2>2. out' = out \/ \E r \in Request : out' = Append(out, r)
    BY DEF ClientStep
  <2> QED
    BY <2>1, <2>2, WithLast
<1>3. in' \in Seq(Response)
  <2>1. in \in Seq(Response)
    BY DEF Types, SessionTypes
  <2>2. in' = in \/ (in # << >> /\ in' = Tail(in))
    BY DEF ClientStep
  <2> QED
    BY <2>1, <2>2, WithoutHead
<1>4. orders' \in Table
  <2>1. orders' = orders \/ TableStep(orders, orders', Head(in).token)
    BY DEF ClientStep
  <2> QED
    BY <2>1 DEF TableStep, Types, ProcessTypes
<1>5. FileTypes'
  BY DEF ClientStep, Types, FileTypes
<1>6. ProcessTypes'
  BY <1>1, <1>4 DEF ClientStep, Types, ProcessTypes
<1>7. SessionTypes'
  BY <1>1, <1>2, <1>3 DEF ClientStep, Types, SessionTypes
<1> QED
  BY <1>5, <1>6, <1>7 DEF Types

\* It sends and reads only about its own tokens.
LEMMA ClientAboutMine ==
    ASSUME Types, AboutMine, ClientStep
    PROVE  AboutMine'
<1>1. Mine \subseteq Mine' /\ (Issues => token' \in Mine')
  BY MineGrows DEF ClientStep
<1>2. out \in Seq(Request) /\ in \in Seq(Response)
  BY DEF Types, SessionTypes
<1> DEFINE Sends == {"Enter", "Replace", "Cancel"}
           Reads == {"Accepted", "Executed", "Replaced", "Rejected"}
<1>3. ASSUME in # << >>, Head(in).type \in Reads PROVE Head(in).token \in Mine
  <2>1. Head(in) = in[1] /\ 1 \in 1 .. Len(in)
    BY <1>2, <1>3, WithoutHead
  <2> QED
    BY <1>3, <2>1 DEF AboutMine
<1>4. ASSUME NEW i \in 1 .. Len(out'), out'[i].type \in Sends PROVE out'[i].token \in Mine'
  <2>1. CASE out' = out
    BY <1>1, <1>4, <2>1 DEF AboutMine
  <2>2. CASE out' # out
    <3>1. PICK r \in Request :
              /\ out' = Append(out, r)
              /\ r.type \in Sends =>
                     \/ Issues /\ r.token = token'
                     \/ /\ r.type = "Cancel"
                        /\ in # << >> /\ Head(in).type = "Replaced" /\ r.token = Head(in).token
      BY <2>2 DEF ClientStep
    <3>2. (i \in 1 .. Len(out) /\ out'[i] = out[i]) \/ out'[i] = r
      BY <1>2, <3>1, WithLast
    <3>3. CASE i \in 1 .. Len(out) /\ out'[i] = out[i]
      BY <1>1, <1>4, <3>3 DEF AboutMine
    <3>4. CASE out'[i] = r
      BY <1>1, <1>3, <1>4, <3>1, <3>4
    <3> QED
      BY <3>2, <3>3, <3>4
  <2> QED
    BY <2>1, <2>2
<1>5. ASSUME NEW i \in 1 .. Len(in'), in'[i].type \in Reads PROVE in'[i].token \in Mine'
  <2>1. \E k \in 1 .. Len(in) : in'[i] = in[k]
    <3>1. CASE in' = in
      BY <3>1
    <3>2. CASE in # << >> /\ in' = Tail(in)
      BY <1>2, <3>2, WithoutHead
    <3> QED
      BY <3>1, <3>2 DEF ClientStep
  <2> QED
    BY <1>1, <1>5, <2>1 DEF AboutMine
<1>6. DOMAIN open' \subseteq Mine'
  BY <1>1 DEF ClientStep, AboutMine
<1> QED
  BY <1>4, <1>5, <1>6 DEF AboutMine

\* It touches only entries of its own tokens.
LEMMA ClientUntouched ==
    ASSUME Types, AboutMine, Untouched, ClientStep
    PROVE  Untouched'
<1>1. Mine \subseteq Mine'
  BY MineGrows DEF ClientStep
<1>2. in \in Seq(Response)
  BY DEF Types, SessionTypes
<1> SUFFICES ASSUME NEW n \in 0 .. OrdersSize - 1, \A t \in Mine' : Index(t) # n
             PROVE  orders'[n] = NoOrders[n]
  BY DEF Untouched
<1>3. orders[n] = NoOrders[n]
  BY <1>1 DEF Untouched
<1>4. CASE orders' = orders
  BY <1>3, <1>4
<1>5. CASE orders' # orders
  <2>1. /\ in # << >> /\ Head(in).type \in {"Accepted", "Executed", "Rejected"}
        /\ TableStep(orders, orders', Head(in).token)
    BY <1>5 DEF ClientStep
  <2>2. Head(in).token \in Mine
    <3>1. Head(in) = in[1] /\ 1 \in 1 .. Len(in)
      BY <1>2, <2>1, WithoutHead
    <3> QED
      BY <2>1, <3>1 DEF AboutMine
  <2>3. n # Index(Head(in).token)
    BY <1>1, <2>2
  <2> QED
    BY <1>3, <2>1, <2>3 DEF TableStep
<1> QED
  BY <1>4, <1>5

\* A rejection is on its way until the entry has been marked.
LEMMA ClientRejections ==
    ASSUME Types, Rejections, ClientStep
    PROVE  Rejections'
<1>1. in \in Seq(Response)
  BY DEF Types, SessionTypes
<1> SUFFICES ASSUME NEW t \in DOMAIN ended', ended'[t] = "rejected", withinRange(Index(t))
             PROVE  \/ ~orders'[Index(t)].is_valid
                    \/ \E i \in 1 .. Len(in') : in'[i] = [type |-> "Rejected", token |-> t]
  BY DEF Rejections
<1> DEFINE m == [type |-> "Rejected", token |-> t]
<1>2. t \in DOMAIN ended /\ ended[t] = "rejected"
  BY DEF ClientStep
<1>3. t \in Token
  BY <1>2 DEF Types, SessionTypes
<1>4. Index(t) \in 0 .. OrdersSize - 1
  BY <1>3, IndexType
<1>5. ~orders[Index(t)].is_valid \/ \E i \in 1 .. Len(in) : in[i] = m
  BY <1>2 DEF Rejections
<1>6. m.type = "Rejected" /\ m.token = t
  OBVIOUS
<1> HIDE DEF m
<1>7. CASE ~orders[Index(t)].is_valid
  <2>1. orders' = orders \/ TableStep(orders, orders', Head(in).token)
    BY DEF ClientStep
  <2> QED
    BY <1>4, <1>7, <2>1 DEF TableStep
<1>8. CASE \E i \in 1 .. Len(in) : in[i] = m
  <2>1. PICK i \in 1 .. Len(in) : in[i] = m
    BY <1>8
  <2>2. CASE in' = in
    BY <2>1, <2>2 DEF m
  <2>3. CASE in # << >> /\ in' = Tail(in) /\ i # 1
    <3>1. i - 1 \in 1 .. Len(in') /\ in'[i - 1] = m
      BY <1>1, <2>1, <2>3, WithoutHead
    <3> QED
      BY <3>1 DEF m
  <2>4. CASE in # << >> /\ in' = Tail(in) /\ in' # in /\ i = 1
    <3>1. Head(in) = m
      BY <1>1, <2>1, <2>4, WithoutHead
    <3> QED
      BY <1>6, <2>4, <3>1 DEF ClientStep
  <2> QED
    BY <2>2, <2>3, <2>4 DEF ClientStep
<1> QED
  BY <1>5, <1>7, <1>8

\* So it keeps the invariant.
LEMMA ClientKeeps ==
    ASSUME EntryInv, ClientStep
    PROVE  EntryInv'
BY ClientTypes, ClientAboutMine, ClientUntouched, ClientRejections DEF EntryInv

----------------------------------------------------------------------------
(* So do those of the exchange. *)

\* The tokens of a process are tokens.
LEMMA MineTokens ==
    ASSUME Types
    PROVE  Mine \subseteq Token
<1>1. issued \in Seq((1 .. MaxRuns) \X Token)
  BY DEF Types, SessionTypes
<1>2. \A i \in 1 .. Len(issued) : issued[i] \in (1 .. MaxRuns) \X Token
  BY <1>1, ElementOfSeq
<1> QED
  BY <1>2 DEF Mine

\* A step of the exchange keeps the invariant.
LEMMA ExchangeKeeps ==
    ASSUME EntryInv, ExchangeStep
    PROVE  EntryInv'
<1> USE DEF EntryInv
<1>1. Mine' = Mine
  BY DEF ExchangeStep, Mine
<1>2. out \in Seq(Request) /\ in \in Seq(Response)
  BY DEF Types, SessionTypes
<1> DEFINE Sends == {"Enter", "Replace", "Cancel"}
           Reads == {"Accepted", "Executed", "Replaced", "Rejected"}
<1>3. Types'
  <2>1. out' \in Seq(Request)
    <3>1. out' = out \/ (out # << >> /\ out' = Tail(out))
      BY DEF ExchangeStep
    <3> QED
      BY <1>2, <3>1, WithoutHead
  <2>2. in' \in Seq(Response)
    <3>1. in' = in \/ \E m \in Response : in' = Append(in, m)
      BY DEF ExchangeStep
    <3> QED
      BY <1>2, <3>1, WithLast
  <2>3. DOMAIN open' \subseteq Token
    BY MineTokens DEF ExchangeStep
  <2>4. FileTypes'
    BY DEF ExchangeStep, Types, FileTypes
  <2>5. ProcessTypes'
    BY DEF ExchangeStep, Types, ProcessTypes
  <2>6. SessionTypes'
    BY <2>1, <2>2, <2>3 DEF ExchangeStep, Types, SessionTypes
  <2> QED
    BY <2>4, <2>5, <2>6 DEF Types
<1>4. AboutMine'
  <2>1. ASSUME NEW i \in 1 .. Len(out'), out'[i].type \in Sends PROVE out'[i].token \in Mine
    <3>1. \E k \in 1 .. Len(out) : out'[i] = out[k]
      <4>1. CASE out' = out
        BY <4>1
      <4>2. CASE out # << >> /\ out' = Tail(out)
        BY <1>2, <4>2, WithoutHead
      <4> QED
        BY <4>1, <4>2 DEF ExchangeStep
    <3> QED
      BY <2>1, <3>1 DEF AboutMine
  <2>2. ASSUME NEW i \in 1 .. Len(in'), in'[i].type \in Reads PROVE in'[i].token \in Mine
    <3>1. CASE in' = in
      BY <2>2, <3>1 DEF AboutMine
    <3>2. CASE in' # in
      <4>1. PICK m \in Response : in' = Append(in, m) /\ (m.type \in Reads => m.token \in Mine)
        BY <3>2 DEF ExchangeStep
      <4>2. (i \in 1 .. Len(in) /\ in'[i] = in[i]) \/ in'[i] = m
        BY <1>2, <4>1, WithLast
      <4> QED
        BY <2>2, <4>1, <4>2 DEF AboutMine
    <3> QED
      BY <3>1, <3>2
  <2>3. DOMAIN open' \subseteq Mine
    BY DEF ExchangeStep
  <2> QED
    BY <1>1, <2>1, <2>2, <2>3 DEF AboutMine
<1>5. Untouched'
  <2>1. orders' = orders
    BY DEF ExchangeStep
  <2> QED
    BY <1>1, <2>1 DEF Untouched
<1>6. Rejections'
  <2> SUFFICES ASSUME NEW t \in DOMAIN ended', ended'[t] = "rejected", withinRange(Index(t))
               PROVE  \/ ~orders'[Index(t)].is_valid
                      \/ \E i \in 1 .. Len(in') : in'[i] = [type |-> "Rejected", token |-> t]
    BY DEF Rejections
  <2> DEFINE x == [type |-> "Rejected", token |-> t]
  <2>1. t \in Token
    BY DEF ExchangeStep
  <2>2. x \in Response
    BY <2>1 DEF OrderRejected, Response
  <2> HIDE DEF x
  <2>3. CASE in' = Append(in, x)
    <3>1. Len(in) + 1 \in 1 .. Len(in') /\ in'[Len(in) + 1] = x
      BY <1>2, <2>2, <2>3, WithLast
    <3> QED
      BY <3>1 DEF x
  <2>4. CASE t \in DOMAIN ended /\ ended[t] = "rejected"
    <3>1. ~orders[Index(t)].is_valid \/ \E i \in 1 .. Len(in) : in[i] = x
      BY <2>4 DEF Rejections, x
    <3>2. orders' = orders
      BY DEF ExchangeStep
    <3>3. ASSUME NEW i \in 1 .. Len(in), in[i] = x PROVE i \in 1 .. Len(in') /\ in'[i] = x
      <4>1. in' = in \/ \E m \in Response : in' = Append(in, m)
        BY DEF ExchangeStep
      <4> QED
        BY <1>2, <3>3, <4>1, WithLast
    <3> QED
      BY <3>1, <3>2, <3>3 DEF x
  <2> QED
    BY <2>3, <2>4 DEF ExchangeStep, x
<1> QED
  BY <1>3, <1>4, <1>5, <1>6

----------------------------------------------------------------------------
(* And those of the process. *)

\* Without a session there is nothing to be about.
LEMMA NothingLeft ==
    ASSUME NoSession, FileTypes', ProcessTypes', issued' \in Seq((1 .. MaxRuns) \X Token)
    PROVE  EntryInv'
<1>1. /\ orders' = NoOrders /\ open' = << >> /\ ended' = << >> /\ out' = << >> /\ in' = << >>
      /\ DOMAIN << >> = {} /\ Len(<< >>) = 0
  BY DEF NoSession
<1>2. SessionTypes'
  BY <1>1 DEF SessionTypes
<1>3. AboutMine'
  BY <1>1 DEF AboutMine
<1>4. Untouched'
  BY <1>1 DEF Untouched
<1>5. Rejections'
  BY <1>1 DEF Rejections
<1> QED
  BY <1>2, <1>3, <1>4, <1>5 DEF EntryInv, Types

\* A step that leaves the session alone.
LEMMA SessionStays ==
    ASSUME EntryInv, FileTypes', ProcessTypes',
           UNCHANGED << orders, out, in, issued, open, ended, runs >>
    PROVE  EntryInv'
<1>1. Mine' = Mine
  BY DEF Mine
<1>2. SessionTypes'
  BY DEF EntryInv, Types, SessionTypes
<1>3. AboutMine'
  BY <1>1 DEF EntryInv, AboutMine
<1>4. Untouched'
  BY <1>1 DEF EntryInv, Untouched
<1>5. Rejections'
  BY DEF EntryInv, Rejections
<1> QED
  BY <1>2, <1>3, <1>4, <1>5 DEF EntryInv, Types

\* A login request is about no token.
LEMMA LoginKeeps ==
    ASSUME EntryInv, login
    PROVE  EntryInv'
<1> DEFINE r == [type |-> "Login"]
<1>1. /\ out' = Append(out, r) /\ running' = "logged in" /\ running = "started"
      /\ UNCHANGED << state, token, orders, pending, other, unsaved, file, document, in, open, ended, issued, runs >>
  BY DEF login, memberVars, exchangeVars
<1>2. r \in Request /\ r.type \notin {"Enter", "Replace", "Cancel"}
  BY DEF LoginRequest, Request
<1> HIDE DEF r
<1>3. out \in Seq(Request)
  BY DEF EntryInv, Types, SessionTypes
<1>4. out' \in Seq(Request)
  BY <1>1, <1>2, <1>3, WithLast
<1>5. Mine' = Mine
  BY <1>1 DEF Mine
<1>6. FileTypes'
  BY <1>1 DEF EntryInv, Types, FileTypes
<1>7. ProcessTypes'
  BY <1>1 DEF EntryInv, Types, ProcessTypes
<1>8. SessionTypes'
  BY <1>1, <1>4 DEF EntryInv, Types, SessionTypes
<1>9. AboutMine'
  <2>1. ASSUME NEW i \in 1 .. Len(out') PROVE (i \in 1 .. Len(out) /\ out'[i] = out[i]) \/ out'[i] = r
    <3>1. out' = Append(out, r) /\ r \in Request
      BY <1>1, <1>2
    <3> QED
      BY <1>3, <3>1, WithLast
  <2>2. ASSUME NEW i \in 1 .. Len(out'), out'[i].type \in {"Enter", "Replace", "Cancel"}
        PROVE  out'[i].token \in Mine
    BY <1>2, <2>1, <2>2 DEF EntryInv, AboutMine
  <2> QED
    BY <1>1, <1>5, <2>2 DEF EntryInv, AboutMine
<1>10. Untouched'
  BY <1>1, <1>5 DEF EntryInv, Untouched
<1>11. Rejections'
  BY <1>1 DEF EntryInv, Rejections
<1> QED
  BY <1>6, <1>7, <1>8, <1>9, <1>10, <1>11 DEF EntryInv, Types

\* The second accessor has a token of its own.
LEMMA OtherTradeKeeps ==
    ASSUME EntryInv, OtherTrade
    PROVE  EntryInv'
<1>1. /\ other # << >> /\ other' = << nextToken(other[1]) >>
      /\ UNCHANGED << state, token, orders, pending, running, unsaved, file, document, out, in, open, ended,
                      issued, runs >>
  BY DEF OtherTrade, memberVars, exchangeVars
<1>2. other' \in Seq(Token)
  <2>1. other \in Seq(Token)
    BY DEF EntryInv, Types, ProcessTypes
  <2>2. nextToken(other[1]) \in Token
    BY <1>1, <2>1, WithoutHead, NextTokenType
  <2> QED
    BY <1>1, <2>2
<1>3. FileTypes'
  BY <1>1 DEF EntryInv, Types, FileTypes
<1>4. ProcessTypes'
  BY <1>1, <1>2 DEF EntryInv, Types, ProcessTypes
<1> QED
  BY <1>1, <1>3, <1>4, SessionStays

\* The tokens that are to be saved, in either order.
SaveOrders(t, others) ==
    LET one == << [own |-> TRUE, token |-> t] >>
        two == [i \in 1 .. Len(others) |-> [own |-> FALSE, token |-> others[i]]]
    IN  {one \o two, two \o one}

\* They are savers, and the session's own one saves its token.
LEMMA Savers ==
    ASSUME NEW t \in Token, NEW others \in Seq(Token), NEW all \in SaveOrders(t, others)
    PROVE  all \in Seq(Saver) /\ \A i \in 1 .. Len(all) : all[i].own => all[i].token = t
<1> DEFINE one == << [own |-> TRUE, token |-> t] >>
           two == [i \in 1 .. Len(others) |-> [own |-> FALSE, token |-> others[i]]]
           OK == {m \in Saver : m.own => m.token = t}
<1>1. one \in Seq(OK)
  <2>1. [own |-> TRUE, token |-> t] \in OK
    BY DEF Saver
  <2> QED
    BY <2>1
<1>2. two \in Seq(OK)
  <2>1. Len(others) \in Nat
    BY LenProperties
  <2>2. ASSUME NEW i \in 1 .. Len(others) PROVE [own |-> FALSE, token |-> others[i]] \in OK
    <3>1. others[i] \in Token
      BY ElementOfSeq
    <3> QED
      BY <3>1 DEF Saver
  <2> HIDE DEF OK
  <2> QED
    BY <2>1, <2>2, IsASeq
<1> HIDE DEF one, two, OK
<1>3. all \in Seq(OK)
  <2>1. all \in {one \o two, two \o one}
    BY DEF SaveOrders, one, two
  <2> QED
    BY <1>1, <1>2, <2>1, ConcatProperties
<1>4. OK \subseteq Saver
  BY DEF OK
<1>5. all \in Seq(Saver)
  BY <1>3, <1>4, SeqMonotonic
<1>6. \A i \in 1 .. Len(all) : all[i] \in OK
  BY <1>3, ElementOfSeq
<1> QED
  BY <1>5, <1>6 DEF OK

\* The connections end, and the accessors are to be destroyed.
LEMMA StopKeeps ==
    ASSUME EntryInv, Stop
    PROVE  EntryInv'
<1>1. token \in Token /\ other \in Seq(Token)
  BY DEF EntryInv, Types, ProcessTypes
<1>2. unsaved' \in Seq(Saver)
  <2>1. unsaved' \in SaveOrders(token, other)
    BY DEF Stop, SaveOrders
  <2> QED
    BY <1>1, <2>1, Savers
<1>3. FileTypes'
  BY DEF Stop, EntryInv, Types, FileTypes
<1>4. ProcessTypes'
  <2>1. state' = "Disconnected" /\ orders' \in Table /\ pending' \in Seq(Token \X Token)
    <3>1. NoSession
      BY DEF Stop
    <3> QED
      BY <3>1, NewTable DEF NoSession
  <2>2. /\ running' = "stopping" /\ UNCHANGED << token, other, runs >>
        /\ running \in {"started", "logged in"}
    BY DEF Stop
  <2> QED
    BY <1>1, <1>2, <2>1, <2>2 DEF EntryInv, Types, ProcessTypes
<1>5. issued' \in Seq((1 .. MaxRuns) \X Token) /\ NoSession
  BY DEF Stop, EntryInv, Types, SessionTypes
<1> QED
  BY <1>3, <1>4, <1>5, NothingLeft

\* The process ends, after its destructors or before.
LEMMA ExitKeeps ==
    ASSUME EntryInv, Exit
    PROVE  EntryInv'
<1>1. FileTypes'
  BY DEF Exit, EntryInv, Types, FileTypes
<1>2. ProcessTypes'
  <2>1. state' = "Disconnected" /\ orders' \in Table /\ pending' \in Seq(Token \X Token)
    <3>1. NoSession
      BY DEF Exit
    <3> QED
      BY <3>1, NewTable DEF NoSession
  <2>2. running' = "down" /\ unsaved' = << >> /\ other' = << >> /\ UNCHANGED << token, runs >>
    BY DEF Exit
  <2> QED
    <3>1. token' \in Token /\ runs' \in 0 .. MaxRuns
      BY <2>2 DEF EntryInv, Types, ProcessTypes
    <3>2. unsaved' \in Seq(Saver) /\ other' \in Seq(Token)
      BY <2>2
    <3> QED
      BY <2>1, <2>2, <3>1, <3>2 DEF ProcessTypes
<1>3. issued' \in Seq((1 .. MaxRuns) \X Token) /\ NoSession
  BY DEF Exit, EntryInv, Types, SessionTypes
<1> QED
  BY <1>1, <1>2, <1>3, NothingLeft

\* The index a saved token is read back as.
LEMMA SavedIndexType ==
    ASSUME NEW t \in Token
    PROVE  savedIndex(t) \in Nat
<1>1. parse_order_token_decimal(t) \in Int
  BY ParseType
<1>2. SaveMod \in Nat /\ SaveMod > 0
  BY WidthAssumption
<1> QED
  BY <1>1, <1>2 DEF savedIndex

\* A destructor opens the file or writes it.
LEMMA SaveKeeps ==
    ASSUME EntryInv, saveOpen \/ saveWrite
    PROVE  EntryInv'
<1>1. UNCHANGED << state, token, orders, pending, other, document, out, in, open, ended, issued, runs >>
  BY DEF saveOpen, saveWrite, memberVars, exchangeVars
<1>2. /\ unsaved \in Seq(Saver) /\ unsaved # << >>
      /\ running \in {"stopping", "saving"} /\ running' \in {"stopping", "saving"}
      /\ unsaved' = Tail(unsaved) \/ unsaved' = unsaved
      /\ running' = "saving" => unsaved' = unsaved
  BY DEF saveOpen, saveWrite, EntryInv, Types, ProcessTypes
<1>3. unsaved' \in Seq(Saver) /\ Head(unsaved) \in Saver
  BY <1>2, WithoutHead
<1>4. FileTypes'
  <2>1. savedIndex(Head(unsaved).token) \in Nat
    BY <1>3, SavedIndexType DEF Saver
  <2>2. \/ file' = file \/ file' = Torn
        \/ file' = JsonFile([last_used_order_token_index |-> savedIndex(Head(unsaved).token)])
    BY DEF saveOpen, saveWrite
  <2>3. contains(file'.json, TokenIndexKey) => file'.json[TokenIndexKey] \in Nat
    <3>1. CASE file' = file
      BY <3>1 DEF EntryInv, Types, FileTypes
    <3>2. CASE file' = Torn
      BY <3>2 DEF Torn, contains
    <3>3. CASE file' = JsonFile([last_used_order_token_index |-> savedIndex(Head(unsaved).token)])
      BY <2>1, <3>3 DEF JsonFile, TokenIndexKey
    <3> QED
      BY <2>2, <3>1, <3>2, <3>3
  <2> QED
    BY <1>1, <2>3 DEF EntryInv, Types, FileTypes
<1>5. ProcessTypes'
  BY <1>1, <1>2, <1>3 DEF EntryInv, Types, ProcessTypes
<1> QED
  BY <1>1, <1>4, <1>5, SessionStays

\* The index a process starts from is a number, whatever the file holds.
LEMMA StartsFrom ==
    ASSUME FileTypes
    PROVE  parseAppParameters(file).index \in Nat
<1> DEFINE app == parseAppParameters(file)
<1>1. SaveMod \in Nat /\ SaveMod > 0
  BY WidthAssumption
<1>2. contains(file.json, TokenIndexKey) => file.json[TokenIndexKey] \in Nat
  BY DEF FileTypes
<1>3. CASE file.opens /\ file.valid /\ contains(file.json, TokenIndexKey)
  <2>1. app.index = file.json[TokenIndexKey] % SaveMod
    BY <1>3 DEF parseAppParameters
  <2> HIDE DEF app
  <2>2. app.index \in Nat
    BY <1>1, <1>2, <1>3, <2>1
  <2> QED
    BY <2>2 DEF app
<1>4. CASE ~(file.opens /\ file.valid /\ contains(file.json, TokenIndexKey))
  BY <1>4 DEF parseAppParameters
<1> QED
  BY <1>3, <1>4

\* A new process has a first token for every accessor, whatever the files hold.
LEMMA StartKeeps ==
    ASSUME EntryInv, Start
    PROVE  EntryInv'
<1> DEFINE app == parseAppParameters(file)
           N == Len(config'.entry)
<1>1. /\ running = "down" /\ runs < MaxRuns /\ runs' = runs + 1
      /\ UNCHANGED << unsaved, file, document, issued >> /\ NoSession
  BY DEF Start
<1>2. token \in Token /\ other \in Seq(Token) /\ runs \in 0 .. MaxRuns /\ unsaved \in Seq(Saver)
  BY DEF EntryInv, Types, ProcessTypes
<1>3. N \in Nat
  BY EntryIsASequence DEF Start, EntryInv, Types
<1>4. app.index \in Nat
  BY StartsFrom DEF EntryInv, Types
<1>5. firstToken(app.index) \in Token
  BY <1>4, FirstTokenType
<1>6. /\ running' \in {"down", "started"} /\ token' \in {token, firstToken(app.index)}
      /\ other' \in {other, [i \in 1 .. N - 1 |-> firstToken(app.index)]}
  BY <1>1 DEF Start
<1> HIDE DEF app, N
<1>7. [i \in 1 .. N - 1 |-> firstToken(app.index)] \in Seq(Token)
  <2>1. CASE N = 0
    <3>1. 1 .. N - 1 = 1 .. 0 /\ 0 \in Nat
      BY <2>1
    <3>2. [i \in 1 .. 0 |-> firstToken(app.index)] \in Seq(Token)
      BY <1>5, <3>1, IsASeq
    <3> QED
      BY <3>1, <3>2
  <2>2. CASE N # 0
    <3>1. N - 1 \in Nat
      BY <1>3, <2>2
    <3> QED
      BY <1>5, <3>1, IsASeq
  <2> QED
    BY <2>1, <2>2
<1>8. token' \in Token /\ other' \in Seq(Token)
  BY <1>2, <1>5, <1>6, <1>7
<1>9. FileTypes'
  BY <1>1 DEF EntryInv, Types, FileTypes
<1>10. runs' \in 0 .. MaxRuns /\ runs' > 0
  BY <1>1, <1>2, EntryAssumption
<1>11. ProcessTypes'
  <2>1. state' = "Disconnected" /\ orders' \in Table /\ pending' \in Seq(Token \X Token)
    BY <1>1, NewTable DEF NoSession
  <2>2. unsaved' \in Seq(Saver) /\ running' \in {"down", "started"}
    BY <1>1, <1>2, <1>6
  <2> QED
    BY <1>8, <1>10, <2>1, <2>2 DEF ProcessTypes
<1>12. issued' \in Seq((1 .. MaxRuns) \X Token)
  BY <1>1 DEF EntryInv, Types, SessionTypes
<1> QED
  BY <1>1, <1>9, <1>11, <1>12, NothingLeft

----------------------------------------------------------------------------
(* The invariant. *)

\* Before the first process.
LEMMA EntryInvInit == Init => EntryInv
<1> SUFFICES ASSUME Init PROVE EntryInv
  OBVIOUS
<1>1. FileTypes
  <2>1. contains(file.json, TokenIndexKey) => file.json[TokenIndexKey] \in Nat
    <3>1. CASE file = NoFile \/ file = JsonFile(<< >>)
      BY <3>1 DEF NoFile, JsonFile, contains
    <3>2. CASE \E i \in LastIndexes : file = JsonFile([last_used_order_token_index |-> i])
      BY <3>2, EntryAssumption DEF JsonFile, TokenIndexKey
    <3> QED
      BY <3>1, <3>2 DEF Init
  <2> QED
    BY <2>1 DEF Init, FileTypes
<1>2. ProcessTypes
  <2>1. token \in Token
    <3>1. 0 \in Nat
      OBVIOUS
    <3> QED
      BY <3>1, FirstTokenType DEF Init
  <2>2. orders \in Table
    BY NewTable DEF Init
  <2>3. runs \in 0 .. MaxRuns
    BY EntryAssumption DEF Init
  <2> QED
    BY <2>1, <2>2, <2>3 DEF Init, ProcessTypes
<1>3. /\ orders = NoOrders /\ open = << >> /\ ended = << >> /\ out = << >> /\ in = << >> /\ issued = << >>
      /\ DOMAIN << >> = {} /\ Len(<< >>) = 0
  BY DEF Init
<1>4. SessionTypes
  BY <1>3 DEF SessionTypes
<1>5. AboutMine
  BY <1>3 DEF AboutMine
<1>6. Untouched
  BY <1>3 DEF Untouched
<1>7. Rejections
  BY <1>3 DEF Rejections
<1> QED
  BY <1>1, <1>2, <1>4, <1>5, <1>6, <1>7 DEF EntryInv, Types

\* Every step keeps the invariant.
LEMMA EntryInvStep == EntryInv /\ [Next]_vars => EntryInv'
<1> SUFFICES ASSUME EntryInv, [Next]_vars PROVE EntryInv'
  OBVIOUS
<1>1. Types /\ AboutMine
  BY DEF EntryInv
<1>2. CASE login
  BY <1>2, LoginKeeps
<1>3. CASE handleMessage
  BY <1>1, <1>3, HandleIsStep, ClientKeeps
<1>4. CASE Trade
  BY <1>1, <1>4, TradeIsStep, ClientKeeps
<1>5. CASE OtherTrade
  BY <1>5, OtherTradeKeeps
<1>6. CASE Stop
  BY <1>6, StopKeeps
<1>7. CASE saveOpen \/ saveWrite
  BY <1>7, SaveKeeps
<1>8. CASE Exit
  BY <1>8, ExitKeeps
<1>9. CASE Start
  BY <1>9, StartKeeps
<1>10. CASE Respond
  BY <1>1, <1>10, RespondIsStep, ExchangeKeeps
<1>11. CASE \E t \in DOMAIN open, qty \in 1 .. OrderQty : Trades(t, qty)
  BY <1>1, <1>11, TradesIsStep, ExchangeKeeps
<1>12. CASE \E type \in {"ServerHeartbeat", "EndOfSession"} : Heartbeat(type)
  BY <1>1, <1>12, HeartbeatIsStep, ExchangeKeeps
<1>13. CASE UNCHANGED vars
  <2>1. UNCHANGED << document, file, state, token, orders, pending, other, running, unsaved, out, in, open, ended,
                     issued, runs >>
    BY <1>13 DEF vars, memberVars, processVars, exchangeVars
  <2>2. FileTypes' /\ ProcessTypes'
    BY <1>1, <2>1 DEF Types, FileTypes, ProcessTypes
  <2> QED
    BY <2>1, <2>2, SessionStays
<1> QED
  BY <1>2, <1>3, <1>4, <1>5, <1>6, <1>7, <1>8, <1>9, <1>10, <1>11, <1>12, <1>13 DEF Next

\* The inductive invariant of the session holds always.
THEOREM EntryInvAlways == Spec => []EntryInv
BY EntryInvInit, EntryInvStep, PTL DEF Spec

\* The members of the accessor and of its OrderManager, the two channels and the tables
\* of the exchange always have the values the code declares.  Whatever index the file
\* holds, the token made of it, and every one after it, has Digits characters, each a
\* digit or, where the index was too large for an int, as far below '0', and none of
\* these behind one above '0'; every quantity fits its field.
THEOREM TypeOKAlways == Spec => []TypeOK
<1>1. EntryInv => TypeOK
  BY DEF EntryInv, Types, FileTypes, ProcessTypes, SessionTypes, TypeOK, Table, Saver, OrderQuantity
<1> QED
  BY <1>1, EntryInvAlways, PTL

\* orderAccepted, orderExecuted and orderDeleted change no entry of m_orders but those
\* of tokens this process has sent, whatever the exchange answers in which order and
\* however large the tokens are.
THEOREM OnlyOwnEntriesAlways == Spec => []OnlyOwnEntries
<1>1. EntryInv => OnlyOwnEntries
  <2> SUFFICES ASSUME EntryInv, NEW n \in 0 .. OrdersSize - 1,
                      \A i \in 1 .. Len(issued) : issued[i][1] = runs => Index(issued[i][2]) # n
               PROVE  orders[n] = NoOrders[n]
    BY DEF OnlyOwnEntries
  <2>1. \A t \in Mine : Index(t) # n
    BY DEF Mine
  <2> QED
    BY <2>1 DEF EntryInv, Untouched
<1> QED
  BY <1>1, EntryInvAlways, PTL

\* Once the client has read everything the exchange has sent, every order the exchange
\* has rejected is marked invalid in m_orders, if its token lies within the table.
THEOREM RejectedIsInvalidAlways == Spec => []RejectedIsInvalid
<1>1. EntryInv => RejectedIsInvalid
  <2> SUFFICES ASSUME EntryInv, NEW t \in DOMAIN ended, Settled(t), ended[t] = "rejected"
               PROVE  ~orders[Index(t)].is_valid
    BY DEF RejectedIsInvalid
  <2>1. Len(in) = 0 /\ withinRange(Index(t))
    BY DEF Settled
  <2> QED
    BY <2>1 DEF EntryInv, Rejections
<1> QED
  BY <1>1, EntryInvAlways, PTL

----------------------------------------------------------------------------
(* The tokens ascend. *)

\* The tokens that were issued have numbers.
LEMMA IssuedNumbers ==
    ASSUME Types
    PROVE  /\ Len(issued) \in Nat /\ runs \in Nat /\ Index(token) \in Int
           /\ \A i \in 1 .. Len(issued) :
                  issued[i][1] \in Nat /\ issued[i][2] \in Token /\ Index(issued[i][2]) \in Int
<1>1. issued \in Seq((1 .. MaxRuns) \X Token) /\ token \in Token /\ runs \in 0 .. MaxRuns
  BY DEF Types, ProcessTypes, SessionTypes
<1>2. Len(issued) \in Nat
  BY <1>1, LenProperties
<1>3. runs \in Nat
  BY <1>1, EntryAssumption
<1>4. Index(token) \in Int
  BY <1>1, IndexType
<1>5. ASSUME NEW i \in 1 .. Len(issued)
      PROVE  issued[i][1] \in Nat /\ issued[i][2] \in Token /\ Index(issued[i][2]) \in Int
  <2>1. issued[i] \in (1 .. MaxRuns) \X Token
    BY <1>1, ElementOfSeq
  <2>2. issued[i][1] \in Nat /\ issued[i][2] \in Token
    BY <2>1, EntryAssumption
  <2> QED
    BY <2>2, IndexType
<1> QED
  BY <1>2, <1>3, <1>4, <1>5

\* A new token is larger than all that m_token was no smaller than.
LEMMA IssuesAscends ==
    ASSUME Types, TokensAscend, NoneLarger, ExhaustedIssued, running # "down",
           Issues, UNCHANGED << runs, kept >>
    PROVE  TokensAscend' /\ NoneLarger' /\ ExhaustedIssued'
<1> DEFINE L == Len(issued)
           x == << runs, token' >>
<1>1. token \in Token /\ issued \in Seq((1 .. MaxRuns) \X Token)
  BY DEF Types, ProcessTypes, SessionTypes
<1>2. /\ L \in Nat /\ runs \in Nat /\ Index(token) \in Int
      /\ \A i \in 1 .. L : issued[i][1] \in Nat /\ issued[i][2] \in Token /\ Index(issued[i][2]) \in Int
  BY IssuedNumbers
<1>3. token' \in Token
  BY <1>1, NextTokenType DEF Issues
<1>4. Index(token') \in Int /\ (~Exhausted(token) => Index(token) < Index(token'))
  <2>1. ~Exhausted(token) => Index(token) < Index(token')
    BY <1>1, NextTokenGrows DEF Issues, Index
  <2> QED
    BY <1>3, <2>1, IndexType
<1>5. x \in (1 .. MaxRuns) \X Token /\ x[1] = runs /\ x[2] = token'
  <2>1. runs \in 0 .. MaxRuns /\ runs > 0
    BY DEF Types, ProcessTypes
  <2>2. runs \in 1 .. MaxRuns
    BY <2>1, EntryAssumption
  <2> QED
    BY <1>3, <2>2
<1>6. issued' = Append(issued, x)
  BY DEF Issues
<1> HIDE DEF x
<1>7. /\ \A i \in 1 .. L : issued'[i] = issued[i]
      /\ issued'[L + 1] = x /\ Len(issued') = L + 1
  <2>1. \A i \in 1 .. L : issued'[i] = issued[i]
    BY <1>1, <1>5, <1>6, WithLast
  <2>2. issued'[L + 1] = x
    BY <1>1, <1>5, <1>6, WithLast
  <2>3. Len(issued') = L + 1
    BY <1>1, <1>5, <1>6, AppendProperties
  <2> QED
    BY <2>1, <2>2, <2>3
<1>8. ASSUME NEW i \in 1 .. L, \A k \in i .. L : ~Exhausted(issued'[k][2])
      PROVE  ~Exhausted(token) /\ (kept \/ issued'[i][1] = runs => Index(issued'[i][2]) <= Index(token))
  <2>1. \A k \in i .. L : k \in 1 .. L /\ issued'[k] = issued[k] /\ ~Exhausted(issued[k][2])
    BY <1>2, <1>7, <1>8
  <2>2. L \in i .. L /\ i \in i .. L
    BY <1>2
  <2>3. ~Exhausted(token)
    BY <2>1, <2>2 DEF ExhaustedIssued
  <2>4. kept \/ issued[i][1] = runs => Index(issued[i][2]) <= Index(token)
    BY <2>1 DEF NoneLarger
  <2> QED
    BY <2>1, <2>2, <2>3, <2>4
<1>9. ASSUME NEW i \in 1 .. L PROVE issued'[i][1] <= runs
  BY <1>7 DEF NoneLarger
<1> HIDE DEF L
<1>10. TokensAscend'
  <2> SUFFICES ASSUME NEW i \in 1 .. L + 1, NEW j \in 1 .. L + 1, i < j,
                      ~kept => issued'[i][1] = issued'[j][1],
                      \A k \in i .. j - 1 : ~Exhausted(issued'[k][2])
               PROVE  Index(issued'[i][2]) < Index(issued'[j][2])
    BY <1>7 DEF TokensAscend, Index
  <2>1. i \in 1 .. L
    BY <1>2
  <2>2. CASE j \in 1 .. L
    <3>1. issued'[i] = issued[i] /\ issued'[j] = issued[j]
      BY <1>7, <2>1, <2>2
    <3>2. \A k \in i .. j - 1 : ~Exhausted(issued[k][2])
      <4>1. \A k \in i .. j - 1 : k \in 1 .. L
        BY <1>2, <2>1, <2>2
      <4> QED
        BY <1>7, <4>1
    <3>3. ~kept => issued[i][1] = issued[j][1]
      BY <3>1
    <3> QED
      BY <2>1, <2>2, <3>1, <3>2, <3>3 DEF TokensAscend, L
  <2>3. CASE j = L + 1
    <3>1. issued'[j][1] = runs /\ issued'[j][2] = token'
      BY <1>5, <1>7, <2>3
    <3>2. j - 1 = L
      BY <1>2, <2>3
    <3>3. ~Exhausted(token) /\ Index(issued'[i][2]) <= Index(token)
      BY <1>8, <2>1, <3>1, <3>2
    <3>4. Index(issued'[i][2]) \in Int
      BY <1>2, <1>7, <2>1
    <3>5. Index(issued'[i][2]) < Index(token')
      BY <1>2, <1>4, <3>3, <3>4
    <3> QED
      BY <3>1, <3>5
  <2>4. j \in 1 .. L \/ j = L + 1
    BY <1>2
  <2> QED
    BY <2>2, <2>3, <2>4
<1>11. NoneLarger'
  <2> SUFFICES ASSUME NEW i \in 1 .. L + 1
               PROVE  /\ issued'[i][1] <= runs
                      /\ (kept \/ issued'[i][1] = runs) /\ (\A k \in i .. L + 1 : ~Exhausted(issued'[k][2]))
                             => Index(issued'[i][2]) <= Index(token')
    BY <1>7 DEF NoneLarger, Index
  <2>1. CASE i \in 1 .. L
    <3>1. Index(issued'[i][2]) \in Int
      BY <1>2, <1>7, <2>1
    <3>2. issued'[i][1] <= runs
      BY <1>9, <2>1
    <3>3. ASSUME kept \/ issued'[i][1] = runs, \A k \in i .. L + 1 : ~Exhausted(issued'[k][2])
          PROVE  Index(issued'[i][2]) <= Index(token')
      <4>1. \A k \in i .. L : ~Exhausted(issued'[k][2])
        BY <1>2, <3>3
      <4>2. ~Exhausted(token) /\ Index(issued'[i][2]) <= Index(token)
        BY <1>8, <2>1, <3>3, <4>1
      <4> QED
        BY <1>2, <1>4, <3>1, <4>2
    <3> QED
      BY <3>2, <3>3
  <2>2. CASE i = L + 1
    <3>1. issued'[i][1] = runs /\ issued'[i][2] = token'
      BY <1>5, <1>7, <2>2
    <3> QED
      BY <1>2, <1>4, <3>1
  <2>3. i \in 1 .. L \/ i = L + 1
    BY <1>2
  <2> QED
    BY <2>1, <2>2, <2>3
<1>12. ExhaustedIssued'
  <2>1. issued' # << >>
    BY <1>2, <1>7
  <2>2. issued'[Len(issued')][2] = token'
    BY <1>5, <1>7
  <2> QED
    BY <2>1, <2>2 DEF ExhaustedIssued
<1> QED
  BY <1>10, <1>11, <1>12

\* A step that issues nothing, and after which the same process is running.
LEMMA NothingIssued ==
    ASSUME TokensAscend, NoneLarger, ExhaustedIssued, UNCHANGED << issued, token, runs, kept >>
    PROVE  TokensAscend' /\ NoneLarger' /\ ExhaustedIssued'
<1>1. TokensAscend'
  BY DEF TokensAscend, Index
<1>2. NoneLarger'
  BY DEF NoneLarger, Index
<1>3. ExhaustedIssued'
  BY DEF ExhaustedIssued
<1> QED
  BY <1>1, <1>2, <1>3

\* What is saved last, if it is the session's own, is m_token.
LEMMA SaveAscends ==
    ASSUME Types, AscendInv, saveOpen \/ saveWrite
    PROVE  AscendInv'
<1>1. UNCHANGED << token, kept, issued, runs >>
  BY DEF saveOpen, saveWrite, memberVars
<1>2. /\ unsaved \in Seq(Saver) /\ unsaved # << >>
      /\ running' \in {"stopping", "saving"}
      /\ unsaved' = Tail(unsaved) \/ unsaved' = unsaved
  BY DEF saveOpen, saveWrite, Types, ProcessTypes
<1>3. \A i \in 1 .. Len(unsaved') : unsaved'[i].own => unsaved'[i].token = token
  <2>1. ASSUME NEW i \in 1 .. Len(unsaved') PROVE \E k \in 1 .. Len(unsaved) : unsaved'[i] = unsaved[k]
    <3>1. CASE unsaved' = unsaved
      BY <3>1
    <3>2. CASE unsaved' = Tail(unsaved)
      BY <1>2, <3>2, WithoutHead
    <3> QED
      BY <1>2, <3>1, <3>2
  <2> QED
    BY <2>1 DEF AscendInv, SavedIsToken
<1>4. SavedIsToken'
  <2>1. CASE UNCHANGED << file, left >>
    BY <1>1, <1>2, <1>3, <2>1 DEF AscendInv, SavedIsToken, Index, savedIndex
  <2>2. CASE file' = Torn /\ left' = "nothing"
    BY <1>1, <1>2, <1>3, <2>2 DEF SavedIsToken, Torn
  <2>3. CASE LET m == Head(unsaved)
             IN  /\ file' = JsonFile([last_used_order_token_index |-> savedIndex(m.token)])
                 /\ left' = IF m.own /\ fitsInt(parse_order_token_decimal(m.token) + 1) THEN "own" ELSE "old"
    <3>1. ASSUME left' = "own"
          PROVE  /\ file' = JsonFile([last_used_order_token_index |-> savedIndex(token)])
                 /\ fitsInt(Index(token) + 1)
      <4>1. Head(unsaved).own /\ fitsInt(parse_order_token_decimal(Head(unsaved).token) + 1)
        BY <2>3, <3>1
      <4>2. Head(unsaved).token = token
        <5>1. Head(unsaved) = unsaved[1] /\ 1 \in 1 .. Len(unsaved)
          BY <1>2, WithoutHead
        <5>2. unsaved[1].own => unsaved[1].token = token
          BY <5>1 DEF AscendInv, SavedIsToken
        <5> QED
          BY <4>1, <5>1, <5>2
      <4> QED
        BY <2>3, <4>1, <4>2 DEF Index
    <3>2. left' \in {"own", "old"}
      BY <2>3
    <3> QED
      BY <1>1, <1>2, <1>3, <3>1, <3>2 DEF SavedIsToken, Index, savedIndex
  <2> QED
    BY <2>1, <2>2, <2>3 DEF saveOpen, saveWrite
<1> QED
  BY <1>1, <1>4, NothingIssued DEF AscendInv

\* A process that starts with what the session saved goes on after its last token.
LEMMA StartAscends ==
    ASSUME EntryInv, AscendInv, Start
    PROVE  AscendInv'
<1> DEFINE app == parseAppParameters(file)
<1>0. Types
  BY DEF EntryInv
<1>1. running = "down" /\ runs' = runs + 1 /\ UNCHANGED << unsaved, file, issued >>
  BY DEF Start
<1>2. /\ Len(issued) \in Nat /\ runs \in Nat /\ Index(token) \in Int
      /\ \A i \in 1 .. Len(issued) :
             issued[i][1] \in Nat /\ issued[i][2] \in Token /\ Index(issued[i][2]) \in Int
  BY <1>0, IssuedNumbers
<1>3. unsaved' = << >> /\ Len(<< >>) = 0
  BY <1>1 DEF AscendInv, SavedIsToken
<1>4. ASSUME NEW i \in 1 .. Len(issued) PROVE issued[i][1] <= runs' /\ issued[i][1] # runs'
  <2>1. issued[i][1] <= runs
    BY DEF AscendInv, NoneLarger
  <2> QED
    BY <1>1, <1>2, <2>1
<1>5. CASE UNCHANGED << token, running, kept, left >>
  <2>1. TokensAscend'
    BY <1>1, <1>5 DEF AscendInv, TokensAscend, Index
  <2>2. NoneLarger'
    BY <1>1, <1>4, <1>5 DEF AscendInv, NoneLarger, Index
  <2>4. ExhaustedIssued'
    BY <1>1, <1>5 DEF AscendInv, ExhaustedIssued
  <2>3. SavedIsToken'
    BY <1>1, <1>3, <1>5 DEF AscendInv, SavedIsToken, Index, savedIndex
  <2> QED
    BY <1>5, <2>1, <2>2, <2>3, <2>4 DEF AscendInv
<1>6. CASE /\ app.verdict /\ running' = "started" /\ token' = firstToken(app.index)
           /\ kept' = (kept /\ left # "old") /\ left' = "old"
  <2>1. kept' \in BOOLEAN /\ (kept' => kept /\ left # "old")
    BY <1>6 DEF AscendInv
  <2>2. TokensAscend'
    BY <1>1, <2>1 DEF AscendInv, TokensAscend, Index
  <2>3. SavedIsToken'
    BY <1>3, <1>6 DEF SavedIsToken
  <2>4. app.index \in Nat /\ Index(token') = StartOf(app.index) /\ ~Exhausted(token')
    <3>1. app.index \in Nat
      BY StartsFrom DEF EntryInv, Types
    <3> HIDE DEF app
    <3> QED
      BY <1>6, <3>1, FirstTokenSpells DEF Index
  <2>5. ASSUME kept', NEW i \in 1 .. Len(issued), \A k \in i .. Len(issued) : ~Exhausted(issued[k][2])
        PROVE  Index(issued[i][2]) <= Index(token')
    <3>1. file.valid /\ app.index = file.json[TokenIndexKey] % SaveMod
      BY <1>6 DEF parseAppParameters
    <3>2. left = "own"
      <4>1. issued # << >>
        BY <2>5
      <4> QED
        BY <2>1, <2>5, <3>1, <4>1 DEF AscendInv, SavedIsToken
    <3>3. file = JsonFile([last_used_order_token_index |-> savedIndex(token)]) /\ fitsInt(Index(token) + 1)
      BY <3>2 DEF AscendInv, SavedIsToken
    <3>4. file.json[TokenIndexKey] = savedIndex(token)
      BY <3>3 DEF JsonFile, TokenIndexKey
    <3>5. app.index = (Index(token) % SaveMod) % SaveMod
      BY <3>1, <3>4 DEF savedIndex, Index
    <3>6. Index(token') = Index(token) + 1
      <4>1. IntMin <= Index(token) + 1 /\ Index(token) + 1 <= IntMax
        <5>1. IntMin \in Int /\ IntMax \in Int
          BY WidthAssumption DEF IntMin, IntMax
        <5> QED
          BY <1>2, <3>3, <5>1 DEF fitsInt
      <4>2. StartOf((Index(token) % SaveMod) % SaveMod) = Index(token) + 1
        BY <1>2, <4>1, StartFollows
      <4> HIDE DEF app
      <4> QED
        BY <2>4, <3>5, <4>2
    <3>7. Index(issued[i][2]) <= Index(token)
      BY <2>1, <2>5 DEF AscendInv, NoneLarger
    <3> QED
      BY <1>2, <3>6, <3>7
  <2>6. NoneLarger'
    <3> SUFFICES ASSUME NEW i \in 1 .. Len(issued)
                 PROVE  /\ issued[i][1] <= runs'
                        /\ (kept' \/ issued[i][1] = runs') /\ (\A k \in i .. Len(issued) : ~Exhausted(issued[k][2]))
                               => Index(issued[i][2]) <= Index(token')
      BY <1>1 DEF NoneLarger, Index
    <3> QED
      BY <1>4, <2>5
  <2>7. ExhaustedIssued'
    BY <2>4 DEF ExhaustedIssued
  <2> QED
    BY <2>1, <2>2, <2>3, <2>6, <2>7 DEF AscendInv
<1> QED
  BY <1>5, <1>6 DEF Start

\* Before the first process no token has been issued.
LEMMA AscendInvInit == Init => AscendInv
<1> SUFFICES ASSUME Init PROVE AscendInv
  OBVIOUS
<1>1. ~Exhausted(token)
  <2>1. 0 \in Nat
    OBVIOUS
  <2> QED
    BY <2>1, FirstTokenSpells DEF Init
<1>2. issued = << >> /\ unsaved = << >> /\ Len(<< >>) = 0 /\ left = "nothing" /\ kept = TRUE
  BY DEF Init
<1> QED
  BY <1>1, <1>2 DEF Init, AscendInv, TokensAscend, NoneLarger, ExhaustedIssued, SavedIsToken

\* Every step keeps them ascending.
LEMMA AscendInvStep == EntryInv /\ AscendInv /\ [Next]_vars => AscendInv'
<1> SUFFICES ASSUME EntryInv, AscendInv, [Next]_vars PROVE AscendInv'
  OBVIOUS
<1>1. Types /\ AboutMine
  BY DEF EntryInv
<1>2. CASE ClientStep
  <2>1. /\ running = "logged in" /\ UNCHANGED << running, unsaved, file, left, kept, runs >>
        /\ Issues \/ IssuesNothing
    BY <1>2 DEF ClientStep
  <2>2. SavedIsToken'
    <3>1. left' = "old" /\ unsaved' = << >> /\ Len(<< >>) = 0
      BY <2>1 DEF AscendInv, SavedIsToken
    <3> QED
      BY <3>1 DEF SavedIsToken
  <2>3. TokensAscend' /\ NoneLarger' /\ ExhaustedIssued'
    <3>1. CASE Issues
      BY <1>1, <2>1, <3>1, IssuesAscends DEF AscendInv
    <3>2. CASE IssuesNothing
      BY <2>1, <3>2, NothingIssued DEF AscendInv, IssuesNothing
    <3> QED
      BY <2>1, <3>1, <3>2
  <2> QED
    BY <2>1, <2>2, <2>3 DEF AscendInv
<1>3. CASE UNCHANGED << running, token, unsaved, file, left, kept, issued, runs >>
  <2>1. SavedIsToken'
    BY <1>3 DEF AscendInv, SavedIsToken, Index, savedIndex
  <2> QED
    BY <1>3, <2>1, NothingIssued DEF AscendInv
<1>4. CASE login
  <2>1. /\ running = "started" /\ running' = "logged in"
        /\ UNCHANGED << token, unsaved, file, left, kept, issued, runs >>
    BY <1>4 DEF login, memberVars
  <2>2. SavedIsToken'
    BY <2>1 DEF AscendInv, SavedIsToken, Index, savedIndex
  <2> QED
    BY <2>1, <2>2, NothingIssued DEF AscendInv
<1>5. CASE Stop
  <2>1. running' = "stopping" /\ UNCHANGED << token, file, left, kept, issued, runs >>
    BY <1>5 DEF Stop
  <2>2. token \in Token /\ other \in Seq(Token)
    BY <1>1 DEF Types, ProcessTypes
  <2>3. \A i \in 1 .. Len(unsaved') : unsaved'[i].own => unsaved'[i].token = token
    <3>1. unsaved' \in SaveOrders(token, other)
      BY <1>5 DEF Stop, SaveOrders
    <3> QED
      BY <2>2, <3>1, Savers
  <2>4. SavedIsToken'
    BY <2>1, <2>3 DEF AscendInv, SavedIsToken, Index, savedIndex
  <2> QED
    BY <2>1, <2>4, NothingIssued DEF AscendInv
<1>6. CASE Exit
  <2>1. running' = "down" /\ unsaved' = << >> /\ UNCHANGED << token, file, left, kept, issued, runs >>
    BY <1>6 DEF Exit
  <2>2. Len(<< >>) = 0
    OBVIOUS
  <2>3. SavedIsToken'
    <3>1. \A i \in 1 .. Len(unsaved') : unsaved'[i].own => unsaved'[i].token = token'
      BY <2>1, <2>2
    <3>2. UNCHANGED << token, file, left, issued >> /\ running' = "down" /\ unsaved' = << >>
      BY <2>1
    <3> QED
      BY <3>1, <3>2 DEF AscendInv, SavedIsToken, Index, savedIndex
  <2> QED
    BY <2>1, <2>3, NothingIssued DEF AscendInv
<1>7. CASE handleMessage \/ Trade
  BY <1>1, <1>2, <1>7, HandleIsStep, TradeIsStep
<1>8. CASE \/ OtherTrade \/ Respond
           \/ \E t \in DOMAIN open, qty \in 1 .. OrderQty : Trades(t, qty)
           \/ \E type \in {"ServerHeartbeat", "EndOfSession"} : Heartbeat(type)
  <2>1. UNCHANGED << running, token, unsaved, file, left, kept, issued, runs >>
    BY <1>8 DEF OtherTrade, Respond, Trades, Heartbeat, memberVars, processVars, rest
  <2> QED
    BY <1>3, <2>1
<1>9. CASE saveOpen \/ saveWrite
  BY <1>1, <1>9, SaveAscends
<1>10. CASE Start
  BY <1>10, StartAscends
<1>11. CASE UNCHANGED vars
  <2>1. UNCHANGED << running, token, unsaved, file, left, kept, issued, runs >>
    BY <1>11 DEF vars, memberVars, processVars
  <2> QED
    BY <1>3, <2>1
<1> QED
  BY <1>4, <1>5, <1>6, <1>7, <1>8, <1>9, <1>10, <1>11 DEF Next

\* Every token a process sends spells a larger number than all it has sent before, and
\* than those of the processes before it as long as each has found its session's own
\* index in app_parameters.json, the number after it fits an int, or it has left the file
\* unreadable: over any number of stops, crashes and restarts.  Only a token that begins
\* with a nine breaks the chain: the branchless increment may start again at zero.
THEOREM TokensAscendAlways == Spec => []TokensAscend
<1>1. AscendInv => TokensAscend
  BY DEF AscendInv
<1> QED
  BY <1>1, EntryInvAlways, AscendInvInit, AscendInvStep, PTL DEF Spec

----------------------------------------------------------------------------
(* What the messages on their way say was traded. *)

\* The sums of what the first messages say was traded.
Sums(s, t, f) ==
    /\ f[0] = 0
    /\ \A i \in 1 .. Len(s) : f[i] = f[i - 1] + Amount(s[i], t)
    /\ \A i \in 0 .. Len(s) : f[i] \in Nat

\* An amount is a number.
LEMMA AmountType ==
    ASSUME NEW m \in Response, NEW t
    PROVE  Amount(m, t) \in Nat
<1>1. m.type = "Executed" => m.quantity \in Nat
  BY ResponseFields, ManagerAssumption DEF OrderQuantity
<1> QED
  BY <1>1 DEF Amount

\* The sums exist, and the last one is what all messages say.
LEMMA TradedSums ==
    ASSUME NEW s \in Seq(Response), NEW t
    PROVE  \E f : Sums(s, t, f) /\ TradedIn(s, t) = f[Len(s)]
<1> DEFINE N == Len(s)
           A(i) == Amount(s[i], t)
           Step(f) == [i \in 0 .. N |-> IF i = 0 THEN 0 ELSE f[i - 1] + A(i)]
           R == CHOOSE f : f = Step(f)
<1>1. N \in Nat
  BY LenProperties
<1>2. TradedIn(s, t) = R[N]
  BY DEF TradedIn
<1>3. \A i \in 1 .. N : A(i) \in Nat
  BY AmountType, ElementOfSeq
<1> HIDE DEF N, A
<1> DEFINE SumsTo(n, f) == f = [i \in 0 .. n |-> IF i = 0 THEN 0 ELSE f[i - 1] + A(i)]
           S == {n \in 0 .. N : \E f : SumsTo(n, f)}
<1>4. 0 \in S
  <2> DEFINE f == [i \in 0 .. 0 |-> 0]
  <2>1. f = [i \in 0 .. 0 |-> IF i = 0 THEN 0 ELSE f[i - 1] + A(i)]
    OBVIOUS
  <2> HIDE DEF f
  <2>2. SumsTo(0, f)
    BY <2>1
  <2> QED
    BY <1>1, <2>2
<1>5. ASSUME NEW n \in 0 .. N - 1, n \in S PROVE n + 1 \in S
  <2>1. PICK f : SumsTo(n, f)
    BY <1>5
  <2>2. f[0] = 0 /\ \A i \in 1 .. n : f[i] = f[i - 1] + A(i)
    BY <2>1
  <2> DEFINE last == f[n] + A(n + 1)
             h == [i \in 0 .. n + 1 |-> IF i <= n THEN f[i] ELSE last]
             rhs(i) == IF i = 0 THEN 0 ELSE h[i - 1] + A(i)
  <2> HIDE DEF last, SumsTo
  <2>3. DOMAIN h = 0 .. n + 1 /\ h[n + 1] = last /\ \A i \in 0 .. n : h[i] = f[i]
    OBVIOUS
  <2>4. h = [i \in 0 .. n + 1 |-> h[i]]
    BY <2>3
  <2> HIDE DEF h
  <2>5. ASSUME NEW i \in 0 .. n + 1 PROVE h[i] = rhs(i)
    <3>1. CASE i = 0
      BY <2>2, <2>3, <3>1
    <3>2. CASE i \in 1 .. n
      <4>1. i \in 0 .. n /\ i - 1 \in 0 .. n /\ i # 0
        BY <3>2
      <4> QED
        BY <2>2, <2>3, <3>2, <4>1
    <3>3. CASE i = n + 1
      <4>1. i - 1 = n /\ n \in 0 .. n /\ i # 0
        BY <3>3
      <4> QED
        BY <2>3, <3>3, <4>1 DEF last
    <3> QED
      BY <3>1, <3>2, <3>3
  <2> HIDE DEF rhs
  <2>6. h = [i \in 0 .. n + 1 |-> rhs(i)]
    BY <2>4, <2>5
  <2>7. SumsTo(n + 1, h) /\ n + 1 \in 0 .. N
    BY <1>1, <2>6 DEF SumsTo, rhs
  <2> QED
    BY <2>7
<1> HIDE DEF S
<1>6. \A n \in 0 .. N : n \in S
  BY <1>1, <1>4, <1>5, UpTo
<1>7. N \in S
  BY <1>1, <1>6
<1>8. R = Step(R)
  <2>1. \E f : f = Step(f)
    BY <1>7 DEF S
  <2> QED
    BY <2>1
<1> HIDE DEF R
<1>9. R[0] = 0 /\ \A i \in 1 .. N : R[i] = R[i - 1] + A(i)
  <2>1. 0 \in 0 .. N
    BY <1>1
  <2>2. \A i \in 1 .. N : i \in 0 .. N /\ i # 0
    BY <1>1
  <2> QED
    BY <1>8, <2>1, <2>2
<1> DEFINE T == {n \in 0 .. N : R[n] \in Nat}
<1>10. 0 \in T
  BY <1>1, <1>9
<1>11. ASSUME NEW n \in 0 .. N - 1, n \in T PROVE n + 1 \in T
  <2>1. n + 1 \in 1 .. N /\ n + 1 \in 0 .. N /\ (n + 1) - 1 = n
    BY <1>1
  <2>2. R[n] \in Nat /\ A(n + 1) \in Nat /\ R[n + 1] = R[n] + A(n + 1)
    BY <1>3, <1>9, <1>11, <2>1
  <2> QED
    BY <2>1, <2>2
<1> HIDE DEF T
<1>12. \A n \in 0 .. N : n \in T
  BY <1>1, <1>10, <1>11, UpTo
<1>13. Sums(s, t, R)
  BY <1>9, <1>12 DEF Sums, T, N, A
<1> QED
  BY <1>2, <1>13 DEF N

\* Without messages nothing was traded; one more message adds what it says, and the
\* oldest one takes away what it said.
LEMMA TradedChanges ==
    ASSUME NEW s \in Seq(Response), NEW t
    PROVE  /\ TradedIn(s, t) \in Nat
           /\ \A m \in Response : TradedIn(Append(s, m), t) = TradedIn(s, t) + Amount(m, t)
           /\ s # << >> => TradedIn(s, t) = Amount(Head(s), t) + TradedIn(Tail(s), t)
           /\ (\A i \in 1 .. Len(s) : Amount(s[i], t) = 0) => TradedIn(s, t) = 0
<1> DEFINE N == Len(s)
<1>1. N \in Nat
  BY LenProperties
<1>2. PICK f : Sums(s, t, f) /\ TradedIn(s, t) = f[N]
  BY TradedSums
<1>3. f[0] = 0 /\ (\A i \in 1 .. N : f[i] = f[i - 1] + Amount(s[i], t)) /\ \A i \in 0 .. N : f[i] \in Nat
  BY <1>2 DEF Sums
<1>4. TradedIn(s, t) \in Nat
  BY <1>1, <1>2, <1>3
<1>5. ASSUME NEW m \in Response PROVE TradedIn(Append(s, m), t) = TradedIn(s, t) + Amount(m, t)
  <2> DEFINE a == Append(s, m)
  <2>1. a \in Seq(Response) /\ Len(a) = N + 1 /\ a[N + 1] = m /\ \A i \in 1 .. N : a[i] = s[i]
    BY <1>5, AppendProperties
  <2> HIDE DEF a, N
  <2>2. PICK g : Sums(a, t, g) /\ TradedIn(a, t) = g[N + 1]
    BY <2>1, TradedSums
  <2>3. g[0] = 0 /\ (\A i \in 1 .. N + 1 : g[i] = g[i - 1] + Amount(a[i], t))
    BY <2>1, <2>2 DEF Sums
  <2> DEFINE S == {n \in 0 .. N : g[n] = f[n]}
  <2>4. 0 \in S
    BY <1>1, <1>3, <2>3
  <2>5. ASSUME NEW n \in 0 .. N - 1, n \in S PROVE n + 1 \in S
    <3>1. n + 1 \in 1 .. N /\ n + 1 \in 1 .. N + 1 /\ n + 1 \in 0 .. N /\ (n + 1) - 1 = n
      BY <1>1
    <3>2. g[n + 1] = g[n] + Amount(a[n + 1], t) /\ f[n + 1] = f[n] + Amount(s[n + 1], t) /\ a[n + 1] = s[n + 1]
      BY <1>3, <2>1, <2>3, <3>1
    <3> QED
      BY <2>5, <3>1, <3>2
  <2> HIDE DEF S
  <2>6. \A n \in 0 .. N : n \in S
    BY <1>1, <2>4, <2>5, UpTo
  <2>7. g[N] = f[N]
    BY <1>1, <2>6 DEF S
  <2>8. N + 1 \in 1 .. N + 1 /\ (N + 1) - 1 = N
    BY <1>1
  <2>9. g[N + 1] = g[N] + Amount(m, t)
    BY <2>1, <2>3, <2>8
  <2> QED
    BY <1>2, <2>2, <2>7, <2>9 DEF a, N
<1>6. ASSUME s # << >> PROVE TradedIn(s, t) = Amount(Head(s), t) + TradedIn(Tail(s), t)
  <2> DEFINE a == Tail(s)
             h == Amount(Head(s), t)
  <2>1. N # 0 /\ Head(s) = s[1] /\ s[1] \in Response
    BY <1>6, EmptySeq, WithoutHead
  <2>2. a \in Seq(Response) /\ Len(a) = N - 1 /\ \A i \in 1 .. N - 1 : a[i] = s[i + 1]
    BY <1>6, HeadTailProperties
  <2>3. h \in Nat
    BY <2>1, AmountType
  <2> HIDE DEF N
  <2> DEFINE M == N - 1
  <2>4. M \in Nat /\ N = M + 1
    BY <1>1, <2>1
  <2> HIDE DEF a, M
  <2>5. PICK g : Sums(a, t, g) /\ TradedIn(a, t) = g[M]
    BY <2>2, TradedSums DEF M
  <2>6. g[0] = 0 /\ (\A i \in 1 .. M : g[i] = g[i - 1] + Amount(a[i], t)) /\ \A i \in 0 .. M : g[i] \in Nat
    BY <2>2, <2>5 DEF Sums, M
  <2> DEFINE S == {n \in 0 .. M : f[n + 1] = h + g[n]}
  <2>7. 0 \in S
    <3>1. 1 \in 1 .. N /\ 1 - 1 = 0 /\ 0 \in 0 .. M
      BY <2>4
    <3>2. f[1] = f[0] + Amount(s[1], t)
      BY <1>3, <3>1
    <3> HIDE DEF h
    <3>3. f[1] = 0 + h
      BY <1>3, <2>1, <3>2 DEF h
    <3>4. f[0 + 1] = h + g[0]
      BY <2>3, <2>6, <3>3
    <3> QED
      BY <3>1, <3>4
  <2>8. ASSUME NEW n \in 0 .. M - 1, n \in S PROVE n + 1 \in S
    <3>1. /\ n + 1 \in 1 .. M /\ n + 1 \in 0 .. M /\ (n + 1) - 1 = n /\ n \in 0 .. M
          /\ (n + 1) + 1 \in 1 .. N /\ ((n + 1) + 1) - 1 = n + 1 /\ (n + 1) + 1 \in 0 .. N /\ n + 1 \in 1 .. N - 1
      BY <2>4
    <3> DEFINE w == Amount(a[n + 1], t)
    <3>2. a[n + 1] = s[(n + 1) + 1]
      BY <2>2, <3>1
    <3>3. g[n + 1] = g[n] + w /\ f[(n + 1) + 1] = f[n + 1] + w
      BY <1>3, <2>6, <3>1, <3>2
    <3>4. w \in Nat
      BY <2>2, <3>1, AmountType, ElementOfSeq DEF M
    <3>5. f[n + 1] = h + g[n] /\ g[n] \in Nat
      BY <2>6, <2>8, <3>1
    <3> HIDE DEF w, h
    <3>6. f[(n + 1) + 1] = h + g[n + 1]
      BY <2>3, <3>3, <3>4, <3>5
    <3> QED
      BY <3>1, <3>6
  <2> HIDE DEF S
  <2>9. \A n \in 0 .. M : n \in S
    BY <2>4, <2>7, <2>8, UpTo
  <2>10. f[M + 1] = h + g[M]
    BY <2>4, <2>9 DEF S
  <2> QED
    BY <1>2, <2>4, <2>5, <2>10 DEF a
<1>7. ASSUME \A i \in 1 .. Len(s) : Amount(s[i], t) = 0 PROVE TradedIn(s, t) = 0
  <2> DEFINE S == {n \in 0 .. N : f[n] = 0}
  <2>1. 0 \in S
    BY <1>1, <1>3
  <2>2. ASSUME NEW n \in 0 .. N - 1, n \in S PROVE n + 1 \in S
    <3>1. n + 1 \in 1 .. N /\ n + 1 \in 0 .. N /\ (n + 1) - 1 = n
      BY <1>1
    <3>2. f[n + 1] = f[n] + Amount(s[n + 1], t) /\ Amount(s[n + 1], t) = 0
      BY <1>3, <1>7, <3>1
    <3> QED
      BY <2>2, <3>1, <3>2
  <2> HIDE DEF S
  <2>3. \A n \in 0 .. N : n \in S
    BY <1>1, <2>1, <2>2, UpTo
  <2> QED
    BY <1>1, <1>2, <2>3 DEF S
<1> QED
  BY <1>4, <1>5, <1>6, <1>7

\* Different tokens have different entries.
LEMMA IndexInjective ==
    ASSUME NEW s \in Token, NEW t \in Token, withinRange(Index(s)), Index(s) = Index(t)
    PROVE  s = t
<1>1. Index(s) >= 0
  BY ManagerAssumption DEF withinRange
<1> QED
  BY <1>1, SpelledOnce DEF Index

----------------------------------------------------------------------------
(* Requests for new tokens, and orders under the token they were entered with. *)

\* Requests that carry a new token, and those tokens.
Asks(r) == r.type \in {"Enter", "Replace"}
AskedFor == {out[i].token : i \in {k \in 1 .. Len(out) : Asks(out[k])}}
AskedOnce ==
    \A i, k \in 1 .. Len(out) : Asks(out[i]) /\ Asks(out[k]) /\ out[i].token = out[k].token => i = k

\* A message that changes the entry of a token.
Tells(m, t) == m.type \in {"Accepted", "Executed", "Rejected"} /\ m.token = t

Valid(t) == withinRange(Index(t)) => orders[Index(t)].is_valid

\* The exchange has not read the request that carries the token.
Unseen(t) ==
    /\ t \notin DOMAIN open /\ \A x \in DOMAIN open : open[x].original # t
    /\ \A i \in 1 .. Len(in) : ~Tells(in[i], t)
    /\ Valid(t)

\* Nothing is told of an order before it is accepted, once, and it is not rejected.
AcceptedFirst(t) ==
    \A i \in 1 .. Len(in) :
        Tells(in[i], t) =>
            /\ in[i].type # "Rejected"
            /\ \A k \in 1 .. Len(in) :
                   in[k].type = "Accepted" /\ in[k].token = t => k <= i /\ in[k].quantity = OrderQty

\* The entry holds what the exchange has left and the client has not read, or will once
\* the acceptance is read.
Tracked(t) ==
    /\ AcceptedFirst(t) /\ Valid(t)
    /\ Acknowledged(t) => (withinRange(Index(t)) => orders[Index(t)].quantity = open[t].left + Traded(t))
    /\ ~Acknowledged(t) => open[t].left + Traded(t) = OrderQty

\* No token that was issued begins with a nine, and m_token is no smaller than those of
\* this process.
NoneExhausted == \A i \in 1 .. Len(issued) : ~Exhausted(issued[i][2])
MineNoLarger == \A i \in 1 .. Len(issued) : issued[i][1] = runs => Index(issued[i][2]) <= Index(token)

TrackInv ==
    /\ \A t \in DOMAIN open : open[t].original \in Mine
    /\ AskedOnce
    /\ \A t \in AskedFor : Unseen(t)
    /\ \A t \in DOMAIN open : open[t].original = t => Tracked(t)

\* What a message does to the table.
Applied(o, m) ==
    CASE m.type = "Accepted" -> orderAccepted(o, m.token, m.quantity)
      [] m.type = "Executed" -> orderExecuted(o, m.token, m.quantity)
      [] m.type = "Rejected" -> orderDeleted(o, m.token)
      [] OTHER -> o

\* A message about another token leaves the entry of a token alone.
LEMMA AppliedElsewhere ==
    ASSUME NEW o \in Table, NEW m \in Response, NEW t \in Token, withinRange(Index(t)),
           ~Tells(m, t)
    PROVE  Applied(o, m)[Index(t)] = o[Index(t)]
<1>0. Index(t) \in 0 .. OrdersSize - 1
  BY IndexType
<1>1. CASE m.type \notin {"Accepted", "Executed", "Rejected"}
  BY <1>1 DEF Applied
<1>2. CASE m.type \in {"Accepted", "Executed", "Rejected"}
  <2>1. m.token \in Token /\ m.token # t
    BY <1>2, ResponseFields DEF Tells
  <2>2. Index(t) # Index(m.token)
    BY <2>1, IndexInjective
  <2>3. TableStep(o, Applied(o, m), m.token)
    <3>1. CASE m.type = "Rejected"
      <4>1. Applied(o, m) = orderDeleted(o, m.token)
        BY <3>1 DEF Applied
      <4>2. 0 \in OrderQuantity
        BY ManagerAssumption DEF OrderQuantity
      <4> QED
        BY <2>1, <4>1, <4>2, CallsStep
    <3>2. CASE m.type \in {"Accepted", "Executed"}
      <4>1. m.quantity \in OrderQuantity
        BY <3>2, ResponseFields
      <4>2. Applied(o, m) \in {orderAccepted(o, m.token, m.quantity), orderExecuted(o, m.token, m.quantity)}
        BY <3>2 DEF Applied
      <4> QED
        BY <2>1, <4>1, <4>2, CallsStep
    <3> QED
      BY <1>2, <3>1, <3>2
  <2> QED
    BY <1>0, <2>2, <2>3 DEF TableStep
<1> QED
  BY <1>1, <1>2

\* An acceptance sets the quantity.
LEMMA AppliedAcceptance ==
    ASSUME NEW o \in Table, NEW m \in Response, NEW t \in Token, withinRange(Index(t)),
           m.type = "Accepted", m.token = t
    PROVE  Applied(o, m)[Index(t)] = [o[Index(t)] EXCEPT !.quantity = m.quantity]
<1>0. Index(t) \in 0 .. OrdersSize - 1
  BY IndexType
<1>1. Applied(o, m) = [o EXCEPT ![Index(t)] = [o[Index(t)] EXCEPT !.quantity = m.quantity]]
  BY DEF Applied, orderAccepted, Update, Index
<1> QED
  BY <1>0, <1>1 DEF Table

\* An execution takes its quantity away.
LEMMA AppliedExecution ==
    ASSUME NEW o \in Table, NEW m \in Response, NEW t \in Token, withinRange(Index(t)),
           m.type = "Executed", m.token = t
    PROVE  LET rest_ == (o[Index(t)].quantity - m.quantity) % QtyMod
           IN  Applied(o, m)[Index(t)]
                   = [quantity |-> rest_, is_valid |-> o[Index(t)].is_valid /\ rest_ # 0]
<1>0. Index(t) \in 0 .. OrdersSize - 1
  BY IndexType
<1> DEFINE rest_ == (o[Index(t)].quantity - m.quantity) % QtyMod
<1>1. Applied(o, m)
          = [o EXCEPT ![Index(t)] = [quantity |-> rest_, is_valid |-> o[Index(t)].is_valid /\ rest_ # 0]]
  BY DEF Applied, orderExecuted, Update, Index
<1> HIDE DEF rest_
<1>2. Applied(o, m)[Index(t)] = [quantity |-> rest_, is_valid |-> o[Index(t)].is_valid /\ rest_ # 0]
  BY <1>0, <1>1 DEF Table
<1> QED
  BY <1>2 DEF rest_

\* handleMessage applies the oldest message.
LEMMA HandleApplies ==
    ASSUME handleMessage
    PROVE  in # << >> /\ in' = Tail(in) /\ orders' = Applied(orders, Head(in))
<1> DEFINE m == Head(in)
<1>1. in # << >> /\ in' = Tail(in)
  BY DEF handleMessage
<1> HIDE DEF m
<1>2. ASSUME onOrderAccepted(m) PROVE orders' = Applied(orders, m)
  BY <1>2 DEF onOrderAccepted, Applied
<1>3. ASSUME onOrderExecuted(m) PROVE orders' = Applied(orders, m)
  BY <1>3 DEF onOrderExecuted, Applied
<1>4. ASSUME onOrderRejected(m) PROVE orders' = Applied(orders, m)
  BY <1>4 DEF onOrderRejected, Applied
<1>5. ASSUME onLoginAccepted(m) \/ onLoginRejected(m) \/ onOrderReplaced(m) \/ onOrderCanceled(m)
                 \/ onServerHeartbeat(m) \/ onEndOfSession(m)
      PROVE  orders' = Applied(orders, m)
  <2>1. orders' = orders /\ m.type \notin {"Accepted", "Executed", "Rejected"}
    BY <1>5 DEF onLoginAccepted, onLoginRejected, onOrderReplaced, onOrderCanceled, onServerHeartbeat,
                onEndOfSession
  <2> QED
    BY <2>1 DEF Applied
<1>6. orders' = Applied(orders, m)
  BY <1>2, <1>3, <1>4, <1>5 DEF handleMessage, m
<1> QED
  BY <1>1, <1>6 DEF m

\* A request that is read, and one that is sent.
LEMMA AskedChanges ==
    ASSUME out \in Seq(Request), AskedOnce
    PROVE  /\ out # << >> /\ out' = Tail(out) =>
                  /\ AskedOnce' /\ AskedFor' \subseteq AskedFor
                  /\ Asks(Head(out)) => Head(out).token \in AskedFor /\ Head(out).token \notin AskedFor'
           /\ \A r \in Request :
                  out' = Append(out, r) /\ (Asks(r) => r.token \notin AskedFor) =>
                      /\ AskedOnce' /\ AskedFor' \subseteq AskedFor \cup {r.token}
                      /\ ~Asks(r) => AskedFor' \subseteq AskedFor
<1>1. ASSUME out # << >>, out' = Tail(out)
      PROVE  /\ AskedOnce' /\ AskedFor' \subseteq AskedFor
             /\ Asks(Head(out)) => Head(out).token \in AskedFor /\ Head(out).token \notin AskedFor'
  <2> DEFINE L == Len(out)
  <2>1. /\ L \in Nat /\ Head(out) = out[1] /\ 1 \in 1 .. L
        /\ \A i \in 1 .. Len(out') : i + 1 \in 1 .. L /\ out'[i] = out[i + 1] /\ i \in Nat
    <3>1. L \in Nat /\ Len(out') \in Nat
      BY <1>1, WithoutHead, LenProperties
    <3> QED
      BY <1>1, <3>1, WithoutHead
  <2>2. AskedOnce'
    <3> SUFFICES ASSUME NEW i \in 1 .. Len(out'), NEW k \in 1 .. Len(out'),
                        Asks(out'[i]), Asks(out'[k]), out'[i].token = out'[k].token
                 PROVE  i = k
      BY DEF AskedOnce, Asks
    <3>1. i + 1 = k + 1
      BY <2>1 DEF AskedOnce
    <3> QED
      BY <2>1, <3>1
  <2>3. ASSUME NEW t \in AskedFor' PROVE t \in AskedFor /\ (Asks(out[1]) => t # out[1].token)
    <3>1. PICK i \in 1 .. Len(out') : Asks(out'[i]) /\ out'[i].token = t
      BY <2>3 DEF AskedFor, Asks
    <3>2. i + 1 \in 1 .. L /\ i + 1 # 1 /\ Asks(out[i + 1]) /\ out[i + 1].token = t
      BY <2>1, <3>1
    <3> QED
      BY <2>1, <3>2 DEF AskedFor, AskedOnce
  <2>4. Asks(out[1]) => out[1].token \in AskedFor
    BY <2>1 DEF AskedFor
  <2> QED
    BY <2>1, <2>2, <2>3, <2>4
<1>2. ASSUME NEW r \in Request, out' = Append(out, r), Asks(r) => r.token \notin AskedFor
      PROVE  /\ AskedOnce' /\ AskedFor' \subseteq AskedFor \cup {r.token}
             /\ ~Asks(r) => AskedFor' \subseteq AskedFor
  <2>1. /\ \A i \in 1 .. Len(out') : (i \in 1 .. Len(out) /\ out'[i] = out[i]) \/ (i = Len(out) + 1 /\ out'[i] = r)
    BY <1>2, WithLast
  <2>2. ASSUME NEW i \in 1 .. Len(out), Asks(out[i]) PROVE out[i].token \in AskedFor
    BY <2>2 DEF AskedFor
  <2>3. AskedOnce'
    <3> SUFFICES ASSUME NEW i \in 1 .. Len(out'), NEW k \in 1 .. Len(out'),
                        Asks(out'[i]), Asks(out'[k]), out'[i].token = out'[k].token
                 PROVE  i = k
      BY DEF AskedOnce, Asks
    <3>1. CASE i \in 1 .. Len(out) /\ k \in 1 .. Len(out) /\ out'[i] = out[i] /\ out'[k] = out[k]
      BY <3>1 DEF AskedOnce
    <3>2. CASE i \in 1 .. Len(out) /\ out'[i] = out[i] /\ out'[k] = r
      BY <1>2, <2>2, <3>2
    <3>3. CASE k \in 1 .. Len(out) /\ out'[k] = out[k] /\ out'[i] = r
      BY <1>2, <2>2, <3>3
    <3> QED
      BY <2>1, <3>1, <3>2, <3>3
  <2>4. ASSUME NEW t \in AskedFor' PROVE t \in AskedFor \/ (Asks(r) /\ t = r.token)
    <3>1. PICK i \in 1 .. Len(out') : Asks(out'[i]) /\ out'[i].token = t
      BY <2>4 DEF AskedFor, Asks
    <3> QED
      BY <2>1, <2>2, <3>1
  <2> QED
    BY <2>3, <2>4
<1> QED
  BY <1>1, <1>2

\* A token that is not among those of the process is unseen.
LEMMA FreshIsUnseen ==
    ASSUME EntryInv, \A x \in DOMAIN open : open[x].original \in Mine, NEW t \in Token, t \notin Mine
    PROVE  Unseen(t)
<1>1. t \notin DOMAIN open /\ \A x \in DOMAIN open : open[x].original # t
  BY DEF EntryInv, AboutMine
<1>2. \A i \in 1 .. Len(in) : ~Tells(in[i], t)
  BY DEF EntryInv, AboutMine, Tells
<1>3. Valid(t)
  <2> SUFFICES ASSUME withinRange(Index(t)) PROVE orders[Index(t)].is_valid
    BY DEF Valid
  <2>1. Index(t) \in 0 .. OrdersSize - 1
    BY IndexType
  <2>2. ASSUME NEW u \in Mine PROVE Index(u) # Index(t)
    <3>1. u \in Token
      BY MineTokens DEF EntryInv
    <3> QED
      BY <3>1, IndexInjective
  <2>3. orders[Index(t)] = NoOrders[Index(t)]
    BY <2>1, <2>2 DEF EntryInv, Untouched
  <2> QED
    BY <2>1, <2>3 DEF NoOrders
<1> QED
  BY <1>1, <1>2, <1>3 DEF Unseen

\* It stays unseen while the client reads.
LEMMA ReadUnseen ==
    ASSUME Types, NEW t \in Token, Unseen(t), in # << >>, in' = Tail(in),
           orders' = Applied(orders, Head(in)), open' = open
    PROVE  Unseen(t)'
<1>1. in \in Seq(Response) /\ orders \in Table
  BY DEF Types, ProcessTypes, SessionTypes
<1>2. /\ Head(in) = in[1] /\ in[1] \in Response /\ 1 \in 1 .. Len(in)
      /\ \A i \in 1 .. Len(in') : i + 1 \in 1 .. Len(in) /\ in'[i] = in[i + 1]
  BY <1>1, WithoutHead
<1>3. ASSUME NEW i \in 1 .. Len(in') PROVE ~Tells(in'[i], t)
  BY <1>2 DEF Unseen
<1>4. withinRange(Index(t)) => orders'[Index(t)] = orders[Index(t)]
  <2>1. ~Tells(in[1], t) /\ orders' = Applied(orders, in[1])
    BY <1>2 DEF Unseen
  <2> QED
    BY <1>1, <1>2, <2>1, AppliedElsewhere
<1>5. t \notin DOMAIN open' /\ \A x \in DOMAIN open' : open'[x].original # t
  BY DEF Unseen
<1>6. Valid(t)'
  BY <1>4 DEF Unseen, Valid, Index
<1> QED
  BY <1>3, <1>5, <1>6 DEF Unseen, Tells

\* An order stays tracked while the client reads.
LEMMA ReadTracked ==
    ASSUME Types, NEW t \in DOMAIN open, Tracked(t), in # << >>, in' = Tail(in),
           orders' = Applied(orders, Head(in)), open' = open
    PROVE  Tracked(t)'
<1> DEFINE m == in[1]
           n == Index(t)
           L == open[t].left
           T == TradedIn(in, t)
           T1 == TradedIn(in', t)
           A == Amount(m, t)
<1>1. in \in Seq(Response) /\ orders \in Table /\ t \in Token
  BY DEF Types, ProcessTypes, SessionTypes
<1>2. /\ Head(in) = m /\ m \in Response /\ 1 \in 1 .. Len(in) /\ in' \in Seq(Response)
      /\ \A i \in 1 .. Len(in') : i + 1 \in 1 .. Len(in) /\ in'[i] = in[i + 1]
      /\ \A i \in 1 .. Len(in) : i # 1 => i - 1 \in 1 .. Len(in') /\ in'[i - 1] = in[i]
  BY <1>1, WithoutHead
<1>3. L \in Nat /\ L > 0
  <2>1. open[t] \in [left : 1 .. OrderQty, original : Token]
    BY DEF Types, SessionTypes
  <2> QED
    BY <2>1, EntryAssumption
<1>4. T \in Nat /\ T1 \in Nat /\ A \in Nat /\ T = A + T1
  BY <1>1, <1>2, TradedChanges, AmountType
<1>5. /\ Tells(m, t) => m.type # "Rejected"
      /\ \A k \in 1 .. Len(in) :
             Tells(m, t) /\ in[k].type = "Accepted" /\ in[k].token = t => k <= 1 /\ in[k].quantity = OrderQty
  BY <1>2 DEF Tracked, AcceptedFirst
<1>6. AcceptedFirst(t)'
  <2> SUFFICES ASSUME NEW i \in 1 .. Len(in'), Tells(in'[i], t)
               PROVE  /\ in'[i].type # "Rejected"
                      /\ \A k \in 1 .. Len(in') :
                             in'[k].type = "Accepted" /\ in'[k].token = t => k <= i /\ in'[k].quantity = OrderQty
    BY DEF AcceptedFirst, Tells
  <2>1. i + 1 \in 1 .. Len(in) /\ in'[i] = in[i + 1]
    BY <1>2
  <2>2. in[i + 1].type # "Rejected"
    BY <2>1 DEF Tracked, AcceptedFirst
  <2>3. ASSUME NEW k \in 1 .. Len(in'), in'[k].type = "Accepted", in'[k].token = t
        PROVE  k <= i /\ in'[k].quantity = OrderQty
    <3>1. k + 1 \in 1 .. Len(in) /\ in'[k] = in[k + 1]
      BY <1>2
    <3>2. k + 1 <= i + 1 /\ in[k + 1].quantity = OrderQty
      BY <2>1, <2>3, <3>1 DEF Tracked, AcceptedFirst
    <3> QED
      BY <3>1, <3>2
  <2> QED
    BY <2>1, <2>2, <2>3
<1>7. open'[t].left = L /\ Traded(t)' = T1 /\ Traded(t) = T
  BY DEF Traded
<1>8. withinRange(n) => n \in 0 .. OrdersSize - 1
  BY <1>1, IndexType
<1> HIDE DEF T, T1, A, L, m, n
<1>9. CASE ~Tells(m, t)
  <2>1. A = 0
    BY <1>9 DEF Tells, A, Amount
  <2>2. withinRange(n) => orders'[n] = orders[n]
    BY <1>1, <1>2, <1>9, AppliedElsewhere DEF n
  <2>3. T1 = T
    BY <1>4, <2>1
  <2>4. Acknowledged(t)' <=> Acknowledged(t)
    <3>1. ASSUME NEW i \in 1 .. Len(in), in[i].type = "Accepted", in[i].token = t, Acknowledged(t)' PROVE FALSE
      <4>1. i # 1
        BY <1>9, <3>1 DEF Tells, m
      <4>2. i - 1 \in 1 .. Len(in') /\ in'[i - 1] = in[i]
        BY <1>2, <4>1
      <4> QED
        BY <3>1, <4>2 DEF Acknowledged
    <3>2. ASSUME NEW i \in 1 .. Len(in'), in'[i].type = "Accepted", in'[i].token = t, Acknowledged(t) PROVE FALSE
      BY <1>2, <3>2 DEF Acknowledged
    <3> QED
      BY <3>1, <3>2 DEF Acknowledged
  <2>5. Valid(t)'
    BY <2>2 DEF Tracked, Valid, n, Index
  <2>6. Acknowledged(t)' => (withinRange(n) => orders'[n].quantity = open'[t].left + Traded(t)')
    BY <1>7, <2>2, <2>3, <2>4 DEF Tracked, n, L
  <2>7. ~Acknowledged(t)' => open'[t].left + Traded(t)' = OrderQty
    BY <1>7, <2>3, <2>4 DEF Tracked, L
  <2> QED
    BY <1>6, <2>5, <2>6, <2>7 DEF Tracked, n, Index
<1>10. CASE m.type = "Accepted" /\ m.token = t
  <2>1. A = 0 /\ Tells(m, t)
    BY <1>10 DEF A, Amount, Tells
  <2>2. m.quantity = OrderQty /\ \A k \in 1 .. Len(in) : in[k].type = "Accepted" /\ in[k].token = t => k = 1
    <3>1. m.quantity = OrderQty
      BY <1>2, <1>5, <1>10, <2>1 DEF m
    <3>2. ASSUME NEW k \in 1 .. Len(in), in[k].type = "Accepted", in[k].token = t PROVE k = 1
      BY <1>5, <2>1, <3>2
    <3> QED
      BY <3>1, <3>2
  <2>3. ~Acknowledged(t)
    BY <1>2, <1>10 DEF Acknowledged, m
  <2>4. L + T = OrderQty
    BY <1>7, <2>3 DEF Tracked, L
  <2>5. Acknowledged(t)'
    <3>1. ASSUME NEW i \in 1 .. Len(in'), in'[i].type = "Accepted", in'[i].token = t PROVE FALSE
      <4>1. i + 1 \in 1 .. Len(in) /\ in'[i] = in[i + 1] /\ i + 1 # 1
        BY <1>2
      <4> QED
        BY <2>2, <3>1, <4>1
    <3> QED
      BY <3>1 DEF Acknowledged
  <2>6. withinRange(n) => orders'[n] = [orders[n] EXCEPT !.quantity = OrderQty]
    BY <1>1, <1>2, <1>10, <2>2, AppliedAcceptance DEF n
  <2>7. withinRange(n) => orders[n] \in [quantity : OrderQuantity, is_valid : BOOLEAN]
    BY <1>1, <1>8 DEF Table
  <2>8. withinRange(n) => orders'[n].quantity = OrderQty /\ orders'[n].is_valid = orders[n].is_valid
    BY <2>6, <2>7
  <2>9. Valid(t)'
    BY <2>8 DEF Tracked, Valid, n, Index
  <2>10. T1 = T
    BY <1>4, <2>1
  <2>11. Acknowledged(t)' => (withinRange(n) => orders'[n].quantity = open'[t].left + Traded(t)')
    BY <1>7, <2>4, <2>8, <2>10
  <2> QED
    BY <1>6, <2>5, <2>9, <2>11 DEF Tracked, n, Index
<1>11. CASE m.type = "Executed" /\ m.token = t
  <2>1. A = m.quantity /\ Tells(m, t)
    BY <1>11 DEF A, Amount, Tells
  <2>2. \A k \in 1 .. Len(in) : in[k].type = "Accepted" => in[k].token # t
    <3>1. ASSUME NEW k \in 1 .. Len(in), in[k].type = "Accepted", in[k].token = t PROVE FALSE
      <4>1. k = 1
        BY <1>5, <2>1, <3>1
      <4> QED
        BY <1>11, <3>1, <4>1 DEF m
    <3> QED
      BY <3>1
  <2>3. Acknowledged(t) /\ Acknowledged(t)'
    BY <1>2, <2>2 DEF Acknowledged
  <2>4. ASSUME withinRange(n) PROVE orders'[n].quantity = L + T1 /\ orders'[n].is_valid
    <3> DEFINE q == orders[n].quantity
               left_ == (q - m.quantity) % QtyMod
    <3>1. orders[n] \in [quantity : OrderQuantity, is_valid : BOOLEAN] /\ orders[n].is_valid
      BY <1>1, <1>8, <2>4 DEF Table, Tracked, Valid, n
    <3>2. q \in 0 .. QtyMod - 1 /\ q = L + T
      BY <1>7, <2>3, <2>4, <3>1 DEF OrderQuantity, Tracked, n, L
    <3>3. orders'[n] = [quantity |-> left_, is_valid |-> orders[n].is_valid /\ left_ # 0]
      BY <1>1, <1>2, <1>11, <2>4, AppliedExecution DEF n
    <3> HIDE DEF q
    <3>4. q - m.quantity = L + T1 /\ L + T1 \in 0 .. QtyMod - 1 /\ L + T1 # 0
      BY <1>3, <1>4, <2>1, <3>2, ManagerAssumption
    <3>5. left_ = L + T1
      BY <3>4, ManagerAssumption
    <3> HIDE DEF left_
    <3> QED
      BY <3>1, <3>3, <3>4, <3>5
  <2>5. Valid(t)'
    BY <2>4 DEF Valid, n, Index
  <2>6. withinRange(n) => orders'[n].quantity = open'[t].left + Traded(t)'
    BY <1>7, <2>4
  <2> QED
    BY <1>6, <2>3, <2>5, <2>6 DEF Tracked, n, Index
<1> QED
  BY <1>5, <1>9, <1>10, <1>11 DEF Tells

\* A step of the client keeps the orders tracked.
LEMMA ClientTracks ==
    ASSUME EntryInv, MineNoLarger, TrackInv, ~Exhausted(token), ClientStep,
           \/ in' = in /\ orders' = orders
           \/ in # << >> /\ in' = Tail(in) /\ orders' = Applied(orders, Head(in))
    PROVE  TrackInv'
<1>1. Types /\ out \in Seq(Request) /\ token \in Token
  BY DEF EntryInv, Types, ProcessTypes, SessionTypes
<1>2. /\ running = "logged in" /\ UNCHANGED << open, runs >> /\ (Issues \/ IssuesNothing)
      /\ \/ out' = out
         \/ \E r \in Request : out' = Append(out, r) /\ (Asks(r) => Issues /\ r.token = token')
  BY DEF ClientStep, Asks
<1>3. Mine \subseteq Mine' /\ token' \in Token
  BY <1>1, <1>2, MineGrows
<1>4. ASSUME Issues PROVE token' \notin Mine
  <2>1. Index(token) < Index(token')
    BY <1>1, <1>4, NextTokenGrows DEF Issues, Index
  <2>2. Index(token) \in Int /\ Index(token') \in Int
    BY <1>1, <1>3, IndexType
  <2>3. ASSUME NEW i \in 1 .. Len(issued), issued[i][1] = runs PROVE issued[i][2] # token'
    <3>1. Index(issued[i][2]) <= Index(token) /\ Index(issued[i][2]) \in Int
      BY <1>1, <2>3, IssuedNumbers DEF MineNoLarger
    <3>2. Index(issued[i][2]) # Index(token')
      BY <2>1, <2>2, <3>1
    <3> QED
      BY <3>2
  <2> QED
    BY <2>3 DEF Mine
<1>5. AskedFor \subseteq Mine /\ Mine \subseteq Token
  BY <1>1, MineTokens DEF EntryInv, AboutMine, AskedFor, Asks
<1>6. AskedOnce' /\ \A t \in AskedFor' : t \in AskedFor \/ (t \in Token /\ t \notin Mine)
  <2>1. CASE out' = out
    BY <2>1 DEF TrackInv, AskedOnce, AskedFor
  <2>2. CASE \E r \in Request : out' = Append(out, r) /\ (Asks(r) => Issues /\ r.token = token')
    <3>1. PICK r \in Request : out' = Append(out, r) /\ (Asks(r) => Issues /\ r.token = token')
      BY <2>2
    <3>2. Asks(r) => r.token \notin Mine /\ r.token \in Token
      BY <1>3, <1>4, <3>1
    <3>3. /\ AskedOnce' /\ AskedFor' \subseteq AskedFor \cup {r.token}
          /\ ~Asks(r) => AskedFor' \subseteq AskedFor
      <4>1. Asks(r) => r.token \notin AskedFor
        BY <1>5, <3>2
      <4>2. AskedOnce
        BY DEF TrackInv
      <4> QED
        BY <1>1, <3>1, <4>1, <4>2, AskedChanges
    <3> QED
      BY <3>2, <3>3
  <2> QED
    BY <1>2, <2>1, <2>2
<1>7. ASSUME NEW t \in AskedFor' PROVE Unseen(t)'
  <2>1. t \in Token /\ Unseen(t)
    BY <1>5, <1>6, <1>7, FreshIsUnseen DEF TrackInv
  <2>2. CASE in' = in /\ orders' = orders
    BY <1>2, <2>1, <2>2 DEF Unseen, Valid
  <2>3. CASE in # << >> /\ in' = Tail(in) /\ orders' = Applied(orders, Head(in))
    BY <1>1, <1>2, <2>1, <2>3, ReadUnseen
  <2> QED
    BY <2>2, <2>3
<1>8. ASSUME NEW t \in DOMAIN open', open'[t].original = t PROVE Tracked(t)'
  <2>1. t \in DOMAIN open /\ Tracked(t)
    BY <1>2, <1>8 DEF TrackInv
  <2>2. CASE in' = in /\ orders' = orders
    BY <1>2, <2>1, <2>2 DEF Tracked, AcceptedFirst, Acknowledged, Traded, Valid
  <2>3. CASE in # << >> /\ in' = Tail(in) /\ orders' = Applied(orders, Head(in))
    BY <1>1, <1>2, <2>1, <2>3, ReadTracked
  <2> QED
    BY <2>2, <2>3
<1>9. \A t \in DOMAIN open' : open'[t].original \in Mine'
  BY <1>2, <1>3 DEF TrackInv
<1> QED
  BY <1>6, <1>7, <1>8, <1>9 DEF TrackInv

\* A token stays unseen while the exchange tells of others.
LEMMA ToldUnseen ==
    ASSUME in \in Seq(Response), NEW t, Unseen(t), orders' = orders,
           NEW m \in Response, in' = in \/ (in' = Append(in, m) /\ ~Tells(m, t)),
           t \notin DOMAIN open', \A x \in DOMAIN open' : open'[x].original # t
    PROVE  Unseen(t)'
<1>1. ASSUME NEW i \in 1 .. Len(in') PROVE ~Tells(in'[i], t)
  <2>1. CASE in' = in
    BY <2>1 DEF Unseen
  <2>2. CASE in' = Append(in, m) /\ ~Tells(m, t)
    <3>1. (i \in 1 .. Len(in) /\ in'[i] = in[i]) \/ in'[i] = m
      BY <2>2, WithLast
    <3> QED
      BY <2>2, <3>1 DEF Unseen
  <2> QED
    BY <2>1, <2>2
<1>2. Valid(t)'
  BY DEF Unseen, Valid
<1> QED
  BY <1>1, <1>2 DEF Unseen, Tells

\* An order stays tracked meanwhile.
LEMMA ToldTracked ==
    ASSUME in \in Seq(Response), NEW t, Tracked(t), orders' = orders, open'[t] = open[t],
           NEW m \in Response, in' = in \/ (in' = Append(in, m) /\ ~Tells(m, t))
    PROVE  Tracked(t)'
<1>1. CASE in' = in
  BY <1>1 DEF Tracked, AcceptedFirst, Acknowledged, Traded, Valid
<1>2. CASE in' = Append(in, m) /\ ~Tells(m, t)
  <2>1. /\ \A i \in 1 .. Len(in) : i \in 1 .. Len(in') /\ in'[i] = in[i]
        /\ \A i \in 1 .. Len(in') : (i \in 1 .. Len(in) /\ in'[i] = in[i]) \/ in'[i] = m
    BY <1>2, WithLast
  <2>2. ~(m.type = "Accepted" /\ m.token = t) /\ Amount(m, t) = 0
    BY <1>2 DEF Tells, Amount
  <2>3. AcceptedFirst(t)'
    <3> SUFFICES ASSUME NEW i \in 1 .. Len(in'), Tells(in'[i], t)
                 PROVE  /\ in'[i].type # "Rejected"
                        /\ \A k \in 1 .. Len(in') :
                               in'[k].type = "Accepted" /\ in'[k].token = t => k <= i /\ in'[k].quantity = OrderQty
      BY DEF AcceptedFirst, Tells
    <3>1. i \in 1 .. Len(in) /\ in'[i] = in[i]
      BY <1>2, <2>1
    <3>2. ASSUME NEW k \in 1 .. Len(in'), in'[k].type = "Accepted", in'[k].token = t
          PROVE  k \in 1 .. Len(in) /\ in'[k] = in[k]
      BY <2>1, <2>2, <3>2
    <3> QED
      BY <3>1, <3>2 DEF Tracked, AcceptedFirst
  <2>4. Acknowledged(t)' <=> Acknowledged(t)
    <3>1. ASSUME NEW i \in 1 .. Len(in), in[i].type = "Accepted", in[i].token = t, Acknowledged(t)' PROVE FALSE
      BY <2>1, <3>1 DEF Acknowledged
    <3>2. ASSUME NEW i \in 1 .. Len(in'), in'[i].type = "Accepted", in'[i].token = t, Acknowledged(t) PROVE FALSE
      BY <2>1, <2>2, <3>2 DEF Acknowledged
    <3> QED
      BY <3>1, <3>2 DEF Acknowledged
  <2>5. Traded(t)' = Traded(t)
    <3>1. TradedIn(in, t) \in Nat /\ TradedIn(Append(in, m), t) = TradedIn(in, t) + Amount(m, t)
      BY TradedChanges
    <3>2. TradedIn(in', t) = TradedIn(in, t)
      BY <1>2, <2>2, <3>1
    <3> QED
      BY <3>2 DEF Traded
  <2>6. Valid(t)'
    BY DEF Tracked, Valid
  <2> QED
    BY <2>3, <2>4, <2>5, <2>6 DEF Tracked
<1> QED
  BY <1>1, <1>2

\* An acceptance: the order is tracked from then on.
LEMMA AcceptedTracked ==
    ASSUME in \in Seq(Response), NEW t \in Token, Unseen(t), orders' = orders,
           in' = Append(in, [type |-> "Accepted", token |-> t, quantity |-> OrderQty]),
           open'[t].left = OrderQty
    PROVE  Tracked(t)'
<1> DEFINE m == [type |-> "Accepted", token |-> t, quantity |-> OrderQty]
<1>1. m \in Response /\ OrderQty \in Nat
  <2>1. OrderQty \in 1 .. OrderQty /\ OrderQty \in Nat
    BY EntryAssumption
  <2>2. m \in Response
    BY <2>1, NewMessages
  <2> QED
    BY <2>1, <2>2
<1>2. m.type = "Accepted" /\ m.token = t /\ m.quantity = OrderQty
  OBVIOUS
<1>3. in' = Append(in, m)
  OBVIOUS
<1> HIDE DEF m
<1>4. /\ Len(in) \in Nat /\ Len(in) + 1 \in 1 .. Len(in') /\ in'[Len(in) + 1] = m
      /\ \A i \in 1 .. Len(in') : (i \in 1 .. Len(in) /\ in'[i] = in[i]) \/ (i = Len(in) + 1 /\ in'[i] = m)
  BY <1>1, <1>3, WithLast, LenProperties
<1>5. \A i \in 1 .. Len(in) : ~Tells(in[i], t)
  BY DEF Unseen
<1>6. AcceptedFirst(t)'
  <2> SUFFICES ASSUME NEW i \in 1 .. Len(in'), Tells(in'[i], t)
               PROVE  /\ in'[i].type # "Rejected"
                      /\ \A k \in 1 .. Len(in') :
                             in'[k].type = "Accepted" /\ in'[k].token = t => k <= i /\ in'[k].quantity = OrderQty
    BY DEF AcceptedFirst, Tells
  <2>1. i = Len(in) + 1 /\ in'[i] = m
    BY <1>4, <1>5
  <2>2. ASSUME NEW k \in 1 .. Len(in'), in'[k].type = "Accepted", in'[k].token = t
        PROVE  k = Len(in) + 1 /\ in'[k] = m
    BY <1>4, <1>5, <2>2 DEF Tells
  <2>3. ASSUME NEW k \in 1 .. Len(in'), in'[k].type = "Accepted", in'[k].token = t
        PROVE  k <= i /\ in'[k].quantity = OrderQty
    BY <1>2, <2>1, <2>2, <2>3
  <2> QED
    BY <1>2, <2>1, <2>3
<1>7. ~Acknowledged(t)'
  BY <1>2, <1>4 DEF Acknowledged
<1>8. Traded(t)' = 0
  <2>1. \A i \in 1 .. Len(in) : Amount(in[i], t) = 0
    BY <1>5 DEF Tells, Amount
  <2>2. TradedIn(in, t) = 0 /\ TradedIn(Append(in, m), t) = TradedIn(in, t) + Amount(m, t)
    BY <1>1, <2>1, TradedChanges
  <2>3. Amount(m, t) = 0
    BY <1>2 DEF Amount
  <2>4. TradedIn(in', t) = 0
    BY <1>3, <2>2, <2>3
  <2> QED
    BY <2>4 DEF Traded
<1>9. Valid(t)'
  BY DEF Unseen, Valid
<1>10. open'[t].left + Traded(t)' = OrderQty
  BY <1>1, <1>8
<1> QED
  BY <1>6, <1>7, <1>9, <1>10 DEF Tracked

\* An execution: what the exchange has less, the message says.
LEMMA ExecutedTracked ==
    ASSUME in \in Seq(Response), NEW t \in Token, Tracked(t), orders' = orders, NEW qty \in 1 .. OrderQty,
           in' = Append(in, [type |-> "Executed", token |-> t, quantity |-> qty]),
           open[t].left \in Nat, open'[t].left = open[t].left - qty
    PROVE  Tracked(t)'
<1> DEFINE m == [type |-> "Executed", token |-> t, quantity |-> qty]
<1>1. m \in Response /\ qty \in Nat
  <2>1. m \in Response
    BY NewMessages
  <2> QED
    BY <2>1, EntryAssumption
<1>2. m.type = "Executed" /\ m.token = t /\ m.quantity = qty
  OBVIOUS
<1>3. in' = Append(in, m)
  OBVIOUS
<1> HIDE DEF m
<1>4. /\ Len(in) \in Nat
      /\ \A i \in 1 .. Len(in) : i \in 1 .. Len(in') /\ in'[i] = in[i]
      /\ \A i \in 1 .. Len(in') : (i \in 1 .. Len(in) /\ in'[i] = in[i]) \/ (i = Len(in) + 1 /\ in'[i] = m)
  BY <1>1, <1>3, WithLast, LenProperties
<1>5. ASSUME NEW k \in 1 .. Len(in'), in'[k].type = "Accepted", in'[k].token = t
      PROVE  k \in 1 .. Len(in) /\ in'[k] = in[k] /\ in[k].quantity = OrderQty
  <2>1. k \in 1 .. Len(in) /\ in'[k] = in[k]
    BY <1>2, <1>4, <1>5
  <2>2. Tells(in[k], t)
    BY <1>5, <2>1 DEF Tells
  <2> QED
    BY <1>5, <2>1, <2>2 DEF Tracked, AcceptedFirst
<1>6. AcceptedFirst(t)'
  <2> SUFFICES ASSUME NEW i \in 1 .. Len(in'), Tells(in'[i], t)
               PROVE  /\ in'[i].type # "Rejected"
                      /\ \A k \in 1 .. Len(in') :
                             in'[k].type = "Accepted" /\ in'[k].token = t => k <= i /\ in'[k].quantity = OrderQty
    BY DEF AcceptedFirst, Tells
  <2>1. CASE i = Len(in) + 1 /\ in'[i] = m
    <3>1. ASSUME NEW k \in 1 .. Len(in'), in'[k].type = "Accepted", in'[k].token = t
          PROVE  k <= i /\ in'[k].quantity = OrderQty
      BY <1>4, <1>5, <2>1, <3>1
    <3> QED
      BY <1>2, <2>1, <3>1
  <2>2. CASE i \in 1 .. Len(in) /\ in'[i] = in[i]
    BY <1>5, <2>2 DEF Tracked, AcceptedFirst
  <2> QED
    BY <1>4, <2>1, <2>2
<1>7. Acknowledged(t)' <=> Acknowledged(t)
  <2>1. ASSUME NEW i \in 1 .. Len(in), in[i].type = "Accepted", in[i].token = t, Acknowledged(t)' PROVE FALSE
    BY <1>4, <2>1 DEF Acknowledged
  <2>2. ASSUME NEW i \in 1 .. Len(in'), in'[i].type = "Accepted", in'[i].token = t, Acknowledged(t) PROVE FALSE
    BY <1>5, <2>2 DEF Acknowledged
  <2> QED
    BY <2>1, <2>2 DEF Acknowledged
<1>8. open'[t].left + Traded(t)' = open[t].left + Traded(t)
  <2>1. TradedIn(in, t) \in Nat /\ TradedIn(Append(in, m), t) = TradedIn(in, t) + Amount(m, t)
    BY <1>1, TradedChanges
  <2>2. Amount(m, t) = qty
    BY <1>2 DEF Amount
  <2>3. TradedIn(in', t) = TradedIn(in, t) + qty
    BY <1>3, <2>1, <2>2
  <2>4. Traded(t)' = TradedIn(in, t) + qty /\ Traded(t) = TradedIn(in, t)
    BY <2>3 DEF Traded
  <2> QED
    BY <1>1, <2>1, <2>4
<1>9. Valid(t)'
  BY DEF Tracked, Valid
<1> QED
  BY <1>6, <1>7, <1>8, <1>9 DEF Tracked

\* What the exchange may do: tell of no token that is asked for, and leave an order as it
\* is, or have a tracked one in its place.
LEMMA ReplyTracks ==
    ASSUME EntryInv, TrackInv, UNCHANGED << orders, issued, runs >>,
           out' = out \/ (out # << >> /\ out' = Tail(out)),
           NEW m \in Response, in' = in \/ in' = Append(in, m),
           \A t \in AskedFor' : ~Tells(m, t),
           \A x \in DOMAIN open' :
               \/ x \in DOMAIN open /\ open'[x] = open[x] /\ ~Tells(m, x)
               \/ /\ x \notin AskedFor' /\ open'[x].original \in Mine /\ open'[x].original \notin AskedFor'
                  /\ open'[x].original = x => Tracked(x)'
    PROVE  TrackInv'
<1>1. in \in Seq(Response) /\ out \in Seq(Request) /\ AskedOnce
  BY DEF EntryInv, Types, SessionTypes, TrackInv
<1>2. Mine' = Mine
  BY DEF Mine
<1>3. AskedOnce' /\ AskedFor' \subseteq AskedFor
  <2>1. CASE out' = out
    BY <1>1, <2>1 DEF AskedOnce, AskedFor
  <2>2. CASE out # << >> /\ out' = Tail(out)
    BY <1>1, <2>2, AskedChanges
  <2> QED
    BY <2>1, <2>2
<1>4. ASSUME NEW x \in DOMAIN open'
      PROVE  x \notin AskedFor' /\ open'[x].original \in Mine /\ open'[x].original \notin AskedFor'
  <2>1. CASE x \in DOMAIN open /\ open'[x] = open[x]
    BY <1>3, <2>1 DEF TrackInv, Unseen
  <2> QED
    BY <1>4, <2>1
<1>5. ASSUME NEW x \in DOMAIN open', open'[x].original = x PROVE Tracked(x)'
  <2>1. CASE x \in DOMAIN open /\ open'[x] = open[x] /\ ~Tells(m, x)
    <3>1. Tracked(x)
      BY <1>5, <2>1 DEF TrackInv
    <3> QED
      BY <1>1, <2>1, <3>1, ToldTracked
  <2> QED
    BY <1>5, <2>1
<1>6. ASSUME NEW t \in AskedFor' PROVE Unseen(t)'
  <2>1. Unseen(t)
    BY <1>3, <1>6 DEF TrackInv
  <2>2. t \notin DOMAIN open' /\ \A x \in DOMAIN open' : open'[x].original # t
    BY <1>4, <1>6
  <2> QED
    BY <1>1, <1>6, <2>1, <2>2, ToldUnseen
<1> QED
  BY <1>2, <1>3, <1>4, <1>5, <1>6 DEF TrackInv

\* Respond, whatever the request.
LEMMA RespondTracks ==
    ASSUME EntryInv, TrackInv, Respond
    PROVE  TrackInv'
<1>0. PICK r : r = Head(out)
  OBVIOUS
<1> DEFINE t == r.token
<1>1. out # << >> /\ out' = Tail(out) /\ UNCHANGED << orders, issued, runs >>
  BY DEF Respond, memberVars, rest
<1>2. out \in Seq(Request) /\ in \in Seq(Response) /\ Types /\ AskedOnce
  BY DEF EntryInv, Types, SessionTypes, TrackInv
<1>3. r \in Request
  BY <1>0, <1>1, <1>2, WithoutHead
<1>4. Asks(r) => t \in AskedFor /\ t \notin AskedFor'
  BY <1>0, <1>1, <1>2, AskedChanges
<1>5. AskedFor' \subseteq AskedFor
  BY <1>1, <1>2, AskedChanges
<1>6. \A u \in AskedFor : Unseen(u) /\ u \in Mine /\ u \in Token
  BY <1>2, MineTokens DEF TrackInv, EntryInv, AboutMine, AskedFor, Asks
<1>7. OrderQty \in 1 .. OrderQty
  BY EntryAssumption
<1>8. out' = out \/ (out # << >> /\ out' = Tail(out))
  BY <1>1
<1> HIDE DEF t
<1>9. CASE \E verdict \in {"LoginAccepted", "LoginRejected"} : Reply([type |-> verdict], open, ended)
  <2>1. PICK verdict \in {"LoginAccepted", "LoginRejected"} : Reply([type |-> verdict], open, ended)
    BY <1>9
  <2> DEFINE m == [type |-> verdict]
  <2>2. m \in Response
    BY DEF Response, LoginAccepted, LoginRejected
  <2>3. \A u : ~Tells(m, u)
    BY DEF Tells
  <2>4. in' = Append(in, m) /\ open' = open
    BY <2>1 DEF Reply
  <2> HIDE DEF m
  <2> QED
    BY <1>1, <1>8, <2>2, <2>3, <2>4, ReplyTracks
<1>10. CASE /\ r.type = "Enter"
            /\ Reply([type |-> "Accepted", token |-> t, quantity |-> OrderQty],
                     With(open, t, [left |-> OrderQty, original |-> t]), ended)
  <2> DEFINE m == [type |-> "Accepted", token |-> t, quantity |-> OrderQty]
             v == [left |-> OrderQty, original |-> t]
  <2>1. t \in Token /\ t \in Mine /\ Unseen(t) /\ t \notin AskedFor'
    BY <1>4, <1>6, <1>10 DEF Asks
  <2>2. m \in Response
    BY <1>7, <2>1, NewMessages
  <2>3. \A u : u # t => ~Tells(m, u)
    BY DEF Tells
  <2>4. in' = Append(in, m) /\ open' = With(open, t, v)
    BY <1>10 DEF Reply
  <2>5. v.left = OrderQty /\ v.original = t
    OBVIOUS
  <2>6. in' = Append(in, [type |-> "Accepted", token |-> t, quantity |-> OrderQty])
    BY <2>4
  <2> HIDE DEF m, v
  <2>7. DOMAIN open' = DOMAIN open \cup {t} /\ open'[t] = v /\ \A x \in DOMAIN open : x # t => open'[x] = open[x]
    BY <2>4 DEF With
  <2>8. Tracked(t)'
    BY <1>1, <1>2, <2>1, <2>5, <2>6, <2>7, AcceptedTracked
  <2>9. ASSUME NEW x \in DOMAIN open'
        PROVE  \/ x \in DOMAIN open /\ open'[x] = open[x] /\ ~Tells(m, x)
               \/ /\ x \notin AskedFor' /\ open'[x].original \in Mine /\ open'[x].original \notin AskedFor'
                  /\ open'[x].original = x => Tracked(x)'
    <3>1. CASE x = t
      BY <2>1, <2>5, <2>7, <2>8, <3>1
    <3>2. CASE x # t
      BY <2>3, <2>7, <3>2
    <3> QED
      BY <3>1, <3>2
  <2>10. \A u \in AskedFor' : ~Tells(m, u)
    BY <2>1, <2>3
  <2> QED
    BY <1>1, <1>8, <2>2, <2>4, <2>9, <2>10, ReplyTracks
<1>11. CASE /\ Asks(r) /\ in' = Append(in, [type |-> "Rejected", token |-> t]) /\ open' = open
  <2> DEFINE m == [type |-> "Rejected", token |-> t]
  <2>1. t \in Token /\ Unseen(t) /\ t \notin AskedFor'
    BY <1>4, <1>6, <1>11
  <2>2. m \in Response
    BY <1>7, <2>1, NewMessages
  <2>3. \A u : u # t => ~Tells(m, u)
    BY DEF Tells
  <2>4. in' = Append(in, m)
    BY <1>11
  <2> HIDE DEF m
  <2>5. \A x \in DOMAIN open' : x \in DOMAIN open /\ open'[x] = open[x] /\ ~Tells(m, x)
    BY <1>11, <2>1, <2>3 DEF Unseen
  <2>6. \A u \in AskedFor' : ~Tells(m, u)
    BY <2>1, <2>3
  <2> QED
    BY <1>1, <1>8, <2>2, <2>4, <2>5, <2>6, ReplyTracks
<1>12. CASE /\ r.type = "Replace" /\ r.original \in DOMAIN open
            /\ Reply([type |-> "Replaced", token |-> t, previous |-> r.original],
                     With(Without(open, r.original), t, open[r.original]), ended)
  <2> DEFINE o == r.original
             m == [type |-> "Replaced", token |-> t, previous |-> o]
             w == Without(open, o)
  <2>1. t \in Token /\ t \in Mine /\ Unseen(t) /\ t \notin AskedFor'
    BY <1>4, <1>6, <1>12 DEF Asks
  <2>2. o \in Token
    BY <1>2, <1>12 DEF Types, SessionTypes
  <2>3. m \in Response
    BY <1>7, <2>1, <2>2, NewMessages
  <2>4. \A u : ~Tells(m, u)
    BY DEF Tells
  <2>5. in' = Append(in, m) /\ open' = With(w, t, open[o])
    BY <1>12 DEF Reply
  <2> HIDE DEF m, o, w
  <2>6. DOMAIN w = DOMAIN open \ {o} /\ \A x \in DOMAIN open : x # o => w[x] = open[x]
    BY WithWithout, Zenon DEF w
  <2>7. DOMAIN open' = DOMAIN w \cup {t} /\ open'[t] = open[o] /\ \A x \in DOMAIN w : x # t => open'[x] = w[x]
    BY <2>5 DEF With
  <2>8. /\ open[o].original \in Mine /\ open[o].original # t /\ open[o].original \notin AskedFor'
    BY <1>5, <1>6, <1>12, <2>1 DEF TrackInv, Unseen, o
  <2>9. ASSUME NEW x \in DOMAIN open'
        PROVE  \/ x \in DOMAIN open /\ open'[x] = open[x] /\ ~Tells(m, x)
               \/ /\ x \notin AskedFor' /\ open'[x].original \in Mine /\ open'[x].original \notin AskedFor'
                  /\ open'[x].original = x => Tracked(x)'
    <3>1. CASE x = t
      BY <2>1, <2>7, <2>8, <3>1
    <3>2. CASE x # t
      BY <2>4, <2>6, <2>7, <3>2
    <3> QED
      BY <3>1, <3>2
  <2> QED
    BY <1>1, <1>8, <2>3, <2>4, <2>5, <2>9, ReplyTracks
<1>13. CASE /\ r.type = "Cancel"
            /\ Reply([type |-> "Canceled", token |-> t],
                     Without(open, t), With(ended, open[t].original, "canceled"))
  <2> DEFINE m == [type |-> "Canceled", token |-> t]
  <2>1. t \in Token
    BY <1>3, <1>13, RequestFields DEF t
  <2>2. m \in Response
    BY <1>7, <2>1, NewMessages
  <2>3. \A u : ~Tells(m, u)
    BY DEF Tells
  <2>4. in' = Append(in, m) /\ open' = Without(open, t)
    BY <1>13 DEF Reply
  <2> HIDE DEF m
  <2>5. DOMAIN open' = DOMAIN open \ {t} /\ \A x \in DOMAIN open : x # t => open'[x] = open[x]
    BY <2>4 DEF Without
  <2>6. \A x \in DOMAIN open' : x \in DOMAIN open /\ open'[x] = open[x] /\ ~Tells(m, x)
    BY <2>3, <2>5
  <2> QED
    BY <1>1, <1>8, <2>2, <2>3, <2>4, <2>6, ReplyTracks
<1>14. CASE UNCHANGED << in, exchangeVars >>
  <2> DEFINE m == [type |-> "EndOfSession"]
  <2>1. m \in Response
    BY DEF Response, EndOfSession
  <2>2. \A u : ~Tells(m, u)
    BY DEF Tells
  <2>3. in' = in /\ open' = open
    BY <1>14 DEF exchangeVars
  <2> HIDE DEF m
  <2> QED
    BY <1>1, <1>8, <2>1, <2>2, <2>3, ReplyTracks
<1>15. ASSUME Asks(r), NEW e, Reply([type |-> "Rejected", token |-> t], open, e) PROVE TrackInv'
  <2>1. in' = Append(in, [type |-> "Rejected", token |-> t]) /\ open' = open
    BY <1>15 DEF Reply
  <2> QED
    BY <1>11, <1>15, <2>1
<1>16. r.type \in {"Enter", "Replace"} => Asks(r)
  BY DEF Asks
<1> QED
  BY <1>0, <1>9, <1>10, <1>12, <1>13, <1>14, <1>15, <1>16 DEF Respond, t

\* An execution.
LEMMA TradesTracks ==
    ASSUME EntryInv, TrackInv, NEW t \in DOMAIN open, NEW qty \in 1 .. OrderQty, Trades(t, qty)
    PROVE  TrackInv'
<1> DEFINE m == [type |-> "Executed", token |-> t, quantity |-> qty]
<1>1. out' = out /\ qty <= open[t].left /\ UNCHANGED << orders, issued, runs >>
  BY DEF Trades, memberVars, rest
<1>2. in \in Seq(Response) /\ t \in Token /\ open[t] \in [left : 1 .. OrderQty, original : Token]
  BY DEF EntryInv, Types, SessionTypes
<1>3. m \in Response
  BY <1>2, NewMessages
<1>4. in' = Append(in, m)
  BY DEF Trades, Reply
<1>5. \A u : u # t => ~Tells(m, u)
  BY DEF Tells
<1>6. AskedFor' = AskedFor
  BY <1>1 DEF AskedFor
<1>7. \A u \in AskedFor' : u # t /\ open[t].original # u
  BY <1>6 DEF TrackInv, Unseen
<1>8. \A u \in AskedFor' : ~Tells(m, u)
  BY <1>5, <1>7
<1>9. CASE qty = open[t].left
  <2>1. open' = Without(open, t)
    BY <1>9 DEF Trades, Reply
  <2>2. DOMAIN open' = DOMAIN open \ {t} /\ \A x \in DOMAIN open : x # t => open'[x] = open[x]
    BY <2>1 DEF Without
  <2> HIDE DEF m
  <2>3. \A x \in DOMAIN open' : x \in DOMAIN open /\ open'[x] = open[x] /\ ~Tells(m, x)
    BY <1>5, <2>2
  <2> QED
    BY <1>1, <1>3, <1>4, <1>8, <2>3, ReplyTracks
<1>10. CASE qty # open[t].left
  <2>1. open' = [open EXCEPT ![t].left = @ - qty]
    BY <1>10 DEF Trades, Reply
  <2>2. /\ DOMAIN open' = DOMAIN open /\ \A x \in DOMAIN open : x # t => open'[x] = open[x]
        /\ open'[t].left = open[t].left - qty /\ open'[t].original = open[t].original
    BY <1>2, <2>1
  <2>3. open[t].left \in Nat
    BY <1>2, EntryAssumption
  <2>4. open[t].original = t => Tracked(t)'
    <3>1. open[t].original = t => Tracked(t)
      BY DEF TrackInv
    <3>2. in' = Append(in, [type |-> "Executed", token |-> t, quantity |-> qty])
      BY <1>4
    <3> QED
      BY <1>1, <1>2, <2>2, <2>3, <3>1, <3>2, ExecutedTracked
  <2>5. open[t].original \in Mine
    BY DEF TrackInv
  <2> HIDE DEF m
  <2>6. ASSUME NEW x \in DOMAIN open'
        PROVE  \/ x \in DOMAIN open /\ open'[x] = open[x] /\ ~Tells(m, x)
               \/ /\ x \notin AskedFor' /\ open'[x].original \in Mine /\ open'[x].original \notin AskedFor'
                  /\ open'[x].original = x => Tracked(x)'
    <3>1. CASE x = t
      BY <1>7, <2>2, <2>4, <2>5, <3>1
    <3>2. CASE x # t
      BY <1>5, <2>2, <3>2
    <3> QED
      BY <3>1, <3>2
  <2> QED
    BY <1>1, <1>3, <1>4, <1>8, <2>6, ReplyTracks
<1> QED
  BY <1>9, <1>10

\* A packet the exchange sends on its own account.
LEMMA HeartbeatTracks ==
    ASSUME EntryInv, TrackInv, NEW type \in {"ServerHeartbeat", "EndOfSession"}, Heartbeat(type)
    PROVE  TrackInv'
<1> DEFINE m == [type |-> type]
<1>1. in' = Append(in, m) /\ out' = out /\ open' = open /\ UNCHANGED << orders, issued, runs >>
  BY DEF Heartbeat, memberVars, exchangeVars
<1>2. m \in Response
  BY DEF Response, ServerHeartbeat, EndOfSession
<1>3. \A u : ~Tells(m, u)
  BY DEF Tells
<1> HIDE DEF m
<1> QED
  BY <1>1, <1>2, <1>3, ReplyTracks

\* Without a session there is nothing to track.
LEMMA NothingTracked ==
    ASSUME open = << >>, out = << >>
    PROVE  TrackInv
<1>1. DOMAIN open = {} /\ Len(out) = 0
  OBVIOUS
<1> QED
  BY <1>1 DEF TrackInv, AskedOnce, AskedFor

\* Every step from a token that does not begin with a nine keeps the orders tracked.
LEMMA TrackInvStep ==
    EntryInv /\ ~Exhausted(token) /\ MineNoLarger /\ TrackInv /\ [Next]_vars => TrackInv'
<1> SUFFICES ASSUME EntryInv, ~Exhausted(token), MineNoLarger, TrackInv, [Next]_vars PROVE TrackInv'
  OBVIOUS
<1>1. Types
  BY DEF EntryInv
<1>2. CASE UNCHANGED << orders, issued, runs, open, out, in >>
  <2>1. Mine' = Mine /\ AskedFor' = AskedFor
    BY <1>2 DEF Mine, AskedFor
  <2>2. AskedOnce'
    BY <1>2 DEF TrackInv, AskedOnce
  <2>3. \A t \in AskedFor' : Unseen(t)'
    BY <1>2, <2>1 DEF TrackInv, Unseen, Valid
  <2>4. \A t \in DOMAIN open' : open'[t].original = t => Tracked(t)'
    BY <1>2 DEF TrackInv, Tracked, AcceptedFirst, Acknowledged, Traded, Valid
  <2>5. \A t \in DOMAIN open' : open'[t].original \in Mine'
    BY <1>2, <2>1 DEF TrackInv
  <2> QED
    BY <2>2, <2>3, <2>4, <2>5 DEF TrackInv
<1>3. CASE NoSession
  <2>1. open' = << >> /\ out' = << >>
    BY <1>3 DEF NoSession
  <2>2. DOMAIN open' = {} /\ Len(out') = 0
    BY <2>1
  <2> QED
    BY <2>2 DEF TrackInv, AskedOnce, AskedFor
<1>4. CASE login
  <2> DEFINE r == [type |-> "Login"]
  <2>1. out' = Append(out, r) /\ UNCHANGED << orders, issued, runs, open, in >>
    BY <1>4 DEF login, memberVars, exchangeVars
  <2>2. r \in Request /\ ~Asks(r)
    BY DEF Request, LoginRequest, Asks
  <2>3. out \in Seq(Request) /\ AskedOnce
    BY <1>1 DEF Types, SessionTypes, TrackInv
  <2> HIDE DEF r
  <2>4. AskedOnce' /\ AskedFor' \subseteq AskedFor
    BY <2>1, <2>2, <2>3, AskedChanges
  <2>5. \A t \in AskedFor' : Unseen(t)'
    BY <2>1, <2>4 DEF TrackInv, Unseen, Valid
  <2>6. \A t \in DOMAIN open' : open'[t].original = t => Tracked(t)'
    BY <2>1 DEF TrackInv, Tracked, AcceptedFirst, Acknowledged, Traded, Valid
  <2>7. \A t \in DOMAIN open' : open'[t].original \in Mine'
    BY <2>1 DEF TrackInv, Mine
  <2> QED
    BY <2>4, <2>5, <2>6, <2>7 DEF TrackInv
<1>5. CASE handleMessage
  BY <1>1, <1>5, HandleIsStep, HandleApplies, ClientTracks
<1>6. CASE Trade
  <2>1. in' = in /\ orders' = orders
    BY <1>6 DEF Trade
  <2> QED
    BY <1>1, <1>6, <2>1, TradeIsStep, ClientTracks
<1>7. CASE Respond
  BY <1>7, RespondTracks
<1>8. CASE \E t \in DOMAIN open, qty \in 1 .. OrderQty : Trades(t, qty)
  BY <1>8, TradesTracks
<1>9. CASE \E type \in {"ServerHeartbeat", "EndOfSession"} : Heartbeat(type)
  BY <1>9, HeartbeatTracks
<1>10. CASE OtherTrade \/ saveOpen \/ saveWrite \/ UNCHANGED vars
  <2>1. UNCHANGED << orders, issued, runs, open, out, in >>
    BY <1>10 DEF OtherTrade, saveOpen, saveWrite, vars, memberVars, exchangeVars
  <2> QED
    BY <1>2, <2>1
<1>11. CASE Stop \/ Exit \/ Start
  <2>1. NoSession
    BY <1>11 DEF Stop, Exit, Start
  <2> QED
    BY <1>3, <2>1
<1> QED
  BY <1>4, <1>5, <1>6, <1>7, <1>8, <1>9, <1>10, <1>11 DEF Next

\* No such token is issued before m_token begins with a nine.
LEMMA NoneExhaustedStep ==
    EntryInv /\ NoneExhausted /\ [Next]_vars /\ (~Exhausted(token))' => NoneExhausted'
<1> SUFFICES ASSUME EntryInv, NoneExhausted, [Next]_vars, (~Exhausted(token))' PROVE NoneExhausted'
  OBVIOUS
<1>1. Types /\ issued \in Seq((1 .. MaxRuns) \X Token) /\ Len(issued) \in Nat
  BY IssuedNumbers DEF EntryInv, Types, SessionTypes
<1>2. CASE UNCHANGED issued
  BY <1>2 DEF NoneExhausted
<1>3. CASE ClientStep /\ Issues
  <2> DEFINE x == << runs, token' >>
  <2>1. issued' = Append(issued, x) /\ x[2] = token'
    BY <1>3 DEF Issues
  <2>2. x \in (1 .. MaxRuns) \X Token
    <3>1. runs \in 0 .. MaxRuns /\ runs > 0 /\ token \in Token
      BY <1>1, <1>3 DEF ClientStep, Types, ProcessTypes
    <3>2. runs \in 1 .. MaxRuns
      BY <3>1, EntryAssumption
    <3>3. token' \in Token
      BY <1>3, <3>1, NextTokenType DEF Issues
    <3> QED
      BY <3>2, <3>3
  <2> HIDE DEF x
  <2>3. /\ \A i \in 1 .. Len(issued) : issued'[i] = issued[i]
        /\ issued'[Len(issued) + 1] = x
    BY <1>1, <2>1, <2>2, WithLast
  <2>4. Len(issued') = Len(issued) + 1
    BY <1>1, <2>1, <2>2, AppendProperties
  <2> SUFFICES ASSUME NEW i \in 1 .. Len(issued) + 1 PROVE ~Exhausted(issued'[i][2])
    BY <2>4 DEF NoneExhausted
  <2>5. i \in 1 .. Len(issued) \/ i = Len(issued) + 1
    BY <1>1
  <2> QED
    BY <2>1, <2>3, <2>5 DEF NoneExhausted
<1>4. CASE handleMessage \/ Trade
  <2>1. ClientStep
    BY <1>1, <1>4, HandleIsStep, TradeIsStep DEF EntryInv
  <2>2. Issues \/ issued' = issued
    BY <2>1 DEF ClientStep, IssuesNothing
  <2> QED
    BY <1>2, <1>3, <2>1, <2>2
<1>5. CASE ~(handleMessage \/ Trade)
  <2>1. UNCHANGED issued
    BY <1>5 DEF Next, login, OtherTrade, Stop, saveOpen, saveWrite, Exit, Start, Respond, Trades, Heartbeat, vars
  <2> QED
    BY <1>2, <2>1
<1> QED
  BY <1>4, <1>5

\* While an order trades under the token it was entered with, its entry of m_orders holds
\* what the exchange has left of it plus the executions the client has not read, however
\* executions, acceptances and requests for new tokens interleave, as long as the tokens
\* of a process do not start again at zero (m_token does not begin with a nine).
THEOREM QuantityTrackedAlways == Spec /\ []~Exhausted(token) => []QuantityTracked
<1>1. Init => TrackInv
  BY NothingTracked DEF Init
<1>2. EntryInv /\ AscendInv /\ NoneExhausted => MineNoLarger
  <2> SUFFICES ASSUME EntryInv, AscendInv, NoneExhausted,
                      NEW i \in 1 .. Len(issued), issued[i][1] = runs
               PROVE  Index(issued[i][2]) <= Index(token)
    BY DEF MineNoLarger
  <2>1. Len(issued) \in Nat
    BY IssuedNumbers DEF EntryInv
  <2>2. \A k \in i .. Len(issued) : ~Exhausted(issued[k][2])
    <3>1. \A k \in i .. Len(issued) : k \in 1 .. Len(issued)
      BY <2>1
    <3> QED
      BY <3>1 DEF NoneExhausted
  <2> QED
    BY <2>2 DEF AscendInv, NoneLarger
<1>4. Init => NoneExhausted
  <2>1. Init => issued = << >> /\ Len(<< >>) = 0
    BY DEF Init
  <2> QED
    BY <2>1 DEF NoneExhausted
<1>3. EntryInv /\ TrackInv => QuantityTracked
  <2> SUFFICES ASSUME EntryInv, TrackInv, NEW t \in DOMAIN open, open[t].original = t, Acknowledged(t),
                      withinRange(Index(t))
               PROVE  orders[Index(t)] = [quantity |-> open[t].left + Traded(t), is_valid |-> TRUE]
    BY DEF QuantityTracked
  <2>1. orders[Index(t)].is_valid /\ orders[Index(t)].quantity = open[t].left + Traded(t)
    BY DEF TrackInv, Tracked, Valid
  <2>2. t \in Token /\ orders \in Table
    BY DEF EntryInv, Types, ProcessTypes, SessionTypes
  <2>3. orders[Index(t)] \in [quantity : OrderQuantity, is_valid : BOOLEAN]
    BY <2>2, IndexType DEF Table
  <2> QED
    BY <2>1, <2>3
<1> QED
  BY <1>1, <1>2, <1>3, <1>4, EntryInvAlways, AscendInvInit, AscendInvStep, NoneExhaustedStep, TrackInvStep, PTL
  DEF Spec

----------------------------------------------------------------------------
(* The configuration of a process. *)

\* What the last process has made of the configuration, which nobody changes.
ConfigInv == runs > 0 => config = parseConfig(document)

\* Only a process that starts reads it.
LEMMA ConfigInvStep ==
    ConfigInv /\ [Next]_vars => ConfigInv'
<1> SUFFICES ASSUME ConfigInv, [Next]_vars PROVE ConfigInv'
  OBVIOUS
<1>1. CASE UNCHANGED << config, document, runs >>
  BY <1>1 DEF ConfigInv
<1>2. CASE Start
  <2>1. config' = parseConfig(document) /\ document' = document
    BY <1>2 DEF Start
  <2> QED
    BY <2>1 DEF ConfigInv
<1>3. CASE login \/ OtherTrade \/ saveOpen \/ saveWrite
  BY <1>1, <1>3 DEF login, OtherTrade, saveOpen, saveWrite
<1>4. CASE handleMessage \/ Trade
  <2>1. UNCHANGED rest
    BY <1>4 DEF handleMessage, Trade
  <2> QED
    BY <1>1, <2>1 DEF rest, processVars
<1>5. CASE Stop \/ Exit
  BY <1>1, <1>5 DEF Stop, Exit
<1>6. CASE Respond
  <2>1. UNCHANGED rest
    BY <1>6 DEF Respond
  <2> QED
    BY <1>1, <2>1 DEF rest, processVars
<1>7. CASE \E t \in DOMAIN open, qty \in 1 .. OrderQty : Trades(t, qty)
  <2>1. UNCHANGED rest
    BY <1>7 DEF Trades
  <2> QED
    BY <1>1, <2>1 DEF rest, processVars
<1>8. CASE \E type \in {"ServerHeartbeat", "EndOfSession"} : Heartbeat(type)
  <2>1. UNCHANGED << processVars, runs >>
    BY <1>8 DEF Heartbeat
  <2> QED
    BY <1>1, <2>1 DEF processVars
<1>9. CASE UNCHANGED vars
  BY <1>1, <1>9 DEF vars, processVars
<1> QED
  BY <1>2, <1>3, <1>4, <1>5, <1>6, <1>7, <1>8, <1>9 DEF Next

\* Whatever keys a configuration file has or lacks, a process accepts it exactly if every
\* key it needs is there, then with all active partitions in the file's order, and keeps
\* a prefix of them when a call fails half-way.
THEOREM ConfigTakenAlways == Spec => []ConfigTaken
<1>1. Init => ConfigInv
  BY DEF Init, ConfigInv
<1>2. EntryInv /\ ConfigInv => ConfigTaken
  <2> SUFFICES ASSUME EntryInv, config = parseConfig(document)
               PROVE  /\ config.verdict = "true" <=> document.valid /\ Complete(document.json)
                      /\ config.verdict = "true" => /\ config.market = ListedMarket(document.json)
                                                    /\ config.entry = ListedEntry(document.json)
                      /\ IsPrefix(config.market, ListedMarket(document.json))
                      /\ IsPrefix(config.entry, ListedEntry(document.json))
    BY Zenon DEF ConfigInv, ConfigTaken
  <2>1. FileTypes
    BY DEF EntryInv, Types
  <2>2. /\ Parsed(config, document.json, document.valid)
        /\ ListedMarket(document.json) \in Seq(Taken(document.json))
        /\ ListedEntry(document.json) \in Seq(Taken(document.json))
    BY <2>1, ParsedConfig
  <2> QED
    BY <2>2, ParsedIsTaken
<1> QED
  BY <1>1, <1>2, ConfigInvStep, EntryInvAlways, PTL DEF Spec

=============================================================================
