# Verification of the BIST trading components

TLA+ models of the market data client, the order books, the order entry client and
the exchange emulator of this repository, the TLC runs that check them on small
instances, and TLAPS proofs of all of the checked safety properties for every instance. Paths are relative to the repository root; `tla/` holds modules, configurations, this file
and `PROJECT.json`, which maps every definition to the lines it models.

    cd tla
    tlc -workers 2 -config feed.cfg MCItchFeed      # one run
    tlapm ItchFeedProofs.tla                        # one proof module

## 1. Inventory

| component | state | operations | talks to |
|---|---|---|---|
| `L2Orderbook` (`lib/core/l2_orderbook.hpp`) | per side a vector of (price, quantity), best price at the back | `AddOrder`, `DeleteOrder`, `ReplaceOrder`, `ExecuteOrder`, `GetBestPrices`, `Dump` | called by the builder |
| `ConcreteOrderbookBuilder` (`lib/core/orderbook_builder.hpp`) | `m_orderbookMap`, `m_orderMap` | `addOrder`, `executeOrder`, `deleteOrder` | called by the parser |
| `ItchParser` (`lib/protocol/itch/itch_parser.hpp`) | none | `parse`, `parsePayload`; handles A, E, D and ignores every other type | called by `MarketDataClient::parse` |
| `MarketDataClient` (`lib/client/market_data_client.cpp`) | `m_state`, `m_missingSequenceNumbers`, `m_lastRequestedSequenceNumber`, `m_nextExpectedSeqNo`, the rewind bound | `run`, `parse`, `requestMissingPackets`, `calculateNextSequenceNumber`, `rewind` | multicast feed, rewinder, through the socket |
| `UdpMulticastSocket` (`lib/network/udp_socket.cpp`) | a descriptor | constructor (throws), `read`, `write` | `MarketDataClient` |
| `ConfigParser` (`lib/utility/config_parser.hpp`) | the partitions and the index read so far | `parseConfig`, `parseAppParameters` | a configuration file and `app_parameters.json` |
| `OrderManager` (`lib/core/order_manager.hpp`) | `m_token`, `m_orders`, pending replacements; `app_parameters.json` between processes | `nextToken`, `orderAccepted`, `orderExecuted`, `orderDeleted`, constructor, destructor | called by the accessor and the reader |
| `BistMarketAccessor` (`lib/client/order_entry_client.cpp`) | login state, prepared buffers, reader thread | `login`, `sendEnterOrder`, `sendReplaceOrder`, `sendCancelOrder`, `onLoginAccepted`, `logout`, destructor | exchange, through `TcpClient` |
| `TcpClient`, `TcpSocket` (`lib/network/tcp_client.cpp`, `tcp_socket.cpp`) | `m_buffer`, `m_dataSize`, a descriptor | `startRead`, `processBuffer`, `handleMessage`, `write` | accessor; a byte stream |
| `TcpServer`, `TcpServerSocket`, `TcpClientConnection` (`lib/network/tcp_server*.cpp`, `tcp_client_connection.cpp`) | `m_running`, `m_clients`, epoll descriptor, server thread | `start`, `stop`, `serverLoop`, `handleNewConnection`, `handleClientData`, `removeClient`, `sendToClient`, `disconnectClient` | byte streams; a message handler |
| exchange emulator (`apps/exchange_emulator.cpp`) | none | `handleSoupBinTcpMessage` | `TcpServer` |
| not modelled | | the byte layout of the protocol structures, thread and log utilities, `trading_client`, the benchmark, the packet generator | |

What is hard here, and cannot be met by the unit tests in `test/`:

* two copies of one fact: the quantity of a level and the quantities of its orders, the
  client's table and the exchange's, `m_token` and `app_parameters.json`;
* two streams interleave: live and rewound packets, either of which can be lost, repeated
  or late, while `parse` looks only at the back of a vector;
* files: a configuration of which a part is missing, and an index that is emptied when it is
  opened, written later, and shared by all accessors of a process;
* unsigned arithmetic whose wrap-around is only excluded by a global invariant, and an index that
  goes through characters, a `uint32_t` and an `int`;
* edge-triggered epoll, where an event that is not fully consumed is never reported again;
* threads that join each other through a network: `stop()` and the destructor of the accessor.

The properties that make the components correct:

* the books and the order table agree, the vectors stay sorted, and `exit(42)` and the use of
  a missing level are unreachable (`LevelTotals`, `SortedBook`, `NoMissingLevel`);
* messages that are ignored damage only the orders they are about (`Mirror`);
* no missing number is forgotten or requested wrongly, and a rewind completes on a network
  without faults (`NothingForgotten`, `RequestsStayBelow`, `RewindCompletes`, `RewindSpec`);
* tokens only grow until one begins with a nine, from one process to the next as well where the
  last one was saved and fits an `int`, and the order table follows the exchange (`TokensGrow`,
  `TokensAscend`, `QuantityTracked`, `OnlyOwnEntries`);
* a configuration is taken whole or refused (`ConfigTaken`);
* no event is lost, messages are framed whole, and nobody waits for ever (`NoLostWakeup`,
  `FramesIntact`, `StopReturns`, `NobodyLeftWaiting`).

## 2. Modules

    AggregatedBook                       what a book promises
    ItchMessages --\
    L2Orderbook <- OrderbookBuilder <- ItchFeed
         ^                                  \--- INSTANCE AggregatedBook
         \-- OrderbookSide                  (refinement)
    Rewind                               what a late joiner promises
    MarketDataClient, OrderbookBuilder <- BookSync
         \--- INSTANCE Rewind (refinement)
    CppIntegers <- OrderManager <- TokenCounter
         \              \-- OuchMessages --\
          \-- ConfigParser -----------------> OrderEntry
    SoupBinTcp <- Wire <- TcpServer --\
                    \---- TcpClient ----> Session

The proofs of a module `M` are in `MProofs`, with two exceptions: those of `TokenCounter` are at
the end of `OrderManagerProofs`, and those of `BookSync` at the end of `MarketDataClientProofs`.
`OrderbookSideProofs` and `OrderbookBuilderProofs` use `L2OrderbookProofs`; `ItchFeedProofs` and
`MarketDataClientProofs` use `OrderbookBuilderProofs`; `OrderEntryProofs` uses
`OrderManagerProofs`.

`MC*` modules instantiate these for TLC. A definition named `...` with the comment
"Mutant:" is a plausible bug in the definition that follows it; no specification uses it,
and putting it in the place of the original makes a property fail (`PROJECT.json`,
"mutants").

**L2Orderbook.** A side is a sequence of `[price, qty]`, worst price first as in `m_bids` and
`m_asks`; the four operations are functions from levels to levels. Quantities are taken
modulo `QtyMod`, so a subtraction that is too large wraps as in the code. `GetLevel` is the
search from the back, and `HasLevel` whether it finds the price. `Bad` is the test behind "BAD ORDERBOOK" in `Dump`; the comparison with
`INT_MAX` for an empty side is abstracted to "both sides have levels".

**ItchMessages, OrderbookBuilder.** The two maps and `status`; `parseMessage` is the switch of
`parsePayload` with the handlers. A missing level leaves `status` `"exited"` (`exit(42)` in
`DeleteOrder`) or `"undefined"` (the use of `rend()` behind a failed `EXPECT` in
`ExecuteOrderImpl`). A message is a record of the members a handler, or the exchange's table,
tells apart; each has its constructor in `ItchMessages`.

**ItchFeed.** The builder against an exchange (external) that publishes one message per
change of its own order table. `missed` collects the keys of orders an ignored message was
about. Amendments (`OrderReplace`) are kept apart: `Spec` is a feed without them,
`AmendedSpec` one with them.

**OrderbookSide.** One side under all four operations, `ReplaceOrder` included, which the
builder never calls.

**MarketDataClient.** `parse` as one action per packet, in each of its three branches; the
exchange, the rewinder and the network are external. `applied` is the sequence of message
numbers that reached the parser. `undefined` records a call of `back()` on an empty vector.
`socket` is the `UdpMulticastSocket`: constructed (or its constructor throws), reading, or ended
for good by a `recvfrom` that returns an error or an empty datagram (`SocketErrors`). A client
hears only what is multicast after it has joined the group. The call of `parse` in the read
loop is commented out in the repository, like its include; the model has the hand-over as
the comment has it. A `sendto` that fails is ignored by `write`, and is a lost request here.
**Rewind** is the abstract specification: the first missing number `from` only moves up, over
numbers the packet at hand contains, and the client becomes `Continuous` with the step in
which `from` reaches `till`. `RewindSpec` maps the back of `m_missingSequenceNumbers` to `from`.
**BookSync** adds the builder the packets reach, as a function of the messages applied so far,
and starts from any legal session of `LastSeq` messages (`Sessions`): `OpenOrders` is the
exchange's table after each of them, and `Legal` says which message may come next.

**ConfigParser.** JSON objects are functions from keys to values. `parseConfig` and
`parseAppParameters` follow the code's tests in their order; a parser keeps what it has pushed
when a later test fails. `operator[]` of a const object with a missing key (the name, which is
logged before it is tested, and the four addresses of an instrument, which never are) gives
the verdict `"undefined"`. `Complete`, `ListedMarket` and `ListedEntry` say what a configuration
holds without the order of the tests; `ConfigTaken` compares the two.

**OrderManager, TokenCounter, OuchMessages, OrderEntry.** A token is a function from positions to
characters, each given by its distance from `'0'`. `firstToken` and `parse_order_token_decimal`
follow the loops of the constructor and the destructor, in the arithmetic of **CppIntegers**: the
saved `uint32_t` plus one becomes an `int` (`asInt`), and from 2^31-1 on it is negative, so that
its remainders (`Rem`) are too and the characters lie below `'0'`. `nextToken` is the branchless
increment with its odd carry, on such tokens as well, and a negative number lies beyond every
table, as its `size_t` does (`withinRange`). `OrderEntry` has the accessor, the reader's
`handleMessage` and the table against an OUCH exchange (external), and the life of the process
around them: `Start` reads both files and constructs an accessor per active partition, `Stop`
ends the connections, `saveOpen` (which empties the file, or fails) and `saveWrite` (which writes
the index, or fails unnoticed) are the two steps of `~OrderManager`, once per accessor in either
order, and `Exit` ends the process, after its destructors or at any point before. Of a second
accessor only the token is kept. The program that reads the files is external: `trading_client`
fills in a configuration of its own and passes the constant index 1. `handleMessage` and the
public `sendEnterOrder` are taken to run one at a time, as `OrderManager` has no lock. The calls
`sendReplaceOrder` and `sendCancelOrder` in `handleMessage`, marked "for testing" in the
code, are part of the handlers, and an accepted login sends an order only for an equity
partition. `OuchMessages` has the types of what travels in either direction.

**SoupBinTcp, Wire, TcpServer, TcpClient, Session.** Packets are byte sequences with a real
big-endian length and a body of one byte. `Wire` is the kernel and the network (external):
bytes under way, unread bytes on both sides, ends of streams, resets, the listening backlog,
and epoll's interest and ready lists. `start()` succeeds or throws. One `accept` or one
`epoll_ctl` for a client may fail (`Faults`). `TcpServer` follows the server thread from system call
to system call, with the handler of the emulator inside `readChunk`; `TcpClient` has the
reader thread and the thread that owns the accessor. After the handler has disconnected a
client, `handleClientData` reads through an erased iterator: `readErased` takes either outcome
a build can produce, the death of the process or a failing read. A write on a connection that
was reset returns an error or raises SIGPIPE, which nothing in the repository ignores.

## 3. Runs

| run | module | states | shows |
|---|---|---|---|
| `feed` | MCItchFeed | 35 thousand | types, `NoMissingLevel`, `SortedBook`, `LevelTotals`, `Mirror`, `Covered`, and the refinement `AggregatedSpec` |
| `feed_replace` | MCItchFeed | violation | with amendments a level can be missing |
| `orderbook_side` | MCOrderbookSide | 4 thousand | a side is the sums of its orders, sorted; its back is the best price |
| `sync_unreliable` | MCMarketDataClient | 1.5 million | invariants of the rewind whatever the network does, and the refinement `RewindSpec` |
| `sync_gap` | MCMarketDataClient | violation | a gap in the normal flow is never requested |
| `book_sync` | MCBookSync | 290 thousand | the rewind completes unless the read loop has ended; nothing open is missing or too small in the book |
| `book_phantom` | MCBookSync | violation | a late joiner keeps a deleted order and ends with a crossed book |
| `entry_session` | MCOrderEntry | 1.6 million | tokens ascend until one begins with the largest digit and wherever the saved one fits an `int`, configurations are taken whole or refused, quantities follow the exchange, no other entry changes, rejected orders are invalid |
| `entry_ended` | MCOrderEntry | violation | canceled orders stay valid |
| `tokens` | MCTokenCounter | 46 thousand | tokens grow; where the increment is exact |
| `session` | MCSession | 690 thousand | `NoLostWakeup`, `FramesIntact`, `RoomToRead`, `StopReturns`, `NobodyLeftWaiting` |
| `session_logout` | MCSession | violation | a logout never ends |

Bounds, and why they are enough to be interesting:

* `feed`: one book (no operation touches two), two order ids per side, two prices and
  quantities 1 and 2: shared levels, partial executions, emptied and re-created levels.
  `QtyMod` is 9, one more than all orders together can hold.
* `orderbook_side`: three orders and four prices, negative ones too: a new level in front,
  in the middle and at the back.
* `sync_unreliable`: four messages, packets of up to two, one heartbeat, one loss and one
  duplicate, any order, and a socket that may fail at any point. A
  client that joins late rewinds three messages in two requests; where all four are missing, the
  count (`CountMod` = 4) is cut to none.
* `book_sync`: every legal session of four messages about two orders; the network has no faults, the socket may fail at any point.
* `entry_session`: two orders of both accessors together and two processes, with tokens of three
  digits in base 4 and integers of 62 values (`SaveMod`; an `int` reaches from -31 to 30). The
  initial index 27 gives the token 130 (28). The increment skips from there to 231 (45), which is
  beyond an `int`, to 332 (62), which is beyond a `uint32_t` and begins with the largest digit, and back
  to 033 (15), all within a process; each of them is saved and read again. The initial index 59
  gives -2, and the tokens count up through 0 and 1, which the table (2 entries) has, and beyond
  it; negative indexes are saved and read again too. No process issues enough tokens for one to
  come twice, which is why `QuantityTracked` holds here without the premise of its theorem. One heartbeat or end of session; three
  complete configurations and one for every key that can be missing at any level.
* `tokens`: every token of four decimal characters, negative ones too, so every pattern of nines
  next to each other and apart.
* `session`: two clients, one start, one login each; a send buffer of 1 byte, smaller than
  an answer, so that the server has to wait for a client to read, and an answer can be cut between
  any two of its bytes, in the length field too (a read that holds parts of two answers is left to
  `FramesIntactAlways`); a reader's buffer of exactly one message; segments that may end in
  the middle of the second packet; one failing `accept` or `epoll_ctl` at any point.

Most runs do not check for deadlock, because their environments are bounded and then stop.

Fairness. `BookSync` assumes that the rewinder answers a request it has received and that
the read loop hands over what has arrived as long as it runs. `Session` assumes that a
thread of the server that can run does run (the server thread, and the thread in `stop()` once it
can go on) and that the network delivers bytes. Nobody is assumed to log in, log out, stop or be
killed, and no client is assumed to read: that the reader threads of clients go on is a premise,
`ClientsRead`, which the properties state where they need it. `NobodyLeftWaiting` and `LogoutReturns`
are about those threads and have it. `StopReturns` has it as one of two alternatives: `stop()` returns
if the clients go on reading, or if the server does not stay in `TcpClientConnection::write`. Without
either it fails: against a client that is alive and never reads, the loop that retries `EAGAIN`
(`tcp_client_connection.cpp:39-41`) keeps the server thread, and `stop()`, for ever. The
property says that nothing else can.

## 4. Proofs

Every theorem holds for every value of the constants that satisfies the assumptions of its
modules, and each of those is what the code gives:

* prices are integers, and there are finitely many orders which together hold fewer shares than
  the quantity type counts (`FeedAssumption`, `QuantityFits`, `SideAssumption`,
  `QtyModAssumption`). This is what 64-bit quantities amount to; without it a level can wrap to
  0 and be erased;
* the largest packet holds a message, and the count of a request has at least two values
  (`ClientAssumption` of `MarketDataClient`);
* there are finitely many clients, none of which is the listening socket, the send buffer and
  the reads are not empty, and the reader's buffer holds one message (`WireAssumption`,
  `ServerAssumption`, `ClientAssumption` of `TcpClient`);
* tokens have at least one digit, in a base of at least two, the table has an entry, a
  `uint32_t` has at least two values (`ManagerAssumption`, `WidthAssumption`), and an `int` has fewer
  digits than a token (`TokenHoldsInt`: 10 and 14 in the code); the partitions of a
  configuration are an array, indexes are naturals, and the quantity of an order is positive and
  fits its field (`EntryAssumption`).

**The books.** On a strictly sorted side without empty levels, `AddOrderCorrect`,
`ExecuteOrderCorrect`, `DeleteOrderCorrect` and `ReplaceOrderCorrect` (`L2OrderbookProofs`) say that
the operation finds its level, leaves the side sorted and without empty levels, and changes
the quantity of its price by the given amount and of no other price. `QtyAt`, the quantity shown
at a price, is the only view of the vectors the next layers use.

`Shares` gives every share of an open order an element of its own, so that "a level holds what
its orders have left" is an equation between `QtyAt` and a cardinality, without a recursive sum.
`OrderbookBuilderProofs` has what each handler does to a builder whose two maps agree
(`AddKeepsTotals`, `ExecuteKeepsTotals`, `DeleteKeepsTotals`). In `ItchFeedProofs` the invariant is
`FeedInv`: the maps agree (`GoodBuilder`), the
exchange's table is well formed (`TableOK`), orders no ignored message was about are equal on both
sides (`Mirror`), and no order has more left at the exchange than at the client (`Covered`).
`LevelTotals` alone is not inductive: an execution only finds its quantity in the level because
of `Covered`, and a deletion or execution only meets the right price because of `Mirror`. From it
follow `TypeOKAlways`, `NoMissingLevelAlways`, `SortedBookAlways`, `LevelTotalsAlways`,
`MirrorAlways`, `CoveredAlways` and the refinement `ImplementsAggregatedBook`, for every feed
without amendments; `feed_replace` shows that the restriction is needed. `OrderbookSideProofs`
has the same for one side under all four operations (`SideInv`).

**The rewind** (`MarketDataClientProofs`). The invariant `ClientInv` joins the checked properties
with three facts about the network: packets are cut from the feed without overlap, rewound ones
stay below the first live packet (`PacketsFit`); the first live packet is a border, which no
packet crosses (`TillIsABorder`); before the first packet nobody was asked (`NothingYet`).
`NeverUndefined` needs the border: a packet that crossed it would pop more numbers than there
are. Losses, repetitions, reordering and the end of the socket are unrestricted, and so is the
refinement `ImplementsRewind`. `AppliedOnceAlways` is about a network on which no packet is
repeated or overtaken (`InOrderOnce`; losses are allowed), since section 5 has the
counterexample for others. Its invariant `OnceInv` says that at most one request or answer is
under way, that it begins at the back of the vector, and that live packets still to come lie
ahead of everything received.

**The book of a late joiner** (`BookSync`, in `MarketDataClientProofs`). `NoMissingLevelAlways` and
`NothingUnderstatedAlways` are about networks of the same kind, and every session. The argument
does not follow the packets: `AppliedOnceAlways` says that the builder has seen each message at
most once, and `AnyOrderHolds` says what it then holds after any messages of a session in any order
(`Holds`): an order it has was entered, at that price; what an order has lost was executed; an
order that was entered and is gone was deleted or executed. An execution never takes more than
the client's copy has left, because all executions of a session together take no more than the
order was entered with (`OpenOrdersSaid`, by induction over the session, with `Executed` the sum
over a set of messages). When all messages have arrived, what the exchange has left is exactly the
entered quantity less the executions, and an open order was not deleted, so the client has no
less. The converse fails: `book_phantom` shows an order the client keeps for ever.

**The emulator and its clients** (`SessionProofs`). In `SessionInv`:

* `Registered` and `NothingMissed` carry `NoLostWakeup`: whoever has unread bytes, an unseen end
  or waits to be accepted is on epoll's ready list or among the events the loop has not
  finished with (`Told`), unless the one `accept` or `epoll_ctl` that may fail has failed;
* `Streams` carries `FramesIntact`: what a client has not handled, from its buffer over the
  network to the rest of the answer being written, is a periodic sequence of answers that begins
  where a message begins, and whole unless the connection is gone; together with the bytes that
  may still be taken for login requests (`Asks`) it is bounded by the number of logins;
* `ShortRest` carries `RoomToRead`: the reader comes back to `read` with less than a message;
* `NotYet` says that a connection that is not there yet has no bytes.

**Tokens** (`OrderManagerProofs`). What the loops over the characters compute for every
number of them is shown by an induction over sets of naturals (`UpTo`, from the least element
of a set). The constructor spells the number in its `int`, whatever its sign, because an `int` has
fewer digits than a token (`FirstTokenSpells`), and no two tokens of digits spell the same number
(`SpelledOnce`). A token that does not begin with a nine grows
(`NextTokenGrows`): the first character that receives a carry grows by one (`FirstCarry`), and the
characters behind it cannot make up for that, being less than ten apart from what they were
(`NextIsNear`). In a token with characters below `'0'` none of them follows one above it, which
`nextToken` keeps (`NextTokenType`), so the same argument holds. The increment
adds one exactly without an inner nine (`ExactWithoutInnerNineAlways`).

**Order entry** (`OrderEntryProofs`). `EntryInv` says that everything under way and everything
open at the exchange is about tokens of this process (`AboutMine`), that no other entry was
touched (`Untouched`), and that a rejected order is invalid or its rejection still under way
(`Rejections`). `TokensAscendAlways` has an invariant of its own, `AscendInv`:
`m_token` is no smaller than the tokens issued by this process, nor than any as long as no
process has started from an old index, if none of them from there on begins with a nine
(`NoneLarger`); an exhausted `m_token` is one that was issued (`ExhaustedIssued`), since no first
token is exhausted; and what the file holds is the session's own index, an old one, or nothing a
process could start from (`SavedIsToken`). An own index is one whose successor fits an `int`; it
goes through the `uint32_t` and the `int` unchanged. That no token between two begins with a
nine is a premise inside `TokensAscend`, so that the run and the theorem say the same.

`QuantityTrackedAlways` is about behaviours in which `m_token` never begins with a nine
(`[]~Exhausted(token)`, from which `NoneExhausted` follows for the tokens issued), since a token that is
issued twice gives two orders one entry. Its invariant `TrackInv` adds to `EntryInv` that every
token is asked for once, and that nothing is known yet of a token whose order is still on its way to the exchange; then an
acceptance finds an entry no execution has changed, and each execution takes from the entry what
it took at the exchange. `TradedIn`, the sum of the executions under way, changes at the two ends
of the sequence of messages only.

`ConfigTakenAlways` has the invariant `ConfigInv` (nobody changes what the last process has parsed),
and all of its work is about `parseConfig`. The loop over the partitions is followed round by round
(`RoundsOf`): as long as the keys are there, a round takes its partition if it is active
(`RoundTakes`, `InstrumentTakes`, `EntryTakes`); the first round that misses a key ends the loop, and
what has been taken is a prefix of what would have been (`Begins`). `ParsedIsTaken` puts the two
markets and the two order entries together.

Only model-checked is liveness (`RewindCompletes`, `StopReturns`, `NobodyLeftWaiting`), which is out of
the prover's reach. The findings of section 5 are counterexamples of TLC, and the premises of the
theorems (no amendments, `InOrderOnce`, no leading nine) are the ones it shows to be needed.

## 5. What the models show of the code

Disagreements between the code and its own comments, each with a run:

* amendments, executions with a price and flushes are ignored; after an amendment an execution
  can meet a missing level (`feed_replace`, `itch_parser.hpp:64`, `l2_orderbook.hpp:153`);
* a gap in the normal flow is never requested, because `m_nextExpectedSeqNo` is overwritten
  before it is compared (`sync_gap`, `market_data_client.cpp:195`);
* live messages are applied before the rewound ones they depend on, so a late joiner can keep
  orders that are gone (`book_phantom`, `market_data_client.cpp:125`);
* canceled orders, and orders executed under a replacement token, stay valid (`entry_ended`,
  `order_manager.hpp:53`);
* a logout is not understood by the emulator, and the destructor of the accessor then never
  returns (`session_logout`, `order_entry_client.cpp:104`).

Seen in the models, without a run of their own:

* a lost rewind request or answer is not retried (`market_data_client.cpp:161`), and a request
  for a multiple of 65536 messages asks for none (line 217): `MaxLoss = 1`, or `CountMod` at
  most the number of missing messages, breaks `RewindCompletes`;
* a late live packet can pop a number and cause a second request for messages that are still
  on their way, which are then applied twice (`Reorder = TRUE` in `book_sync.cfg`);
* after a crash tokens repeat, because only the destructor saves the index
  (`order_manager.hpp:73`); so they do when another accessor of the process saves its index last
  (line 83), when the save fails (line 84), and when the index does not fit the `int` of the constructor
  (line 64) or the `uint32_t` of the destructor (line 75).
  `TokensAscend` is restricted accordingly, and shows that a crash in the middle of a save
  cannot make tokens repeat: the next process refuses the file;
* a configuration whose partition lacks its name is not refused but read through a key that is
  not there (`config_parser.hpp:227`), and a `parseConfig` that returns false leaves the
  partitions before the fault in the parser (line 247); a second call would append to them.
  `config.json` of the repository has no `order_entry`, so `parseConfig` refuses it;
* one empty datagram ends the reception of a partition for ever (`udp_socket.cpp:94`), and a
  constructor that throws leaves its descriptor open (line 33 and after), since the destructor
  of a half-built socket does not run;
* a late heartbeat with the number 1 sets `m_nextExpectedSeqNo` back, and a client that has been
  in from the beginning rewinds messages it has (`market_data_client.cpp:172`, 189), which are
  then applied twice;
* an `accept` that fails leaves the connections behind it waiting until another client
  connects (`tcp_server.cpp:129`), although the loop is there to "Accept all pending
  connections" (line 127), and a client `epoll_ctl` refuses is never served (line 203);
* the table has 1024 entries and not the 1048576 of the comment (`order_manager.hpp:43`);
* the increment skips tokens behind an inner nine (`order_manager.hpp:217`), which
  `ExactWithoutInnerNine` characterises. The skips add up: with the 14 digits of the code and
  the first token 1, the token no longer fits an `int` after 9020 calls, nor the 32 bits that are
  saved after 9042, begins with a nine after 9989, and after 9998 is all nines and starts again at zero,
  so the tokens repeat every 10000 calls. This is what the premises of `TokensGrow`,
  `TokensAscend` and `QuantityTrackedAlways` exclude. A process that reads an index from 2^31-1 on, as
  it is saved after 9020 to 9041 calls, makes tokens with characters below `'0'` and counts them up
  to zero (line 64);
* a client that is alive and does not read keeps the server thread in the loop that retries `EAGAIN`
  (`tcp_client_connection.cpp:39`), and `stop()` with it;
* `handleClientData` goes on using the iterator of a client its handler has disconnected
  (`tcp_server.cpp:171`), and hands every read to the handler as one packet, so a cut login is
  never answered and what follows the first packet of a read is lost (line 188).

## 6. Not modelled

The byte layout of the packed protocol structures, their formatters and the ITCH types nobody
reads, thread and logging utilities, the entry points and tools. In `ConfigParser`: values of
another type than the parser asks for (`get` throws), `printConfig` and `toString`. In `TcpServer`:
a second `start()` and `broadcastToAll` (no caller), socket options, `fcntl` and `epoll_wait` that
fail (they do not on descriptors that are open). In `TcpClient::handleMessage`: the `memcpy` of `length - sizeof(PacketType)` bytes
(`tcp_client.cpp:110`, 118, 143, 155 and 174), which copies two bytes more than the payload has, since
`length` counts the length field too; it is about the layout that is left out. In `OrderManager`:
`orderReplaced` (no caller). In `L2Orderbook`: `GetBestPrices` of an empty
side (no caller). In `MarketDataClient`: `setSessionName` and `processRewoundPackets` (no caller). Trading phases in which the exchange's own book may cross
(auctions) are outside `ItchFeed`.

## 7. Plan

1. Done: the books, the rewind and its abstract specification, the book of a late joiner, the
   configuration, tokens and the order entry process, the emulator with its clients; proofs of
   the safety properties of all of them.
2. Open: the byte layout of the protocol structures, and a second client of the order entry
   process in full (of the second accessor only the token is kept).
