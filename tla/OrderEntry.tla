----------------------------- MODULE OrderEntry -----------------------------
(***************************************************************************)
(* BistMarketAccessor (lib/client/order_entry_client.cpp) with its reader, *)
(* TcpClient::handleMessage (lib/network/tcp_client.cpp), and its          *)
(* OrderManager, against an OUCH exchange: reading the configuration and   *)
(* the last token, logging in, entering, replacing and cancelling orders,  *)
(* saving the last token, and restarting.                                  *)
(*                                                                         *)
(* The specification follows one session.  Where the configuration has a   *)
(* second active partition, the process has a second OrderManager, of      *)
(* which only the token is kept.  The program that reads both files and    *)
(* constructs the accessors is external (trading_client fills in a         *)
(* configuration of its own): it starts when both files could be parsed,   *)
(* gives every accessor the same last index, and destroys them in either   *)
(* order.                                                                  *)
(*                                                                         *)
(* The exchange is external: it answers requests in order, executes open   *)
(* orders whenever it likes, and reports on an order under its current     *)
(* token.  The connection is two FIFO channels (TCP); it goes down with    *)
(* the process, and so does everything in it.                              *)
(***************************************************************************)
EXTENDS OuchMessages, ConfigParser

CONSTANTS Configs,    \* the JSON objects the configuration file may hold
          LastIndexes,\* the values app_parameters.json may hold at first
          OrderQty,   \* the quantity of an order
          MaxOrders,  \* EnterOrder requests sent, by all accessors together (bound)
          MaxRuns,    \* times the process is started (bound)
          MaxBeats    \* heartbeats and ends of session sent (bound)

ASSUME EntryAssumption ==
    /\ \A j \in Configs, key \in {"equity", "derivative"} :
           Partitions(j, key) \in Seq(Range(Partitions(j, key)))
    /\ LastIndexes \subseteq Nat
    /\ OrderQty \in 1 .. QtyMod - 1
    /\ MaxOrders \in Nat /\ MaxRuns \in Nat /\ MaxBeats \in Nat

VARIABLES
    \* the files
    document, \* the configuration
    file,     \* app_parameters.json
    \* the client process
    m_instrumentType, \* of the session's partition
    config,   \* what the last process has made of the configuration
    state,    \* m_state
    token,    \* m_token
    orders,   \* m_orders
    pending,  \* m_originalToReplacementTokens
    other,    \* m_token of the second accessor's OrderManager, if there is one
    running,  \* how far the process is
    unsaved,  \* the tokens of the OrderManagers that are still to be destroyed
    \* the connection
    out,      \* requests on their way to the exchange
    in,       \* responses on their way to the client
    \* the exchange, and what has been asked of it
    open,     \* open orders: current token -> [left, original token]
    ended,    \* original token -> how the order ended
    issued,   \* the process and the token of every request that carries a new one
    entered,  \* EnterOrder requests sent
    beats,    \* heartbeats and ends of session sent
    runs,     \* processes started
    left,     \* the index app_parameters.json was left with: the session's "own", "nothing" or an "old" one
    kept      \* has every process found what the one before had saved for its session?

memberVars == << state, token, orders, pending >>
processVars == << running, other, unsaved, file, left, kept, config, document, m_instrumentType >>
exchangeVars == << open, ended >>
rest == << processVars, beats, runs >>
vars == << memberVars, processVars, out, in, exchangeVars, issued, entered, beats, runs >>

Init ==
    /\ document \in {JsonFile(j) : j \in Configs} \cup {NoFile, Torn}
    /\ file \in {JsonFile([last_used_order_token_index |-> i]) : i \in LastIndexes} \cup {NoFile, JsonFile(<< >>)}
    /\ m_instrumentType \in {"Equity", "Derivative"}
    /\ config = NewParser
    /\ state = "Disconnected" /\ token = firstToken(0) /\ orders = NoOrders /\ pending = << >>
    /\ other = << >> /\ running = "down" /\ unsaved = << >>
    /\ out = << >> /\ in = << >>
    /\ open = << >> /\ ended = << >>
    /\ issued = << >> /\ entered = 0
    /\ beats = 0 /\ runs = 0
    /\ left = "nothing" /\ kept = TRUE

----------------------------------------------------------------------------
(* The client. *)

login ==
    /\ running = "started"
    /\ running' = "logged in"
    /\ out' = Append(out, [type |-> "Login"])
    /\ UNCHANGED << memberVars, other, unsaved, file, left, kept, config, document, m_instrumentType,
                    in, exchangeVars, issued, entered, beats, runs >>

\* The requests the constructor prepares: the quantity 0 of a replace request asks for
\* no change of the quantity.
prepareEnterOrderBuffer(order_token) ==
    [type |-> "Enter", token |-> order_token, quantity |-> OrderQty]
prepareReplaceOrderBuffer(existing, replacement) ==
    [type |-> "Replace", original |-> existing, token |-> replacement, quantity |-> 0]
prepareCancelOrderBuffer(order_token) == [type |-> "Cancel", token |-> order_token]

\* sendEnterOrder: a new token and a request that carries it.
sendEnterOrder ==
    /\ token' = nextToken(token)
    /\ issued' = Append(issued, << runs, token' >>)
    /\ entered' = entered + 1
    /\ out' = Append(out, prepareEnterOrderBuffer(token'))
    /\ UNCHANGED pending

pendingReplace(original, replacement) == pending' = Append(pending, << original, replacement >>)

\* sendReplaceOrder: a new token for an order, remembered with the old one.
sendReplaceOrder(original) ==
    /\ token' = nextToken(token)
    /\ issued' = Append(issued, << runs, token' >>)
    /\ pendingReplace(original, token')
    /\ out' = Append(out, prepareReplaceOrderBuffer(original, token'))

sendCancelOrder(original) ==
    out' = Append(out, prepareCancelOrderBuffer(original))

\* An accepted login sends a first order, for an equity.
onLoginAccepted(m) ==
    /\ m.type = "LoginAccepted"
    /\ state' = "Continuous"
    /\ IF m_instrumentType = "Equity" THEN sendEnterOrder
       ELSE UNCHANGED << token, issued, entered, out, pending >>
    /\ UNCHANGED orders

\* handleMessage only prints a rejected login.
onLoginRejected(m) ==
    /\ m.type = "LoginRejected"
    /\ UNCHANGED << state, token, orders, pending, out, issued, entered >>

onOrderAccepted(m) ==
    /\ m.type = "Accepted"
    /\ orders' = orderAccepted(orders, m.token, m.quantity)
    /\ sendReplaceOrder(m.token)
    /\ UNCHANGED << state, entered >>

onOrderExecuted(m) ==
    /\ m.type = "Executed"
    /\ orders' = orderExecuted(orders, m.token, m.quantity)
    /\ UNCHANGED << state, token, pending, out, issued, entered >>

\* The call of orderReplaced is commented out: only the cancel request is left.
onOrderReplaced(m) ==
    /\ m.type = "Replaced"
    /\ sendCancelOrder(m.token)
    /\ UNCHANGED << state, token, orders, pending, issued, entered >>

onOrderRejected(m) ==
    /\ m.type = "Rejected"
    /\ orders' = orderDeleted(orders, m.token)
    /\ UNCHANGED << state, token, pending, out, issued, entered >>

\* handleMessage only logs a canceled order.
onOrderCanceled(m) ==
    /\ m.type = "Canceled"
    /\ UNCHANGED << state, token, orders, pending, out, issued, entered >>

\* A server heartbeat is echoed.
onServerHeartbeat(m) ==
    /\ m.type = "ServerHeartbeat"
    /\ out' = Append(out, [type |-> "ClientHeartbeat"])
    /\ UNCHANGED << state, token, orders, pending, issued, entered >>

\* The end of the session, like a packet of an unknown type, is only logged.
onEndOfSession(m) ==
    /\ m.type = "EndOfSession"
    /\ UNCHANGED << state, token, orders, pending, out, issued, entered >>

\* TcpClient::handleMessage: one message off the stream.
handleMessage ==
    /\ running = "logged in"
    /\ in # << >>
    /\ in' = Tail(in)
    /\ LET m == Head(in)
       IN  \/ onLoginAccepted(m) \/ onLoginRejected(m)
           \/ onOrderAccepted(m) \/ onOrderExecuted(m) \/ onOrderReplaced(m)
           \/ onOrderRejected(m) \/ onOrderCanceled(m) \/ onServerHeartbeat(m)
           \/ onEndOfSession(m)
    /\ UNCHANGED << exchangeVars, rest >>

\* A strategy that uses the public sendEnterOrder.
Trade ==
    /\ state = "Continuous" /\ running = "logged in"
    /\ entered < MaxOrders
    /\ sendEnterOrder
    /\ UNCHANGED << state, orders, in, exchangeVars, rest >>

\* The second accessor's sendEnterOrder, as far as its token is concerned.
OtherTrade ==
    /\ running = "logged in" /\ other # << >>
    /\ entered < MaxOrders /\ entered' = entered + 1
    /\ other' = << nextToken(other[1]) >>
    /\ UNCHANGED << memberVars, running, unsaved, file, left, kept, config, document, m_instrumentType,
                    out, in, exchangeVars, issued, beats, runs >>

----------------------------------------------------------------------------
(* The end of a process, and the next one. *)

\* An accessor without a session, and an exchange without orders of it.
NoSession ==
    /\ state' = "Disconnected" /\ orders' = NoOrders /\ pending' = << >>
    /\ open' = << >> /\ ended' = << >>
    /\ out' = << >> /\ in' = << >>

\* The accessors are destroyed, in either order: the connections end.
Stop ==
    /\ running \in {"started", "logged in"}
    /\ running' = "stopping"
    /\ LET own   == << [own |-> TRUE, token |-> token] >>
           other_ == [i \in 1 .. Len(other) |-> [own |-> FALSE, token |-> other[i]]]
       IN  unsaved' \in {own \o other_, other_ \o own}
    /\ NoSession
    /\ UNCHANGED << token, other, file, left, kept, config, document, m_instrumentType,
                    issued, entered, beats, runs >>

\* ~OrderManager opens app_parameters.json, which empties it; or cannot, and goes on.
saveOpen ==
    /\ running = "stopping" /\ unsaved # << >>
    /\ \/ running' = "saving" /\ file' = Torn /\ left' = "nothing" /\ UNCHANGED unsaved
       \/ unsaved' = Tail(unsaved) /\ UNCHANGED << running, file, left >>
    /\ UNCHANGED << memberVars, other, kept, config, document, m_instrumentType,
                    out, in, exchangeVars, issued, entered, beats, runs >>

\* The index of a token, in a uint32_t; the next process keeps one more in an int.
savedIndex(t) == parse_order_token_decimal(t) % SaveMod
fitsInt(n) == n \in IntMin .. IntMax

\* ~OrderManager writes the index; a write that fails, on a full disk, is not noticed.
saveWrite ==
    /\ running = "saving"
    /\ running' = "stopping" /\ unsaved' = Tail(unsaved)
    /\ LET m == Head(unsaved)
       IN  \/ /\ file' = JsonFile([last_used_order_token_index |-> savedIndex(m.token)])
              /\ left' = IF m.own /\ fitsInt(parse_order_token_decimal(m.token) + 1) THEN "own" ELSE "old"
           \/ UNCHANGED << file, left >>
    /\ UNCHANGED << memberVars, other, kept, config, document, m_instrumentType,
                    out, in, exchangeVars, issued, entered, beats, runs >>

\* The process is gone: after its destructors, or killed at any time before.
Exit ==
    /\ running # "down"
    /\ running' = "down" /\ unsaved' = << >> /\ other' = << >>
    /\ NoSession
    /\ UNCHANGED << token, file, left, kept, config, document, m_instrumentType, issued, entered, beats, runs >>

\* A new process reads both files and constructs an accessor for every active
\* partition, or gives up.
Start ==
    /\ running = "down" /\ runs < MaxRuns
    /\ runs' = runs + 1
    /\ config' = parseConfig(document)
    /\ LET app == parseAppParameters(file)
           mine(p) == p.type = m_instrumentType
       IN  IF config'.verdict = "true" /\ app.verdict /\ \E p \in Range(config'.entry) : mine(p)
           THEN /\ running' = "started"
                /\ token' = firstToken(app.index)
                /\ other' = [i \in 1 .. Len(config'.entry) - 1 |-> firstToken(app.index)]
                /\ kept' = (kept /\ left # "old") /\ left' = "old"
           ELSE UNCHANGED << token, running, other, kept, left >>
    /\ NoSession
    /\ UNCHANGED << unsaved, file, document, m_instrumentType, issued, entered, beats >>

----------------------------------------------------------------------------
(* The exchange. *)

With(f, k, v) == [x \in DOMAIN f \cup {k} |-> IF x = k THEN v ELSE f[x]]
Without(f, k) == [x \in DOMAIN f \ {k} |-> f[x]]

\* Its answer to the oldest request, and what it makes of it.
Reply(m, newOpen, newEnded) ==
    /\ in' = Append(in, m)
    /\ open' = newOpen
    /\ ended' = newEnded

Respond ==
    /\ out # << >>
    /\ out' = Tail(out)
    /\ LET r == Head(out)
       IN  \/ /\ r.type = "Login"
              /\ \E verdict \in {"LoginAccepted", "LoginRejected"} :
                     Reply([type |-> verdict], open, ended)
           \/ /\ r.type = "Enter"
              /\ \/ Reply([type |-> "Accepted", token |-> r.token, quantity |-> OrderQty],
                          With(open, r.token, [left |-> OrderQty, original |-> r.token]), ended)
                 \/ Reply([type |-> "Rejected", token |-> r.token],
                          open, With(ended, r.token, "rejected"))
           \/ /\ r.type = "Replace" /\ r.original \in DOMAIN open
              /\ Reply([type |-> "Replaced", token |-> r.token, previous |-> r.original],
                       With(Without(open, r.original), r.token, open[r.original]), ended)
           \/ /\ r.type = "Replace" /\ r.original \notin DOMAIN open
              /\ Reply([type |-> "Rejected", token |-> r.token], open, ended)
           \/ /\ r.type = "Cancel" /\ r.token \in DOMAIN open
              /\ Reply([type |-> "Canceled", token |-> r.token],
                       Without(open, r.token), With(ended, open[r.token].original, "canceled"))
           \/ /\ \/ r.type = "Cancel" /\ r.token \notin DOMAIN open
                 \/ r.type = "ClientHeartbeat"
              /\ UNCHANGED << in, exchangeVars >>
    /\ UNCHANGED << memberVars, issued, entered, rest >>

Trades(t, qty) ==
    /\ running = "logged in"
    /\ qty <= open[t].left
    /\ IF qty = open[t].left
       THEN Reply([type |-> "Executed", token |-> t, quantity |-> qty],
                  Without(open, t), With(ended, open[t].original, "executed"))
       ELSE Reply([type |-> "Executed", token |-> t, quantity |-> qty],
                  [open EXCEPT ![t].left = @ - qty], ended)
    /\ UNCHANGED << memberVars, out, issued, entered, rest >>

\* Packets the server sends on its own account.
Heartbeat(type) ==
    /\ running = "logged in"
    /\ beats < MaxBeats /\ beats' = beats + 1
    /\ in' = Append(in, [type |-> type])
    /\ UNCHANGED << memberVars, processVars, out, exchangeVars, issued, entered, runs >>

Next ==
    \/ login
    \/ handleMessage
    \/ Trade \/ OtherTrade
    \/ Stop \/ saveOpen \/ saveWrite \/ Exit
    \/ Start
    \/ Respond
    \/ \E t \in DOMAIN open, qty \in 1 .. OrderQty : Trades(t, qty)
    \/ \E type \in {"ServerHeartbeat", "EndOfSession"} : Heartbeat(type)

Spec == Init /\ [][Next]_vars

----------------------------------------------------------------------------
(* Properties. *)

Index(t) == parse_order_token_decimal(t)

\* Types of the client's members, the channels and the exchange's tables.
TypeOK ==
    /\ state \in {"Disconnected", "Continuous"}
    /\ running \in {"down", "started", "logged in", "stopping", "saving"}
    /\ token \in Token /\ other \in Seq(Token)
    /\ contains(file.json, TokenIndexKey) => file.json[TokenIndexKey] \in Nat
    /\ unsaved \in Seq([own : BOOLEAN, token : Token])
    /\ orders \in [0 .. OrdersSize - 1 -> [quantity : 0 .. QtyMod - 1, is_valid : BOOLEAN]]
    /\ pending \in Seq(Token \X Token)
    /\ out \in Seq(Request) /\ in \in Seq(Response)
    /\ issued \in Seq((1 .. MaxRuns) \X Token)
    /\ DOMAIN open \subseteq Token /\ DOMAIN ended \subseteq Token

\* Every request goes out under a token that spells a larger number than all tokens its
\* process has sent before, unless one from there on began with a nine, after which
\* nextToken starts again.  It is also larger than those of the processes before, as
\* long as each of them, if it did not leave the file unreadable, has saved its
\* session's token last, and the number after it fits an int: a file that was emptied
\* and not written starts no process.
TokensAscend ==
    \A i, j \in 1 .. Len(issued) :
        /\ i < j
        /\ ~kept => issued[i][1] = issued[j][1]
        /\ \A k \in i .. j - 1 : ~Exhausted(issued[k][2])
        => Index(issued[i][2]) < Index(issued[j][2])

\* A configuration is accepted exactly if every key that is needed is there, and then
\* the partitions are its active ones, in its order.  A call that fails half-way has
\* kept a prefix of them.
ConfigTaken ==
    LET j == document.json
    IN  runs > 0 =>
            /\ config.verdict = "true" <=> document.valid /\ Complete(j)
            /\ config.verdict = "true" => config.market = ListedMarket(j) /\ config.entry = ListedEntry(j)
            /\ IsPrefix(config.market, ListedMarket(j)) /\ IsPrefix(config.entry, ListedEntry(j))

\* What a message says was traded of an order, and what these messages say.
Amount(m, t) == IF m.type = "Executed" /\ m.token = t THEN m.quantity ELSE 0
TradedIn(messages, t) ==
    LET sum[i \in 0 .. Len(messages)] == IF i = 0 THEN 0 ELSE sum[i - 1] + Amount(messages[i], t)
    IN  sum[Len(messages)]
Traded(t) == TradedIn(in, t)
Acknowledged(t) == \A i \in 1 .. Len(in) : in[i].type = "Accepted" => in[i].token # t

\* While an order trades under the token it was entered with, the table holds what
\* the exchange has left plus the executions still on their way.
QuantityTracked ==
    \A t \in DOMAIN open :
        running = "logged in" /\ open[t].original = t /\ Acknowledged(t) /\ withinRange(Index(t)) =>
            orders[Index(t)] = [quantity |-> open[t].left + Traded(t), is_valid |-> TRUE]

\* An entry of the table changes only by messages about its own token: the entries of
\* tokens the process has not issued are as they were constructed, although issued
\* tokens may lie beyond the table.
OnlyOwnEntries ==
    \A n \in 0 .. OrdersSize - 1 :
        running = "logged in" /\ (\A i \in 1 .. Len(issued) : issued[i][1] = runs => Index(issued[i][2]) # n)
            => orders[n] = NoOrders[n]

\* The order has ended, and the client has read everything about it.
Settled(t) == running = "logged in" /\ withinRange(Index(t)) /\ in = << >>

\* A rejected order is marked invalid in the table.
RejectedIsInvalid ==
    \A t \in DOMAIN ended : Settled(t) /\ ended[t] = "rejected" => ~orders[Index(t)].is_valid

\* An order that was fully executed, canceled or rejected is marked invalid in the
\* table, as the comment on is_valid says.
EndedIsInvalid ==
    \A t \in DOMAIN ended : Settled(t) => ~orders[Index(t)].is_valid
=============================================================================
