---------------------------- MODULE ConfigParser ----------------------------
(***************************************************************************)
(* ConfigParser (lib/utility/config_parser.hpp): what it makes of the text *)
(* of a configuration file and of app_parameters.json.                     *)
(*                                                                         *)
(* A JSON object is a function from its keys to its values, an array a     *)
(* sequence.  Values have the types the parser expects; which keys are     *)
(* there is what its early returns depend on.  A partition that was read   *)
(* is the object it was read from and its instrument type.                 *)
(***************************************************************************)
EXTENDS CppIntegers, Sequences, SequencesExt

contains(j, key) == key \in DOMAIN j

\* What an ifstream finds: no file, no JSON, or an object.  Every proper prefix of the
\* text of an object, the empty one included, is no JSON.
NoFile      == [opens |-> FALSE, valid |-> FALSE, json |-> << >>]
Torn        == [opens |-> TRUE, valid |-> FALSE, json |-> << >>]
JsonFile(j) == [opens |-> TRUE, valid |-> TRUE, json |-> j]

----------------------------------------------------------------------------
(* app_parameters.json *)

TokenIndexKey == "last_used_order_token_index"

\* Mutant: a text that is no JSON counts as the index 0.
parseAppParametersLenient(file) ==
    IF file.opens /\ (file.valid => contains(file.json, TokenIndexKey))
    THEN [verdict |-> TRUE, index |-> IF file.valid THEN file.json[TokenIndexKey] % SaveMod ELSE 0]
    ELSE [verdict |-> FALSE, index |-> 0]

\* parseAppParameters on a new parser.  Where it fails, the index it leaves in
\* m_appParams is not initialised, and 0 stands for it; nobody may use it.
parseAppParameters(file) ==
    IF file.opens /\ file.valid /\ contains(file.json, TokenIndexKey)
    THEN [verdict |-> TRUE, index |-> file.json[TokenIndexKey] % SaveMod]
    ELSE [verdict |-> FALSE, index |-> 0]

----------------------------------------------------------------------------
(* The configuration file. *)

\* A parser: the verdict of the call so far, and the partitions pushed.
NewParser == [verdict |-> "true", market |-> << >>, entry |-> << >>]

\* The call returns false; what has been pushed stays.
Fails(parser) == [parser EXCEPT !.verdict = "false"]
\* operator[] of a const object is called with a key that is not there.
Undefined(parser) == [parser EXCEPT !.verdict = "undefined"]

MarketPartitionKeys == {"name", "multicast_port", "unicast_request_port", "unicast_destination_port", "cpu"}
InstrumentKeys == {"itch_multicast_ip", "itch_multicast_interface_ip",
                   "rewinder_unicast_request_ip", "rewinder_unicast_destination_ip"}
EntryPartitionKeys == {"name", "ip", "port", "username", "password"}

inactive(p) == contains(p, "is_active") /\ ~p["is_active"]

\* One round of the loop of parseInstrumentConfig.  The name is logged, and so read,
\* before it is known to be there.
marketPartition(parser, instrument, type, p) ==
    IF parser.verdict # "true" THEN parser
    ELSE IF ~contains(p, "name") THEN Undefined(parser)
    ELSE IF inactive(p) THEN parser
    ELSE IF ~(MarketPartitionKeys \subseteq DOMAIN p) THEN Fails(parser)
    ELSE IF ~(InstrumentKeys \subseteq DOMAIN instrument) THEN Undefined(parser)
    ELSE [parser EXCEPT !.market = Append(@, [from |-> p, type |-> type])]

parseInstrumentConfig(parser, market_data, type, key) ==
    LET partitions == market_data[key]["partitions"]
        round[i \in 0 .. Len(partitions)] ==
            IF i = 0 THEN parser
            ELSE marketPartition(round[i - 1], market_data[key], type, partitions[i])
    IN  IF parser.verdict # "true" THEN parser
        ELSE IF ~contains(market_data, key) THEN Fails(parser)
        ELSE IF ~contains(market_data[key], "partitions") THEN Fails(parser)
        ELSE round[Len(partitions)]

\* Mutant: inactive partitions are taken as well.
entryPartitionTakesAll(parser, order_entry, key, type) ==
    IF parser.verdict # "true" THEN parser
    ELSE IF ~contains(order_entry, key) THEN Fails(parser)
    ELSE IF ~contains(order_entry[key], "name") THEN Undefined(parser)
    ELSE IF ~(EntryPartitionKeys \subseteq DOMAIN order_entry[key]) THEN Fails(parser)
    ELSE [parser EXCEPT !.entry = Append(@, [from |-> order_entry[key], type |-> type])]

\* One round of the loop of parseOrderEntryConfig.
entryPartition(parser, order_entry, key, type) ==
    IF parser.verdict # "true" THEN parser
    ELSE IF ~contains(order_entry, key) THEN Fails(parser)
    ELSE IF ~contains(order_entry[key], "name") THEN Undefined(parser)
    ELSE IF inactive(order_entry[key]) THEN parser
    ELSE IF ~(EntryPartitionKeys \subseteq DOMAIN order_entry[key]) THEN Fails(parser)
    ELSE [parser EXCEPT !.entry = Append(@, [from |-> order_entry[key], type |-> type])]

parseOrderEntryConfig(parser, order_entry) ==
    IF parser.verdict # "true" THEN parser
    ELSE IF ~({"client_account", "exchange_info"} \subseteq DOMAIN order_entry) THEN Fails(parser)
    ELSE entryPartition(entryPartition(parser, order_entry, "equity", "Equity"),
                        order_entry, "derivative", "Derivative")

\* parseConfig on a new parser.
parseConfig(file) ==
    LET j == file.json
        equity == parseInstrumentConfig(NewParser, j["market_data"], "Equity", "equity")
        market == parseInstrumentConfig(equity, j["market_data"], "Derivative", "derivative")
    IN  IF ~(file.opens /\ file.valid /\ contains(j, "market_data") /\ contains(j, "order_entry"))
        THEN Fails(NewParser)
        ELSE parseOrderEntryConfig(market, j["order_entry"])

----------------------------------------------------------------------------
(* What a configuration says, without the order in which it is read. *)

\* The value of a key, or an empty object or array.
ValueOf(j, key) == IF contains(j, key) THEN j[key] ELSE << >>

Instrument(j, key) == ValueOf(ValueOf(j, "market_data"), key)
Partitions(j, key) == ValueOf(Instrument(j, key), "partitions")
Entry(j, key) == ValueOf(ValueOf(j, "order_entry"), key)

\* The active ones of these partitions, with their instrument type.
Active(partitions, type) ==
    LET taken[i \in 0 .. Len(partitions)] ==
            IF i = 0 THEN << >>
            ELSE IF inactive(partitions[i]) THEN taken[i - 1]
            ELSE Append(taken[i - 1], [from |-> partitions[i], type |-> type])
    IN  taken[Len(partitions)]

ListedMarket(j) == Active(Partitions(j, "equity"), "Equity") \o Active(Partitions(j, "derivative"), "Derivative")
ListedEntry(j) == Active(<< Entry(j, "equity") >>, "Equity") \o Active(<< Entry(j, "derivative") >>, "Derivative")

\* Every key that is needed is there: names always, the rest where something is active.
Complete(j) ==
    /\ {"client_account", "exchange_info", "equity", "derivative"} \subseteq DOMAIN ValueOf(j, "order_entry")
    /\ \A key \in {"equity", "derivative"} :
           /\ contains(Instrument(j, key), "partitions")
           /\ \A p \in Range(Partitions(j, key)) :
                  /\ contains(p, "name")
                  /\ ~inactive(p) => MarketPartitionKeys \subseteq DOMAIN p /\ InstrumentKeys \subseteq DOMAIN Instrument(j, key)
           /\ contains(Entry(j, key), "name")
           /\ ~inactive(Entry(j, key)) => EntryPartitionKeys \subseteq DOMAIN Entry(j, key)
=============================================================================
