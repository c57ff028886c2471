---------------------------- MODULE MCOrderEntry ----------------------------
(***************************************************************************)
(* Instances of OrderEntry for TLC: configurations, of the form of         *)
(* bist_config/*.json, and what is left of one of them when a key is       *)
(* missing.  The cfg files give the other constants.                       *)
(***************************************************************************)
EXTENDS OrderEntry

\* A market data partition, with or without is_active.
Plain(n) == [name |-> n, multicast_port |-> 1, unicast_request_port |-> 1, unicast_destination_port |-> 1, cpu |-> 1]
Flagged(n, active) == [is_active |-> active] @@ Plain(n)

MarketInstrument(partitions) ==
    [itch_multicast_ip |-> "a", itch_multicast_interface_ip |-> "b", rewinder_unicast_request_ip |-> "c",
     rewinder_unicast_destination_ip |-> "d", partitions |-> partitions]
EntryObject(n, active) ==
    [name |-> n, ip |-> "e", port |-> 1, username |-> "f", password |-> "g", is_active |-> active]

\* A configuration whose order entry partitions are active as given.
Config(equity, derivative) ==
    [market_data |-> [equity |-> MarketInstrument(<< Plain("E1"), Flagged("E2", FALSE) >>),
                      derivative |-> MarketInstrument(<< Flagged("D1", FALSE), Flagged("D2", TRUE) >>)],
     order_entry |-> [client_account |-> "h", exchange_info |-> "i",
                      equity |-> EntryObject("E", equity), derivative |-> EntryObject("D", derivative)]]

\* An object without one of its keys, or with a value of one of them replaced by
\* what is left of it.
Lacking(j) == {Without(j, key) : key \in DOMAIN j}
WithinKey(j, key, values) == {[j EXCEPT ![key] = v] : v \in values}
LackingWithin(j) == UNION {WithinKey(j, key, Lacking(j[key])) : key \in {"equity", "derivative"}}
LackingPartition(i) ==
    WithinKey(i, "partitions", UNION {WithinKey(i.partitions, n, Lacking(i.partitions[n])) : n \in {1, 2}})

Broken(j) ==
    Lacking(j)
    \cup WithinKey(j, "market_data", Lacking(j.market_data) \cup LackingWithin(j.market_data)
            \cup UNION {WithinKey(j.market_data, key, LackingPartition(j.market_data[key])) : key \in {"equity", "derivative"}})
    \cup WithinKey(j, "order_entry", Lacking(j.order_entry) \cup LackingWithin(j.order_entry))

MCConfigs ==
    {Config(TRUE, TRUE), Config(TRUE, FALSE), Config(FALSE, TRUE)}
        \cup {j \in Broken(Config(TRUE, TRUE)) : ~Complete(j)} \cup {j \in Broken(Config(FALSE, FALSE)) : TRUE}
OneConfig == {Config(TRUE, FALSE), Config(FALSE, TRUE)}
=============================================================================
