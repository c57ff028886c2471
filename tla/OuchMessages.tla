---------------------------- MODULE OuchMessages ----------------------------
(***************************************************************************)
(* The OUCH requests and responses (lib/protocol/ouch/) and the SoupBinTCP *)
(* packets around them (lib/protocol/soupbintcp/), with the fields the     *)
(* client and the exchange tell apart.  An order is known by its token;    *)
(* accounts, prices, times and the exchange's own ids are left out.        *)
(***************************************************************************)
EXTENDS OrderManager

OrderQuantity == 0 .. QtyMod - 1

\* Requests.
EnterOrder   == [type : {"Enter"}, token : Token, quantity : OrderQuantity]
ReplaceOrder == [type : {"Replace"}, original : Token, token : Token, quantity : OrderQuantity]
CancelOrder  == [type : {"Cancel"}, token : Token]

\* Responses.
OrderAccepted == [type : {"Accepted"}, token : Token, quantity : OrderQuantity]
OrderExecuted == [type : {"Executed"}, token : Token, quantity : OrderQuantity]
OrderReplaced == [type : {"Replaced"}, token : Token, previous : Token]
OrderCanceled == [type : {"Canceled"}, token : Token]
OrderRejected == [type : {"Rejected"}, token : Token]

\* Packets without a payload.
LoginRequest    == [type : {"Login"}]
ClientHeartbeat == [type : {"ClientHeartbeat"}]
LoginAccepted   == [type : {"LoginAccepted"}]
LoginRejected   == [type : {"LoginRejected"}]
ServerHeartbeat == [type : {"ServerHeartbeat"}]
EndOfSession    == [type : {"EndOfSession"}]

Request == EnterOrder \cup ReplaceOrder \cup CancelOrder \cup LoginRequest \cup ClientHeartbeat
Response ==
    OrderAccepted \cup OrderExecuted \cup OrderReplaced \cup OrderCanceled \cup OrderRejected
        \cup LoginAccepted \cup LoginRejected \cup ServerHeartbeat \cup EndOfSession
=============================================================================
