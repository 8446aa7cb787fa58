------------------------------ MODULE OrderApi ------------------------------
(***************************************************************************)
(* What OrderServer makes of the messages of OrderService, and of what the  *)
(* engine answers: internal/server/grpc/order_server.go over the messages   *)
(* of api/proto.  A message is a record; one that CreateOrder refuses is not *)
(* answered by the engine.  Timestamps, trade ids and reduce_only, which the *)
(* engine of a spot market does not look at, are left out.                   *)
(***************************************************************************)
EXTENDS MatchEngine, OrderWire

-----------------------------------------------------------------------------
(* The messages.                                                            *)

CreateOrderRequest ==
    [user : Users \cup {""}, symbol : STRING, side : Int, type : Int,
     tif : Int, price : Text, quantity : Text, stop : Text, visible : Text,
     client_order_id : ClientIDs \cup {""}]

OrderMessage ==
    [id : OrderIDs, user : Users, symbol : STRING, side : Int, type : Int,
     tif : Int, price : Text, quantity : Text, filled : Text, stop : Text,
     visible : Text, status : Int]

TradeMessage ==
    [symbol : STRING, maker : OrderIDs, taker : OrderIDs, makerUser : Users,
     takerUser : Users, price : Text, quantity : Text, makerSide : Int,
     takerSide : Int]

CreateOrderResponse ==
    [success : BOOLEAN, order : OrderMessage, trades : Seq(TradeMessage)]

CancelOrderRequest == [symbol : STRING, id : OrderIDs \cup {""}]
GetOrderRequest == CancelOrderRequest

\* The answers to a cancel and to a query of one order: at most one order.
CancelOrderResponse ==
    {a \in [success : BOOLEAN, orders : Seq(OrderMessage)] :
        Len(a.orders) = IF a.success THEN 1 ELSE 0}
GetOrderResponse == CancelOrderResponse

GetUserOrdersRequest == [symbol : STRING, user : Users \cup {""}]
GetUserOrdersResponse == [success : {TRUE}, orders : Seq(OrderMessage)]

-----------------------------------------------------------------------------
(* CreateOrder up to the call of the engine.                                *)

\* What CreateOrder answers with InvalidArgument.
Refused(req) ==
    \/ req.symbol = "" \/ req.user = ""
    \/ req.price.is = "garbage"
    \/ req.quantity.is # "number"
    \/ req.stop.is = "garbage" \/ req.visible.is = "garbage"

\* The order CreateOrder hands on, without its id.
FormOf(req) ==
    [user |-> req.user, side |-> convertOrderSide(req.side),
     type |-> convertOrderType(req.type), tif |-> convertTimeInForce(req.tif),
     price |-> ValueOf(req.price), stop |-> ValueOf(req.stop),
     qty |-> req.quantity.value, visible |-> ValueOf(req.visible)]

\* Its id: the client's own, or the n-th fresh uuid.
OrderIDOf(req, n) ==
    IF req.client_order_id # ""
    THEN <<"client", req.client_order_id>> ELSE <<"uuid", n>>

-----------------------------------------------------------------------------
(* The answers.                                                             *)

convertOrderToProto(symbol, o) ==
    [id |-> o.id, user |-> o.user, symbol |-> symbol,
     side |-> convertOrderSideToProto(o.side),
     type |-> convertOrderTypeToProto(o.type),
     tif |-> convertTimeInForceToProto(o.tif),
     price |-> TextOf(o.price), quantity |-> TextOf(o.qty),
     filled |-> TextOf(o.filled), stop |-> TextOf(o.stop),
     visible |-> TextOf(o.visible),
     status |-> convertOrderStatusToProto(o.status)]

\* The trade matchOrders records, of quantity q at the maker's price.
TradeOf(taker, maker, q) ==
    [maker |-> maker.id, taker |-> taker.id, makerUser |-> maker.user,
     takerUser |-> taker.user, price |-> maker.price, quantity |-> q,
     makerSide |-> maker.side, takerSide |-> taker.side]

convertTradeToProto(symbol, t) ==
    [symbol |-> symbol, maker |-> t.maker, taker |-> t.taker,
     makerUser |-> t.makerUser, takerUser |-> t.takerUser,
     price |-> TextOf(t.price), quantity |-> TextOf(t.quantity),
     makerSide |-> convertOrderSideToProto(t.makerSide),
     takerSide |-> convertOrderSideToProto(t.takerSide)]

\* CreateOrder's answer to a MatchResult.
CreateAnswer(symbol, result) ==
    [success |-> ~ result.rejected,
     order |-> convertOrderToProto(symbol, result.taker),
     trades |-> [i \in DOMAIN result.trades |->
                    convertTradeToProto(symbol, result.trades[i])]]

\* The answer to a cancel or a query, for what was found: a sequence of at
\* most one order.
FoundAnswer(symbol, found) ==
    [success |-> found # <<>>,
     orders |-> [i \in DOMAIN found |-> convertOrderToProto(symbol, found[i])]]

UserOrdersAnswer(symbol, held) ==
    [success |-> TRUE,
     orders |-> [i \in DOMAIN held |-> convertOrderToProto(symbol, held[i])]]

-----------------------------------------------------------------------------
(* Properties.                                                              *)

\* What a message says of an order, read with the enums of the wire.
Read(m) ==
    [user |-> m.user, side |-> convertOrderSide(m.side),
     type |-> convertOrderType(m.type), tif |-> convertTimeInForce(m.tif),
     price |-> ValueOf(m.price), stop |-> ValueOf(m.stop),
     qty |-> ValueOf(m.quantity), visible |-> ValueOf(m.visible)]

\* The submission an order record is.
FormFields(o) ==
    [user |-> o.user, side |-> o.side, type |-> o.type, tif |-> o.tif,
     price |-> o.price, stop |-> o.stop, qty |-> o.qty, visible |-> o.visible]
=============================================================================
