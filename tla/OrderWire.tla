----------------------------- MODULE OrderWire ------------------------------
(***************************************************************************)
(* The enums and decimals of api/proto and the tables of                    *)
(* internal/server/grpc/order_server.go that translate them.  Enum fields    *)
(* are integers: proto3 enums are open, a client may send any number, and 0  *)
(* when it sends none.  A decimal's text is what decimal.NewFromString makes *)
(* of it.                                                                   *)
(***************************************************************************)
EXTENDS Integers

-----------------------------------------------------------------------------
(* The enums on the wire.                                                   *)

OrderSide == [UNSPECIFIED |-> 0, BUY |-> 1, SELL |-> 2]

OrderType == [UNSPECIFIED |-> 0, LIMIT |-> 1, MARKET |-> 2, STOP_LOSS |-> 3,
              TAKE_PROFIT |-> 4, ICEBERG |-> 5]

TimeInForce == [UNSPECIFIED |-> 0, GTC |-> 1, IOC |-> 2, FOK |-> 3,
                POST_ONLY |-> 4]

OrderStatus == [STATUS_UNSPECIFIED |-> 0, STATUS_NEW |-> 1,
                STATUS_PARTIALLY_FILLED |-> 2, STATUS_FILLED |-> 3,
                STATUS_CANCELED |-> 4, STATUS_REJECTED |-> 5,
                STATUS_EXPIRED |-> 6]

convertOrderSide(n) ==
    CASE n = OrderSide.BUY -> "buy"
      [] n = OrderSide.SELL -> "sell"
      [] OTHER -> "buy"

convertOrderType(n) ==
    CASE n = OrderType.LIMIT -> "limit"
      [] n = OrderType.MARKET -> "market"
      [] n = OrderType.STOP_LOSS -> "stop_loss"
      [] n = OrderType.TAKE_PROFIT -> "take_profit"
      [] n = OrderType.ICEBERG -> "iceberg"
      [] OTHER -> "limit"

convertTimeInForce(n) ==
    CASE n = TimeInForce.GTC -> "GTC"
      [] n = TimeInForce.IOC -> "IOC"
      [] n = TimeInForce.FOK -> "FOK"
      [] n = TimeInForce.POST_ONLY -> "POST_ONLY"
      [] OTHER -> "GTC"

convertOrderSideToProto(side) ==
    CASE side = "buy" -> OrderSide.BUY
      [] side = "sell" -> OrderSide.SELL
      [] OTHER -> OrderSide.UNSPECIFIED

convertOrderTypeToProto(type) ==
    CASE type = "limit" -> OrderType.LIMIT
      [] type = "market" -> OrderType.MARKET
      [] type = "stop_loss" -> OrderType.STOP_LOSS
      [] type = "take_profit" -> OrderType.TAKE_PROFIT
      [] type = "iceberg" -> OrderType.ICEBERG
      [] OTHER -> OrderType.UNSPECIFIED

convertTimeInForceToProto(tif) ==
    CASE tif = "GTC" -> TimeInForce.GTC
      [] tif = "IOC" -> TimeInForce.IOC
      [] tif = "FOK" -> TimeInForce.FOK
      [] tif = "POST_ONLY" -> TimeInForce.POST_ONLY
      [] OTHER -> TimeInForce.UNSPECIFIED

convertOrderStatusToProto(status) ==
    CASE status = "NEW" -> OrderStatus.STATUS_NEW
      [] status = "PARTIALLY_FILLED" -> OrderStatus.STATUS_PARTIALLY_FILLED
      [] status = "FILLED" -> OrderStatus.STATUS_FILLED
      [] status = "CANCELED" -> OrderStatus.STATUS_CANCELED
      [] status = "REJECTED" -> OrderStatus.STATUS_REJECTED
      [] status = "EXPIRED" -> OrderStatus.STATUS_EXPIRED
      [] OTHER -> OrderStatus.STATUS_UNSPECIFIED

-----------------------------------------------------------------------------
(* Decimals as text: not given, not a number, or a number.                  *)

Text == [is : {"empty", "garbage", "number"}, value : Int]

NotGiven == [is |-> "empty", value |-> 0]

TextOf(n) == [is |-> "number", value |-> n]

\* The value of a field that is decimal.Zero unless the text is a number.
ValueOf(text) == IF text.is = "number" THEN text.value ELSE 0
-----------------------------------------------------------------------------

\* Two reports of an order's status are the same number only when they are
\* the same status, and none is the number of a status that was not set.
StatusTold(s, t) ==
    /\ convertOrderStatusToProto(s) # OrderStatus.STATUS_UNSPECIFIED
    /\ convertOrderStatusToProto(s) = convertOrderStatusToProto(t) => s = t
=============================================================================
