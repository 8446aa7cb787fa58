---------------------------- MODULE ContractApi -----------------------------
(***************************************************************************)
(* What ContractServer makes of the messages of ContractService about orders *)
(* and positions, and of what the contract engine and the position manager   *)
(* answer: internal/server/grpc/contract_server.go over the messages of      *)
(* api/proto.  Left out: times and ids, the margin type, which nothing the   *)
(* engine does depends on, and the stop price, with which a stop order is    *)
(* armed and which no other order uses.                                     *)
(***************************************************************************)
EXTENDS Contracts, OrderWire

PositionSide == [UNSPECIFIED |-> 0, LONG |-> 1, SHORT |-> 2, BOTH |-> 3]

convertPositionSide(n) ==
    CASE n = PositionSide.LONG -> "LONG"
      [] n = PositionSide.SHORT -> "SHORT"
      [] n = PositionSide.BOTH -> "BOTH"
      [] OTHER -> "BOTH"

convertPositionSideToPb(side) ==
    CASE side = "LONG" -> PositionSide.LONG
      [] side = "SHORT" -> PositionSide.SHORT
      [] OTHER -> PositionSide.BOTH

-----------------------------------------------------------------------------
(* The messages.  An empty user id is <<>>.                                 *)

CreateContractOrderRequest ==
    [user : Users \cup {<<>>}, symbol : STRING, side : Int, type : Int,
     price : Text, quantity : Text, tif : Int, positionSide : Int,
     leverage : Int, reduceOnly : BOOLEAN, closePosition : BOOLEAN]

PositionRequest ==
    [user : Users \cup {<<>>}, symbol : STRING, positionSide : Int]

ClosePositionRequest == PositionRequest
GetPositionRequest == PositionRequest
GetPositionTPSLRequest == PositionRequest
CancelPositionTPSLRequest == PositionRequest

SetPositionTPSLRequest ==
    [user : Users \cup {<<>>}, symbol : STRING, positionSide : Int,
     takeProfit : Text, stopLoss : Text]

ContractOrderMessage ==
    [user : Users, symbol : STRING, side : Int, type : Int, price : Text,
     quantity : Text, tif : Int, positionSide : Int, leverage : Int,
     reduceOnly : BOOLEAN, closePosition : BOOLEAN, status : Int, filled : Text]

PositionMessage ==
    [user : Users, symbol : STRING, side : Int, leverage : Int, entry : Text,
     mark : Text, liquidation : Text, quantity : Text, margin : Text,
     unrealized : Text, realized : Text]

GetPositionTPSLResponse == [success : BOOLEAN, takeProfit : Text, stopLoss : Text]

LiquidationEvent ==
    [user : Users, symbol : STRING, positionSide : Int, quantity : Text,
     price : Text, loss : Text]

-----------------------------------------------------------------------------
(* Requests.                                                                *)

\* The price is read only when the type field says LIMIT, although any number
\* that is no type makes a limit order, and an iceberg has a price as well.
ReadsPrice(req) == req.type = OrderType.LIMIT /\ req.price.is # "empty"

\* What CreateContractOrder answers with InvalidArgument.
Refused(req) ==
    \/ req.user = <<>> \/ req.symbol = ""
    \/ req.quantity.is # "number"
    \/ ReadsPrice(req) /\ req.price.is = "garbage"

\* The order CreateContractOrder hands on.
ContractFormOf(req) ==
    [user |-> req.user, side |-> convertOrderSide(req.side),
     positionSide |-> convertPositionSide(req.positionSide),
     type |-> convertOrderType(req.type),
     price |-> IF ReadsPrice(req) THEN req.price.value ELSE 0,
     qty |-> req.quantity.value, leverage |-> req.leverage,
     reduceOnly |-> req.reduceOnly, closePosition |-> req.closePosition]

\* The position a request names: none for BOTH, which is what the table makes of
\* a side that is not given, since positions are kept as long and short.
KeyOf(req) ==
    {key \in Keys : key = <<req.user, convertPositionSide(req.positionSide)>>}

\* What ClosePosition, the queries and CancelPositionTPSL refuse.
RefusedPosition(req) == req.user = <<>> \/ req.symbol = ""

\* What SetPositionTPSL refuses, and the prices it sets.
RefusedTPSL(req) ==
    \/ RefusedPosition(req)
    \/ req.takeProfit.is = "garbage" \/ req.stopLoss.is = "garbage"

TPSLPricesOf(req) ==
    [tp |-> ValueOf(req.takeProfit), sl |-> ValueOf(req.stopLoss)]

-----------------------------------------------------------------------------
(* Answers.                                                                 *)

convertPositionToPb(symbol, key, pos) ==
    [user |-> key[1], symbol |-> symbol,
     side |-> convertPositionSideToPb(key[2]), leverage |-> pos.leverage,
     entry |-> TextOf(pos.entry), mark |-> TextOf(pos.mark),
     liquidation |-> TextOf(pos.liquidation), quantity |-> TextOf(pos.qty),
     margin |-> TextOf(pos.margin), unrealized |-> TextOf(pos.unrealized),
     realized |-> TextOf(pos.realized)]

convertContractOrderToPb(symbol, f, tif, status, filled) ==
    [user |-> f.user, symbol |-> symbol,
     side |-> convertOrderSideToProto(f.side),
     type |-> convertOrderTypeToProto(f.type), price |-> TextOf(f.price),
     quantity |-> TextOf(f.qty), tif |-> convertTimeInForceToProto(tif),
     positionSide |-> convertPositionSideToPb(f.positionSide),
     leverage |-> f.leverage, reduceOnly |-> f.reduceOnly,
     closePosition |-> f.closePosition,
     status |-> convertOrderStatusToProto(status), filled |-> TextOf(filled)]

\* What GetPositionTPSL finds: no entry, or one, with zero for a price that is
\* not set (CancelPositionTPSL leaves an entry of two zeros).
TPSLAnswer(there, entry) ==
    [success |-> TRUE,
     takeProfit |-> IF there THEN TextOf(entry.tp) ELSE NotGiven,
     stopLoss |-> IF there THEN TextOf(entry.sl) ELSE NotGiven]

\* The side liquidatePosition gives the order that closes a position.
LiquidationSide(key) == IF key[2] = "LONG" THEN "sell" ELSE "buy"

\* What SubscribeLiquidations sends: the position's side is told from the
\* order's.
LiquidationTold(symbol, o) ==
    [user |-> o.key[1], symbol |-> symbol,
     positionSide |-> IF LiquidationSide(o.key) = "sell"
                      THEN PositionSide.LONG ELSE PositionSide.SHORT,
     quantity |-> TextOf(o.qty), price |-> TextOf(o.price),
     loss |-> TextOf(o.loss)]

-----------------------------------------------------------------------------
(* Properties.                                                              *)

\* What a message says of a position, read with the tables of requests.
ReadPosition(m) ==
    [key |-> <<m.user, convertPositionSide(m.side)>>,
     pos |-> [qty |-> ValueOf(m.quantity), entry |-> ValueOf(m.entry),
              leverage |-> m.leverage, margin |-> ValueOf(m.margin),
              liquidation |-> ValueOf(m.liquidation), mark |-> ValueOf(m.mark),
              unrealized |-> ValueOf(m.unrealized),
              realized |-> ValueOf(m.realized)]]
=============================================================================
