--------------------------- MODULE MCMatchEngine ----------------------------
(***************************************************************************)
(* Instances of MatchEngine for TLC: the order forms the clients choose     *)
(* from in each run.  One or two units and two prices are enough for a maker *)
(* to be filled exactly, partly, or to leave the taker a rest; a third price *)
(* is added where stops have to move the price and be moved by it.           *)
(***************************************************************************)
EXTENDS OrderApi, TLC

CONSTANTS u1, u2

\* The order that reaches the engine when a client asks for it, by way of the
\* request and what CreateOrder reads in it.
Asked(user, side, type, tif, price, stop, qty, visible) ==
    FormOf([user |-> user, symbol |-> "SYM",
            side |-> convertOrderSideToProto(side),
            type |-> convertOrderTypeToProto(type),
            tif |-> convertTimeInForceToProto(tif),
            price |-> IF price = NoPrice THEN NotGiven ELSE TextOf(price),
            quantity |-> TextOf(qty),
            stop |-> IF stop = NoPrice THEN NotGiven ELSE TextOf(stop),
            visible |-> IF visible = 0 THEN NotGiven ELSE TextOf(visible),
            client_order_id |-> ""])

Plain(user, side, type, tif, price, qty) ==
    Asked(user, side, type, tif, price, NoPrice, qty, 0)

Stop(user, side, type, stop, price, qty) ==
    Asked(user, side, type, "GTC", price, stop, qty, 0)

Iceberg(user, side, tif, price, qty, visible) ==
    Asked(user, side, "iceberg", tif, price, NoPrice, qty, visible)

\* Makers at three prices, a taker for the first two of them, and stops on
\* both maps: what one stop turns into trades at a price that reaches the
\* next, at the same price or at another.
StopForms ==
    {Plain(u1, "sell", "limit", "GTC", 1, 2),
     Plain(u1, "sell", "limit", "GTC", 2, 1),
     Plain(u1, "sell", "limit", "GTC", 3, 1),
     Plain(u2, "buy", "limit", "GTC", 2, 1),
     Stop(u2, "buy", "stop_loss", 1, NoPrice, 1),
     Stop(u2, "buy", "stop_loss", 2, 3, 1),
     Stop(u1, "sell", "take_profit", 2, 1, 1),
     Stop(u2, "buy", "take_profit", 1, NoPrice, 1)}

\* Every kind of order: limit orders that rest, take or do both on either
\* side (one whose enum fields are not set), and of the others enough for each
\* outcome of theirs.
MixedForms ==
    {Plain(u1, "sell", "limit", "GTC", 1, 1),
     Plain(u1, "sell", "limit", "GTC", 1, 2),
     Plain(u1, "sell", "limit", "POST_ONLY", 2, 1),
     Plain(u1, "sell", "market", "GTC", NoPrice, 2),
     Plain(u2, "unset", "unset", "unset", 1, 1),
     Plain(u2, "buy", "limit", "GTC", 2, 2),
     Plain(u2, "buy", "limit", "IOC", 1, 2),
     Plain(u2, "buy", "limit", "FOK", 1, 2),
     Iceberg(u1, "sell", "GTC", 1, 3, 2),
     Iceberg(u2, "buy", "POST_ONLY", 2, 10, 0),
     Stop(u1, "sell", "stop_loss", 1, NoPrice, 1),
     Stop(u2, "buy", "stop_loss", 1, 2, 2)}

Symmetric == Permutations(ClientIDs)
=============================================================================
