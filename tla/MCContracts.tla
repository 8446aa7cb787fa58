---------------------------- MODULE MCContracts -----------------------------
EXTENDS ContractApi

MCUsers == {<<"ann">>}

\* The order the engine gets of a client's request.
MCForm(side, positionSide, type, price, qty, leverage, reduceOnly, closePosition) ==
    ContractFormOf([user |-> <<"ann">>, symbol |-> "SYM",
        side |-> convertOrderSideToProto(side), type |-> type, price |-> price,
        quantity |-> TextOf(qty), tif |-> TimeInForce.UNSPECIFIED,
        positionSide |-> convertPositionSideToPb(positionSide), leverage |-> leverage,
        reduceOnly |-> reduceOnly, closePosition |-> closePosition])

\* A market buy of one and a limit sell of two that open, one at a leverage that
\* divides One and one at a leverage that does not; two ways to reduce; and two
\* limit orders without a price, one of which only leaves its type unset.
MCForms ==
    {MCForm("buy", "BOTH", OrderType.MARKET, NotGiven, 1, 10, FALSE, FALSE),
     MCForm("sell", "BOTH", OrderType.LIMIT, TextOf(126000), 2, 11, FALSE, FALSE),
     MCForm("sell", "BOTH", OrderType.MARKET, NotGiven, 2, 10, TRUE, FALSE),
     MCForm("buy", "SHORT", OrderType.MARKET, NotGiven, 1, 10, FALSE, TRUE),
     MCForm("buy", "BOTH", OrderType.LIMIT, NotGiven, 1, 10, FALSE, FALSE),
     MCForm("buy", "BOTH", OrderType.UNSPECIFIED, TextOf(126000), 1, 10, FALSE, FALSE)}

\* Between the two mark prices: each is a take-profit or a stop-loss of a long
\* at one of them, and of a short at the other.
MCTPSLPrices == {[tp |-> 126000, sl |-> 0], [tp |-> 0, sl |-> 126000]}
=============================================================================
