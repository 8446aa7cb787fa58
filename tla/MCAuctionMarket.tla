-------------------------- MODULE MCAuctionMarket ---------------------------
EXTENDS AuctionMarket, TLC

CONSTANTS u1, u2

UserOf(side) == IF side = "buy" THEN u1 ELSE u2

AuctionOrder(side, price, qty) ==
    [user |-> UserOf(side), side |-> side, tif |-> "GTC", price |-> price, qty |-> qty]

\* Bids at three prices, asks at two of them, one or two units.
MCAuctionForms ==
    {AuctionOrder("buy", 1, 1), AuctionOrder("buy", 2, 2), AuctionOrder("buy", 3, 1),
     AuctionOrder("sell", 1, 2), AuctionOrder("sell", 2, 1)}

MCForms ==
    {[user |-> u1, side |-> "buy", type |-> "limit", tif |-> "GTC", price |-> 2,
      stop |-> NoPrice, qty |-> 1, visible |-> 0]}

Symmetric == Permutations(ClientIDs)
=============================================================================
