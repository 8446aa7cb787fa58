----------------------------- MODULE OrderBook ------------------------------
(***************************************************************************)
(* The order book of one symbol, pkg/orderbook/orderbook.go: two sides of   *)
(* price levels, each a FIFO queue of orders with a running volume, an index *)
(* by OrderID, an index by user, and a buffer of depth changes ("deltas").  *)
(*                                                                         *)
(* Every method holds ob.mu for its whole body, so a method is one action.  *)
(* The methods are operators that set the primed variables of the book;     *)
(* MatchEngine composes them into its own steps.  They read the heap as     *)
(* order', the heap the same step leaves behind, because the engine updates *)
(* an order's FilledQty before it calls them.                               *)
(*                                                                         *)
(* A side maps each price that has a level to the level.  That the slice    *)
(* and the binary search behind it behave as such a map with an extremal    *)
(* Best() is what PriceLevelTree shows.                                     *)
(***************************************************************************)
EXTENDS Orders, FiniteSets, SequencesExt, FiniteSetsExt

VARIABLES
    level,        \* bids and asks: side -> price -> price level
    orderIndex,   \* OrderID -> order
    userOrders,   \* user -> OrderID -> order
    lastPrice,    \* price last given to SetLastPrice
    deltaBuffer   \* depth changes not flushed yet

bookVars == <<level, orderIndex, userOrders, lastPrice, deltaBuffer>>

-----------------------------------------------------------------------------
(* Price levels.                                                            *)

EmptyMap == [x \in {} |-> x]

NewPriceLevel == [orders |-> <<>>, orderMap |-> EmptyMap, volume |-> 0]

MapPut(f, k, v) == [x \in DOMAIN f \cup {k} |-> IF x = k THEN v ELSE f[x]]

MapDelete(f, k) == [x \in DOMAIN f \ {k} |-> f[x]]

\* Mutant: the new order goes to the front of the queue.
MutPushFront(l, o, r) ==
    [orders |-> <<r>> \o l.orders,
     orderMap |-> MapPut(l.orderMap, o.id, r),
     volume |-> l.volume + RemainingQty(o)]

\* PriceLevel.AddOrder: order r (the record o) joins the end of the queue.
LevelAddOrder(l, o, r) ==
    [orders |-> Append(l.orders, r),
     orderMap |-> MapPut(l.orderMap, o.id, r),
     volume |-> l.volume + RemainingQty(o)]

\* Mutant: the volume drops by the order's original quantity.
MutRemoveFullQty(l, heap, id) ==
    LET r == l.orderMap[id]
    IN  [orders |-> RemoveFirst(l.orders, r),
         orderMap |-> MapDelete(l.orderMap, id),
         volume |-> l.volume - heap[r].qty]

\* Mutant: the order leaves the map and the volume, but not the queue.
MutKeepElement(l, heap, id) ==
    [orders |-> l.orders,
     orderMap |-> MapDelete(l.orderMap, id),
     volume |-> l.volume - RemainingQty(heap[l.orderMap[id]])]

\* PriceLevel.RemoveOrder: the queue element the map names leaves, and the
\* volume drops by what is left of that order now.
LevelRemoveOrder(l, heap, id) ==
    LET r == l.orderMap[id]
    IN  [orders |-> RemoveFirst(l.orders, r),
         orderMap |-> MapDelete(l.orderMap, id),
         volume |-> l.volume - RemainingQty(heap[r])]

\* Better price of a side: the order of PriceLevelTree.
Better(side, p, q) == IF side = "buy" THEN p > q ELSE p < q

\* The prices Best() may return: one when the side has a level, else none.
BestPrices(side) ==
    {p \in DOMAIN level[side] :
        \A q \in DOMAIN level[side] : ~ Better(side, q, p)}

-----------------------------------------------------------------------------
(* Methods of the book.                                                     *)

AddDelta(side, p, q, action) ==
    deltaBuffer' = Append(deltaBuffer,
                          [side |-> side, price |-> p, qty |-> q,
                           action |-> action])

\* GetOrCreate(price): the level, or a new one.
GetOrCreate(side, p) ==
    IF p \in DOMAIN level[side] THEN level[side][p] ELSE NewPriceLevel

\* AddOrder / addOrderInternal.
AddOrder(r) ==
    LET o == order'[r]
        old == GetOrCreate(o.side, o.price)
        new == LevelAddOrder(old, o, r)
        mine == IF o.user \in DOMAIN userOrders
                THEN userOrders[o.user] ELSE EmptyMap
    IN  /\ level' = [level EXCEPT ![o.side] = MapPut(@, o.price, new)]
        /\ orderIndex' = MapPut(orderIndex, o.id, r)
        /\ userOrders' = MapPut(userOrders, o.user, MapPut(mine, o.id, r))
        /\ AddDelta(o.side, o.price, new.volume,
                    IF old.volume = 0 THEN "ADD" ELSE "UPDATE")

\* removeOrderInternal finds the order: in the index, its level in the tree,
\* and the id in that level.  Otherwise the method returns nil.
Removable(id) ==
    /\ id \in DOMAIN orderIndex
    /\ LET o == order[orderIndex[id]]
       IN  /\ o.price \in DOMAIN level[o.side]
           /\ id \in DOMAIN level[o.side][o.price].orderMap

\* delete(userOrders[user], id), and the user's map when it is empty.
WithoutUserOrder(user, id) ==
    IF user \notin DOMAIN userOrders THEN userOrders
    ELSE LET rest == MapDelete(userOrders[user], id)
         IN  IF DOMAIN rest = {} THEN MapDelete(userOrders, user)
             ELSE [userOrders EXCEPT ![user] = rest]

\* Mutant: the order leaves its level but stays in the index.
MutKeepIndex(id) ==
    LET o == order[orderIndex[id]]
        rest == LevelRemoveOrder(level[o.side][o.price], order', id)
        gone == rest.orders = <<>>
    IN  /\ level' = [level EXCEPT ![o.side] =
                        IF gone THEN MapDelete(@, o.price)
                        ELSE MapPut(@, o.price, rest)]
        /\ UNCHANGED orderIndex
        /\ userOrders' = WithoutUserOrder(o.user, id)
        /\ AddDelta(o.side, o.price, IF gone THEN 0 ELSE rest.volume,
                    IF gone THEN "DELETE" ELSE "UPDATE")

\* Mutant: no delta when the level survives the removal.
MutSilentRemove(id) ==
    LET o == order[orderIndex[id]]
        rest == LevelRemoveOrder(level[o.side][o.price], order', id)
        gone == rest.orders = <<>>
    IN  /\ level' = [level EXCEPT ![o.side] =
                        IF gone THEN MapDelete(@, o.price)
                        ELSE MapPut(@, o.price, rest)]
        /\ orderIndex' = MapDelete(orderIndex, id)
        /\ userOrders' = WithoutUserOrder(o.user, id)
        /\ IF gone THEN AddDelta(o.side, o.price, 0, "DELETE")
           ELSE UNCHANGED deltaBuffer

\* removeOrderInternal when it finds the order.
RemoveOrderInternal(id) ==
    LET o == order[orderIndex[id]]
        rest == LevelRemoveOrder(level[o.side][o.price], order', id)
        gone == rest.orders = <<>>
    IN  /\ level' = [level EXCEPT ![o.side] =
                        IF gone THEN MapDelete(@, o.price)
                        ELSE MapPut(@, o.price, rest)]
        /\ orderIndex' = MapDelete(orderIndex, id)
        /\ userOrders' = WithoutUserOrder(o.user, id)
        /\ AddDelta(o.side, o.price, IF gone THEN 0 ELSE rest.volume,
                    IF gone THEN "DELETE" ELSE "UPDATE")

\* RemoveOrder: nothing happens when the order is not found.
RemoveOrder(id) ==
    \/ Removable(id) /\ RemoveOrderInternal(id)
    \/ ~ Removable(id) /\ UNCHANGED <<level, orderIndex, userOrders, deltaBuffer>>

\* PriceLevel.UpdateVolume on the level of price p, after a fill of q.
UpdateVolume(side, p, q) ==
    level' = [level EXCEPT ![side][p].volume = @ - q]

\* UpdateOrderVolume: q more of the order is filled.
UpdateOrderVolume(id, q) ==
    /\ id \in DOMAIN orderIndex
    /\ LET r == orderIndex[id]
           after == [order[r] EXCEPT !.filled = @ + q]
           done == IsFilled(after)
           side == order[r].side
           p == order[r].price
       IN  /\ order' = [order EXCEPT ![r] =
                 [after EXCEPT !.status =
                     IF done THEN "FILLED" ELSE "PARTIALLY_FILLED"]]
           /\ \/ done /\ RemoveOrder(id)
              \/ /\ ~ done /\ p \in DOMAIN level[side]
                 /\ UpdateVolume(side, p, q)
                 /\ AddDelta(side, p, level'[side][p].volume, "UPDATE")
                 /\ UNCHANGED <<orderIndex, userOrders>>
              \/ /\ ~ done /\ p \notin DOMAIN level[side]
                 /\ UNCHANGED <<level, orderIndex, userOrders, deltaBuffer>>

SetLastPrice(p) == lastPrice' = p

BookInit ==
    /\ order = <<>>
    /\ level = [s \in Sides |-> EmptyMap]
    /\ orderIndex = EmptyMap
    /\ userOrders = EmptyMap
    /\ lastPrice = NoPrice
    /\ deltaBuffer = <<>>

-----------------------------------------------------------------------------
(* What the book's state means.                                             *)

\* The addresses of the orders that rest on a side, at a price.
Queued(side, p) == ToSet(level[side][p].orders)

Resting == (UNION {Queued("buy", p) : p \in DOMAIN level["buy"]})
           \cup (UNION {Queued("sell", p) : p \in DOMAIN level["sell"]})

\* What is left of a set of orders.
LeftOf(refs) == SumFunction([r \in refs |-> RemainingQty(order[r])])

\* The depth TopLevels reports, for all levels.
Depth == [s \in Sides |-> [p \in DOMAIN level[s] |-> level[s][p].volume]]

\* A client's copy of the depth after one delta.
ApplyDelta(depth, d) ==
    [depth EXCEPT ![d.side] = IF d.action = "DELETE" THEN MapDelete(@, d.price)
                              ELSE MapPut(@, d.price, d.qty)]

Replay(depth, deltas) == FoldLeft(ApplyDelta, depth, deltas)

(* The indexes and the queues name the same orders: whatever rests can be   *)
(* found by its id and by its user, and whatever an index names rests where *)
(* its side and price say, in a level that is not empty.  This is what makes *)
(* an order cancelable; five maps and a list have to move together.         *)
IndexAgrees ==
    /\ \A id \in DOMAIN orderIndex :
          LET r == orderIndex[id]
              o == order[r]
          IN  /\ o.id = id
              /\ o.price \in DOMAIN level[o.side]
              /\ r \in Queued(o.side, o.price)
              /\ id \in DOMAIN level[o.side][o.price].orderMap
              /\ level[o.side][o.price].orderMap[id] = r
              /\ id \in DOMAIN userOrders[o.user]
    /\ Resting = {orderIndex[id] : id \in DOMAIN orderIndex}
    /\ \A s \in Sides : \A p \in DOMAIN level[s] : level[s][p].orders # <<>>
    /\ \A u \in DOMAIN userOrders :
          /\ userOrders[u] # EmptyMap
          /\ \A id \in DOMAIN userOrders[u] :
                id \in DOMAIN orderIndex /\ orderIndex[id] = userOrders[u][id]

(* The depth of a level never understates what rests there.                *)
VolumeCovers ==
    \A s \in Sides : \A p \in DOMAIN level[s] :
        level[s][p].volume >= LeftOf(Queued(s, p))
=============================================================================
