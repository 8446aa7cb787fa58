------------------------- MODULE MatchEngineProofs --------------------------
(***************************************************************************)
(* For every set of users, ids, prices and order forms, every bound, and    *)
(* whether or not ids are reused: the engine's state keeps its types, and   *)
(* the book is never crossed - not between two calls and not in the middle  *)
(* of one.                                                                  *)
(*                                                                         *)
(* The argument: levels are only taken away, except by the taker whose rest *)
(* joins the book.  It joins when its loop found no level to take from, and *)
(* a side that has a level has a best one (BestExists, which needs the side *)
(* to be finite), so all opposite levels lie beyond the taker's price.      *)
(* TypeOK carries what this needs: sides are finite sets of prices, and an  *)
(* order that rests names a price.                                          *)
(*                                                                         *)
(* Two more arguments follow.  The last price is that of the last trade     *)
(* because whoever reads it has just traded, or found it set; and no due    *)
(* stop is missed because every loop over the stops, or one nested in it,   *)
(* has yet to come to whatever the last price makes due.                    *)
(***************************************************************************)
EXTENDS MatchEngine, SequenceLemmas

USE PricesAssumption, FormsAssumption, BoundsAssumption

-----------------------------------------------------------------------------
(* A finite set of numbers has a best one, on either side.                  *)

LEMMA BestExists ==
    ASSUME NEW side \in Sides, NEW D \in SUBSET Nat, IsFiniteSet(D), D # {}
    PROVE  \E p \in D : \A q \in D : ~ Better(side, q, p)
<1>1. PICK hi \in D : \A q \in D : q <= hi
  BY GreatestExists
<1>2. PICK lo \in D : \A q \in D : lo <= q
  BY LeastExists
<1>3. \A q \in D : ~ Better("buy", q, hi) /\ ~ Better("sell", q, lo)
  BY <1>1, <1>2 DEF Better
<1>4. QED
  BY <1>3 DEF Sides

(* A limit order that finds nothing to take from is beyond no level of the *)
(* other side: if it could take from any level, then from the best.        *)
LEMMA NothingToTake ==
    ASSUME NEW o \in PricedOrder, o.type = "limit",
           DOMAIN level = Sides, \A s \in Sides : BookSide(level[s], order),
           Target(o) = {}
    PROVE  \A p \in DOMAIN level[OppositeSide[o.side]] :
               ~ CanMatch(o.side, o.price, p)
<1> DEFINE side == OppositeSide[o.side]
           D == DOMAIN level[side]
<1>1. o.side \in Sides /\ o.price \in Prices /\ side \in Sides
  BY DEF PricedOrder, Order, Sides, OppositeSide
<1>2. D \in SUBSET Prices /\ IsFiniteSet(D)
  BY <1>1 DEF BookSide
<1>3. SUFFICES ASSUME NEW q \in D, CanMatch(o.side, o.price, q)
               PROVE  FALSE
  OBVIOUS
<1>4. PICK p \in D : \A r \in D : ~ Better(side, r, p)
  BY <1>1, <1>2, <1>3, BestExists
<1>5. p \in BestPrices(side)
  BY <1>4 DEF BestPrices
<1>6. CanMatch(o.side, o.price, p)
  <2>1. p \in Nat /\ q \in Nat /\ o.price \in Nat /\ ~ Better(side, q, p)
    BY <1>1, <1>2, <1>3, <1>4
  <2>2. CASE o.side = "buy"
    BY <1>3, <2>1, <2>2 DEF CanMatch, Better, OppositeSide
  <2>3. CASE o.side = "sell"
    BY <1>3, <2>1, <2>3 DEF CanMatch, Better, OppositeSide
  <2>4. QED
    BY <1>1, <2>2, <2>3 DEF Sides
<1>7. p \in Target(o)
  BY <1>5, <1>6 DEF Target, Takes
<1>8. QED
  BY <1>7

-----------------------------------------------------------------------------
(* Heaps.                                                                   *)

\* The terms of an order: everything but filled, status and done.
SameTerms(a, b) ==
    /\ b.id = a.id /\ b.user = a.user /\ b.side = a.side /\ b.type = a.type
    /\ b.tif = a.tif /\ b.price = a.price /\ b.stop = a.stop
    /\ b.qty = a.qty /\ b.root = a.root

\* `new` has every order of `old`, on the same terms.
Grows(old, new) ==
    /\ DOMAIN old \subseteq DOMAIN new
    /\ \A r \in DOMAIN old : SameTerms(old[r], new[r])

(* Changing what an order may change leaves it an order.                    *)
LEMMA OrderUpdate ==
    ASSUME NEW o \in PricedOrder, NEW n \in Nat, NEW st \in Statuses
    PROVE  /\ [o EXCEPT !.status = st] \in PricedOrder
           /\ [o EXCEPT !.filled = n] \in PricedOrder
           /\ [o EXCEPT !.done = n] \in PricedOrder
           /\ [o EXCEPT !.filled = n, !.status = st] \in PricedOrder
           /\ SameTerms(o, [o EXCEPT !.status = st])
           /\ SameTerms(o, [o EXCEPT !.filled = n])
           /\ SameTerms(o, [o EXCEPT !.done = n])
           /\ SameTerms(o, [o EXCEPT !.filled = n, !.status = st])
BY DEF PricedOrder, Order, SameTerms

(* One order of a heap is replaced.                                         *)
LEMMA HeapUpdate ==
    ASSUME NEW heap \in Seq(PricedOrder), NEW r, NEW o,
           r \in DOMAIN heap => o \in PricedOrder /\ SameTerms(heap[r], o)
    PROVE  /\ [heap EXCEPT ![r] = o] \in Seq(PricedOrder)
           /\ DOMAIN [heap EXCEPT ![r] = o] = DOMAIN heap
           /\ Grows(heap, [heap EXCEPT ![r] = o])
<1> DEFINE new == [heap EXCEPT ![r] = o]
<1>1. CASE r \in DOMAIN heap
  <2>1. r \in 1 .. Len(heap)
    BY <1>1
  <2>2. /\ new \in Seq(PricedOrder) /\ Len(new) = Len(heap)
        /\ \A i \in 1 .. Len(heap) : new[i] = IF i = r THEN o ELSE heap[i]
    BY <1>1, <2>1, ExceptSeq
  <2>3. QED
    BY <1>1, <2>2 DEF Grows, SameTerms
<1>2. CASE r \notin DOMAIN heap
  <2>1. new = heap
    BY <1>2
  <2>2. QED
    BY <2>1 DEF Grows, SameTerms
<1>3. QED
  BY <1>1, <1>2

LEMMA SetStatus ==
    ASSUME NEW heap \in Seq(PricedOrder), NEW r, NEW st \in Statuses
    PROVE  /\ [heap EXCEPT ![r].status = st] \in Seq(PricedOrder)
           /\ Grows(heap, [heap EXCEPT ![r].status = st])
<1> DEFINE o == [heap[r] EXCEPT !.status = st]
<1>1. [heap EXCEPT ![r].status = st] = [heap EXCEPT ![r] = o]
  OBVIOUS
<1>2. ASSUME r \in DOMAIN heap PROVE o \in PricedOrder /\ SameTerms(heap[r], o)
  <2>1. heap[r] \in PricedOrder
    BY <1>2, ElementOfSeq
  <2>2. "NEW" \in Statuses
    BY DEF Statuses
  <2>3. QED
    BY <2>1, <2>2, OrderUpdate
<1> HIDE DEF o
<1>3. QED
  BY <1>1, <1>2, HeapUpdate

LEMMA SetFilled ==
    ASSUME NEW heap \in Seq(PricedOrder), NEW r, NEW n \in Nat
    PROVE  /\ [heap EXCEPT ![r].filled = n] \in Seq(PricedOrder)
           /\ Grows(heap, [heap EXCEPT ![r].filled = n])
<1> DEFINE o == [heap[r] EXCEPT !.filled = n]
<1>1. [heap EXCEPT ![r].filled = n] = [heap EXCEPT ![r] = o]
  OBVIOUS
<1>2. ASSUME r \in DOMAIN heap PROVE o \in PricedOrder /\ SameTerms(heap[r], o)
  <2>1. heap[r] \in PricedOrder
    BY <1>2, ElementOfSeq
  <2>2. "NEW" \in Statuses
    BY DEF Statuses
  <2>3. QED
    BY <2>1, <2>2, OrderUpdate
<1> HIDE DEF o
<1>3. QED
  BY <1>1, <1>2, HeapUpdate

LEMMA AddDone ==
    ASSUME NEW heap \in Seq(PricedOrder), NEW r, NEW n \in Nat
    PROVE  /\ [heap EXCEPT ![r].done = @ + n] \in Seq(PricedOrder)
           /\ Grows(heap, [heap EXCEPT ![r].done = @ + n])
<1> DEFINE o == [heap[r] EXCEPT !.done = heap[r].done + n]
<1>1. [heap EXCEPT ![r].done = @ + n] = [heap EXCEPT ![r] = o]
  OBVIOUS
<1>2. ASSUME r \in DOMAIN heap PROVE o \in PricedOrder /\ SameTerms(heap[r], o)
  <2>1. heap[r] \in PricedOrder
    BY <1>2, ElementOfSeq
  <2>2. heap[r].done + n \in Nat
    BY <2>1, SMTT(30) DEF PricedOrder, Order
  <2>3. PICK st \in Statuses : TRUE
    BY DEF Statuses
  <2>4. QED
    BY <2>1, <2>2, <2>3, OrderUpdate
<1> HIDE DEF o
<1>3. QED
  BY <1>1, <1>2, HeapUpdate

(* An order joins a heap.                                                   *)
LEMMA HeapAppend ==
    ASSUME NEW heap \in Seq(PricedOrder), NEW o \in PricedOrder
    PROVE  /\ Append(heap, o) \in Seq(PricedOrder)
           /\ Grows(heap, Append(heap, o))
           /\ Len(heap) + 1 \in DOMAIN Append(heap, o)
           /\ Append(heap, o)[Len(heap) + 1] = o
           /\ Len(Append(heap, o)) = Len(heap) + 1
BY AppendProperties DEF Grows, SameTerms

LEMMA GrowsTransitive ==
    ASSUME NEW a, NEW b, NEW c, Grows(a, b), Grows(b, c)
    PROVE  Grows(a, c)
BY DEF Grows, SameTerms

LEMMA GrowsReflexive ==
    ASSUME NEW a
    PROVE  Grows(a, a)
BY DEF Grows, SameTerms

(* What refers to a heap refers to a larger one.                            *)
LEMMA RefersOn ==
    ASSUME NEW old, NEW new, Grows(old, new)
    PROVE  /\ Frame(old) \subseteq Frame(new)
           /\ Seq(Frame(old)) \subseteq Seq(Frame(new))
           /\ \A index : Index(index, old) => Index(index, new)
           /\ \A levels : BookSide(levels, old) => BookSide(levels, new)
<1>1. Frame(old) \subseteq Frame(new)
  BY DEF Frame, Grows, SameTerms
<1>2. Seq(Frame(old)) \subseteq Seq(Frame(new))
  BY <1>1, SeqMonotonic
<1>3. \A index : Index(index, old) => Index(index, new)
  BY DEF Index, Grows
<1>4. Seq(DOMAIN old) \subseteq Seq(DOMAIN new)
  BY SeqMonotonic DEF Grows
<1>5. \A levels : BookSide(levels, old) => BookSide(levels, new)
  BY <1>4 DEF BookSide
<1>6. QED
  BY <1>1, <1>2, <1>3, <1>5

(* A trade changes fields only.                                             *)
LEMMA TradeHeap ==
    ASSUME order \in Seq(PricedOrder), NEW taker \in DOMAIN order,
           NEW maker \in DOMAIN order, NEW q \in Nat
    PROVE  /\ AfterTrade(taker, maker, q) \in Seq(PricedOrder)
           /\ Grows(order, AfterTrade(taker, maker, q))
<1> DEFINE filled == order[maker].filled + q
           st == IF filled >= order[maker].qty THEN "FILLED" ELSE "PARTIALLY_FILLED"
           h1 == [order EXCEPT ![maker].filled = filled]
           h2 == [h1 EXCEPT ![maker].status = st]
           h3 == [h2 EXCEPT ![order[maker].root].done = @ + q]
           h4 == [h3 EXCEPT ![order[taker].root].done = @ + q]
<1>1. AfterTrade(taker, maker, q) = h4
  BY DEF AfterTrade
<1>2. filled \in Nat /\ st \in Statuses
  <2>1. order[maker] \in PricedOrder
    BY ElementOfSeq
  <2>2. order[maker].filled \in Nat
    BY <2>1 DEF PricedOrder, Order
  <2>3. st \in Statuses
    BY DEF Statuses
  <2> HIDE DEF st
  <2>4. QED
    BY <2>2, <2>3
<1> HIDE DEF filled, st
<1>3. h1 \in Seq(PricedOrder) /\ Grows(order, h1)
  BY <1>2, SetFilled
<1> HIDE DEF h1
<1>4. h2 \in Seq(PricedOrder) /\ Grows(h1, h2)
  BY <1>2, <1>3, SetStatus
<1> HIDE DEF h2
<1>5. h3 \in Seq(PricedOrder) /\ Grows(h2, h3)
  BY <1>4, AddDone
<1> HIDE DEF h3
<1>6. h4 \in Seq(PricedOrder) /\ Grows(h3, h4)
  BY <1>5, AddDone
<1> HIDE DEF h4
<1>7. Grows(order, h4)
  BY <1>3, <1>4, <1>5, <1>6, GrowsTransitive
<1>8. QED
  BY <1>1, <1>6, <1>7

-----------------------------------------------------------------------------
(* The book's methods.                                                      *)

\* What the proofs know of the book.
BookTyped ==
    /\ DOMAIN level = Sides
    /\ \A s \in Sides : BookSide(level[s], order)
    /\ \A u \in DOMAIN userOrders : DOMAIN userOrders[u] \subseteq OrderIDs

\* A step that opens no level.
OpensNoLevel == \A s \in Sides : DOMAIN level'[s] \subseteq DOMAIN level[s]

(* RemoveOrder takes an order out of its level, and the level with it when  *)
(* it was the last one.                                                     *)
LEMMA RemoveOrderKeeps ==
    ASSUME BookTyped, Grows(order, order'), NEW id, RemoveOrder(id)
    PROVE  BookTyped' /\ OpensNoLevel
<1>1. \A s \in Sides : BookSide(level[s], order')
  BY RefersOn DEF BookTyped
<1>2. CASE ~ Removable(id)
  <2>1. level' = level /\ userOrders' = userOrders
    BY <1>2 DEF RemoveOrder
  <2>2. QED
    BY <1>1, <2>1 DEF BookTyped, OpensNoLevel
<1>3. CASE Removable(id)
  <2> DEFINE o == order[orderIndex[id]]
             side == o.side
             p == o.price
             rest == LevelRemoveOrder(level[side][p], order', id)
             gone == rest.orders = <<>>
             new == IF gone THEN MapDelete(level[side], p)
                            ELSE MapPut(level[side], p, rest)
  <2>1. /\ p \in DOMAIN level[side]
        /\ level' = [level EXCEPT ![side] = new]
        /\ userOrders' = WithoutUserOrder(o.user, id)
    BY <1>3 DEF RemoveOrder, RemoveOrderInternal, Removable
  <2>2. DOMAIN level' = Sides /\ \A s \in Sides : level'[s] = IF s = side THEN new ELSE level[s]
    BY <2>1 DEF BookTyped
  <2>3. ASSUME side \in Sides
        PROVE  BookSide(new, order') /\ DOMAIN new \subseteq DOMAIN level[side]
    <3>1. BookSide(level[side], order')
      BY <1>1, <2>3
    <3>2. level[side][p].orders \in Seq(DOMAIN order')
      BY <2>1, <3>1 DEF BookSide
    <3>3. /\ DOMAIN rest = {"orders", "orderMap", "volume"}
          /\ rest.orders \in Seq(DOMAIN order')
      BY <3>2, RemoveFirstType DEF LevelRemoveOrder
    <3>4. CASE gone
      <4>1. DOMAIN new = DOMAIN level[side] \ {p} /\ \A x \in DOMAIN new : new[x] = level[side][x]
        BY <3>4 DEF MapDelete
      <4>2. IsFiniteSet(DOMAIN level[side])
        BY <3>1 DEF BookSide
      <4>3. IsFiniteSet(DOMAIN level[side] \ {p})
        BY <4>2, FS_RemoveElement
      <4>4. IsFiniteSet(DOMAIN new)
        BY ONLY <4>1, <4>3
      <4>5. QED
        BY <3>1, <4>1, <4>4 DEF BookSide
    <3>5. CASE ~ gone
      <4>1. /\ DOMAIN new = DOMAIN level[side]
            /\ \A x \in DOMAIN new : new[x] = IF x = p THEN rest ELSE level[side][x]
        BY <2>1, <3>5 DEF MapPut
      <4>2. QED
        BY <3>1, <3>3, <3>5, <4>1 DEF BookSide
    <3>6. QED
      BY <3>4, <3>5
  <2> HIDE DEF new
  <2>4. \A s \in Sides : BookSide(level'[s], order') /\ DOMAIN level'[s] \subseteq DOMAIN level[s]
    BY <1>1, <2>2, <2>3
  <2>5. \A u \in DOMAIN userOrders' : DOMAIN userOrders'[u] \subseteq OrderIDs
    BY <2>1 DEF WithoutUserOrder, MapDelete, BookTyped
  <2>6. QED
    BY <2>2, <2>4, <2>5 DEF BookTyped, OpensNoLevel
<1>4. QED
  BY <1>2, <1>3

(* UpdateVolume touches a volume.                                           *)
LEMMA UpdateVolumeKeeps ==
    ASSUME BookTyped, Grows(order, order'), NEW side \in Sides,
           NEW p \in DOMAIN level[side], NEW q, UpdateVolume(side, p, q),
           UNCHANGED userOrders
    PROVE  BookTyped' /\ OpensNoLevel
<1>1. \A s \in Sides : BookSide(level[s], order')
  BY RefersOn DEF BookTyped
<1> DEFINE l == level[side][p]
           new == [l EXCEPT !.volume = l.volume - q]
<1>2. level' = [level EXCEPT ![side] = [level[side] EXCEPT ![p] = new]]
  BY DEF UpdateVolume
<1>3. DOMAIN new = DOMAIN l /\ ("orders" \in DOMAIN l => new.orders = l.orders)
  OBVIOUS
<1> HIDE DEF new
<1>4. /\ DOMAIN level' = Sides
      /\ \A s \in Sides : /\ DOMAIN level'[s] = DOMAIN level[s]
                           /\ \A x \in DOMAIN level[s] :
                                 level'[s][x] = IF s = side /\ x = p THEN new
                                                ELSE level[s][x]
  <2>1. DOMAIN level' = Sides
    BY <1>2 DEF BookTyped
  <2>2. \A s \in Sides : level'[s] = IF s = side THEN [level[side] EXCEPT ![p] = new]
                                      ELSE level[s]
    BY <1>2 DEF BookTyped
  <2>3. QED
    BY <2>1, <2>2
<1>5. ASSUME NEW s \in Sides PROVE BookSide(level'[s], order')
  <2>1. BookSide(level[s], order') /\ BookSide(level[side], order')
    BY <1>1
  <2>2. ASSUME NEW x \in DOMAIN level[s]
        PROVE  /\ DOMAIN level'[s][x] = {"orders", "orderMap", "volume"}
               /\ level'[s][x].orders \in Seq(DOMAIN order') \ {<<>>}
    <3>1. /\ DOMAIN level[s][x] = {"orders", "orderMap", "volume"}
          /\ level[s][x].orders \in Seq(DOMAIN order') \ {<<>>}
      BY <2>1 DEF BookSide
    <3>2. CASE s = side /\ x = p
      <4>1. level'[s][x] = new /\ l = level[s][x]
        BY <1>4, <3>2
      <4>2. QED
        BY <1>3, <3>1, <4>1
    <3>3. CASE ~ (s = side /\ x = p)
      <4>1. level'[s][x] = level[s][x]
        BY <1>4, <3>3
      <4>2. QED
        BY <3>1, <4>1
    <3>4. QED
      BY <3>2, <3>3
  <2>3. QED
    BY <1>4, <2>1, <2>2 DEF BookSide
<1>6. QED
  BY <1>4, <1>5 DEF BookTyped, OpensNoLevel

(* AddOrder opens at most the level of the order's own price.               *)
LEMMA AddOrderKeeps ==
    ASSUME BookTyped, Grows(order, order'), order' \in Seq(PricedOrder),
           NEW r \in DOMAIN order', order'[r].type = "limit", AddOrder(r)
    PROVE  /\ BookTyped'
           /\ \A s \in Sides : DOMAIN level'[s] \subseteq
                 DOMAIN level[s] \cup (IF s = order'[r].side THEN {order'[r].price} ELSE {})
<1>1. \A s \in Sides : BookSide(level[s], order')
  BY RefersOn DEF BookTyped
<1> DEFINE o == order'[r]
           side == o.side
           p == o.price
           old == GetOrCreate(side, p)
           l == LevelAddOrder(old, o, r)
           new == MapPut(level[side], p, l)
           mine == IF o.user \in DOMAIN userOrders THEN userOrders[o.user] ELSE EmptyMap
<1>2. o \in PricedOrder
  BY ElementOfSeq
<1>3. side \in Sides /\ p \in Prices /\ o.id \in OrderIDs
  BY <1>2 DEF PricedOrder, Order
<1>4. /\ level' = [level EXCEPT ![side] = new]
      /\ userOrders' = MapPut(userOrders, o.user, MapPut(mine, o.id, r))
  BY DEF AddOrder
<1>5. old.orders \in Seq(DOMAIN order')
  <2>1. CASE p \in DOMAIN level[side]
    BY <1>1, <1>3, <2>1 DEF GetOrCreate, BookSide
  <2>2. CASE p \notin DOMAIN level[side]
    BY <2>2 DEF GetOrCreate, NewPriceLevel
  <2>3. QED
    BY <2>1, <2>2
<1>6. /\ DOMAIN l = {"orders", "orderMap", "volume"}
      /\ l.orders \in Seq(DOMAIN order') \ {<<>>}
  <2>1. l.orders = Append(old.orders, r) /\ DOMAIN l = {"orders", "orderMap", "volume"}
    BY DEF LevelAddOrder
  <2> DEFINE queue == old.orders
             addresses == DOMAIN order'
  <2>2. queue \in Seq(addresses) /\ r \in addresses
    BY <1>5
  <2> HIDE DEF queue, addresses
  <2>3. Append(queue, r) \in Seq(addresses) /\ Append(queue, r) # <<>>
    BY <2>2, AppendProperties
  <2>4. QED
    BY <2>1, <2>3 DEF queue, addresses
<1> HIDE DEF l
<1>7. /\ DOMAIN new = DOMAIN level[side] \cup {p}
      /\ \A x \in DOMAIN new : new[x] = IF x = p THEN l ELSE level[side][x]
  BY DEF MapPut
<1> HIDE DEF new
<1>8. BookSide(new, order')
  <2>1. BookSide(level[side], order')
    BY <1>1, <1>3
  <2>2. IsFiniteSet(DOMAIN level[side])
    BY <2>1 DEF BookSide
  <2>3. IsFiniteSet(DOMAIN level[side] \cup {p})
    BY <2>2, FS_AddElement
  <2>4. IsFiniteSet(DOMAIN new)
    BY ONLY <1>7, <2>3
  <2>5. QED
    BY <1>3, <1>6, <1>7, <2>1, <2>4 DEF BookSide
<1>9. /\ DOMAIN level' = Sides
      /\ \A s \in Sides : level'[s] = IF s = side THEN new ELSE level[s]
  BY <1>4 DEF BookTyped
<1>10. \A u \in DOMAIN userOrders' : DOMAIN userOrders'[u] \subseteq OrderIDs
  BY <1>3, <1>4 DEF MapPut, EmptyMap, BookTyped
<1>11. QED
  BY <1>1, <1>7, <1>8, <1>9, <1>10 DEF BookTyped

\* BookNotCrossed survives a step that opens no level.
LEMMA ShrinkKeeps ==
    ASSUME BookTyped, BookNotCrossed, OpensNoLevel
    PROVE  BookNotCrossed'
BY DEF BookNotCrossed, OpensNoLevel, Sides

(* A step that leaves the book alone.                                       *)
LEMMA BookStays ==
    ASSUME BookTyped, Grows(order, order'), UNCHANGED <<level, userOrders>>
    PROVE  BookTyped' /\ OpensNoLevel
BY RefersOn DEF BookTyped, OpensNoLevel

-----------------------------------------------------------------------------
(* The stop manager's maps.                                                 *)

StopsTyped ==
    /\ Index(buyStops, order) /\ Index(sellStops, order)
    /\ \A u \in DOMAIN stopUsers : DOMAIN stopUsers[u] \subseteq OrderIDs

LEMMA StopsStay ==
    ASSUME StopsTyped, Grows(order, order'), UNCHANGED stopVars
    PROVE  StopsTyped'
BY RefersOn DEF StopsTyped, stopVars

LEMMA ArmStopKeeps ==
    ASSUME StopsTyped, Grows(order, order'), NEW o \in PricedOrder,
           NEW r \in DOMAIN order', ArmStop(o, r)
    PROVE  StopsTyped'
<1>1. o.id \in OrderIDs
  BY DEF PricedOrder, Order
<1>2. Index(buyStops, order') /\ Index(sellStops, order')
  BY RefersOn DEF StopsTyped
<1>3. /\ buyStops' \in {buyStops, MapPut(buyStops, o.id, r)}
      /\ sellStops' \in {sellStops, MapPut(sellStops, o.id, r)}
  BY DEF ArmStop
<1>4. Index(buyStops', order') /\ Index(sellStops', order')
  BY <1>1, <1>2, <1>3 DEF Index, MapPut
<1>5. \A u \in DOMAIN stopUsers' : DOMAIN stopUsers'[u] \subseteq OrderIDs
  BY <1>1 DEF ArmStop, MapPut, EmptyMap, StopsTyped
<1>6. QED
  BY <1>4, <1>5 DEF StopsTyped

LEMMA DisarmStopKeeps ==
    ASSUME StopsTyped, Grows(order, order'), NEW id, DisarmStop(id)
    PROVE  StopsTyped'
<1>1. Index(buyStops, order') /\ Index(sellStops, order')
  BY RefersOn DEF StopsTyped
<1>2. buyStops' = MapDelete(buyStops, id) /\ sellStops' = MapDelete(sellStops, id)
  BY DEF DisarmStop
<1>3. Index(buyStops', order') /\ Index(sellStops', order')
  BY <1>1, <1>2 DEF Index, MapDelete
<1>4. \A u \in DOMAIN stopUsers' : DOMAIN stopUsers'[u] \subseteq OrderIDs
  BY DEF DisarmStop, MapDelete, StopsTyped
<1>5. QED
  BY <1>3, <1>4 DEF StopsTyped

-----------------------------------------------------------------------------
(* The stack.                                                               *)

LEMMA Push ==
    ASSUME NEW heap, NEW f \in Frame(heap), NEW rest \in Seq(Frame(heap))
    PROVE  <<f>> \o rest \in Seq(Frame(heap))
<1> DEFINE F == Frame(heap)
<1>1. f \in F /\ rest \in Seq(F)
  OBVIOUS
<1> HIDE DEF F
<1>2. <<f>> \o rest \in Seq(F)
  BY <1>1, ConcatProperties
<1>3. QED
  BY <1>2 DEF F

LEMMA Pop ==
    ASSUME stack \in Seq(Frame(order)), ~ Idle
    PROVE  Head(stack) \in Frame(order) /\ Tail(stack) \in Seq(Frame(order))
BY HeadTailProperties DEF Idle

\* Where a step leads whose heap was `heap` before the order it works on
\* went on.
Reaches(heap) ==
    /\ order' \in Seq(PricedOrder)
    /\ Grows(heap, order')
    /\ stack' \in Seq(Frame(order'))

LEMMA ReturnReaches ==
    ASSUME NEW heap \in Seq(PricedOrder), NEW r, NEW st \in Statuses,
           NEW rest \in Seq(Frame(heap)), ReturnWith(heap, r, st, rest)
    PROVE  Reaches(heap)
<1>1. order' \in Seq(PricedOrder) /\ Grows(heap, order')
  BY SetStatus DEF ReturnWith
<1>2. stack' \in Seq(Frame(order'))
  BY <1>1, RefersOn DEF ReturnWith
<1>3. QED
  BY <1>1, <1>2 DEF Reaches

LEMMA MatchFrameType ==
    ASSUME NEW heap \in Seq(PricedOrder), NEW r \in DOMAIN heap, NEW rem \in Nat,
           NEW last \in Prices \cup {NoPrice}, rem <= heap[r].qty
    PROVE  MatchFrame(r, rem, last) \in Frame(heap)
BY DEF MatchFrame, Frame

LEMMA NewMatchFrame ==
    ASSUME NEW heap \in Seq(PricedOrder), NEW r \in DOMAIN heap
    PROVE  MatchFrame(r, heap[r].qty, NoPrice) \in Frame(heap)
<1>1. heap[r] \in PricedOrder
  BY ElementOfSeq
<1> DEFINE n == heap[r].qty
<1>2. n \in Nat
  BY <1>1 DEF PricedOrder, Order
<1> HIDE DEF n
<1>3. n <= n
  BY <1>2
<1>4. n <= heap[r].qty
  BY <1>3 DEF n
<1>5. MatchFrame(r, n, NoPrice) \in Frame(heap)
  BY <1>2, <1>4 DEF MatchFrame, Frame
<1>6. QED
  BY <1>5 DEF n

LEMMA EnterLimitReaches ==
    ASSUME NEW heap \in Seq(PricedOrder), NEW r \in DOMAIN heap,
           NEW rest \in Seq(Frame(heap)), EnterLimit(heap, r, rest)
    PROVE  Reaches(heap)
<1>1. CASE ReturnWith(heap, r, "REJECTED", rest)
  BY <1>1, ReturnReaches DEF Statuses
<1>2. CASE order' = heap /\ stack' = <<MatchFrame(r, heap[r].qty, NoPrice)>> \o rest
  BY <1>2, NewMatchFrame, Push, GrowsReflexive DEF Reaches
<1>3. QED
  BY <1>1, <1>2 DEF EnterLimit

(* The visible slice of a fresh iceberg order is an order.                  *)
LEMMA VisibleOrderType ==
    ASSUME NEW o \in PricedOrder, o.type = "iceberg", o.filled = 0,
           o.id \in {"client"} \X ClientIDs
    PROVE  VisibleOrder(o) \in PricedOrder
<1>1. o.qty \in Nat /\ o.visible \in Nat /\ o.filled = 0 /\ o \in Order
  BY DEF PricedOrder, Order
<1>2. o.price \in Prices
  BY DEF PricedOrder
<1>3. VisibleQty(o) \in Nat
  <2>1. RemainingQty(o) = o.qty
    BY <1>1 DEF RemainingQty
  <2>2. o.qty \div 10 \in Nat
    BY <1>1
  <2>3. QED
    BY <1>1, <2>1, <2>2 DEF VisibleQty
<1>4. <<"visible", o.id[2]>> \in OrderIDs
  BY DEF OrderIDs
<1> DEFINE v == VisibleQty(o)
           i == <<"visible", o.id[2]>>
<1> HIDE DEF v, i
<1>5. [o EXCEPT !.id = i, !.qty = v, !.type = "limit"] \in PricedOrder
  BY <1>1, <1>2, <1>3, <1>4 DEF v, i, PricedOrder, Order, Types
<1>6. QED
  BY <1>5 DEF VisibleOrder, v, i

LEMMA ExecuteReaches ==
    ASSUME NEW heap \in Seq(PricedOrder), heap # <<>>,
           LET o == heap[Len(heap)]
           IN  o.type = "iceberg" => o.filled = 0 /\ o.id \in {"client"} \X ClientIDs,
           NEW rest \in Seq(Frame(heap)), Execute(heap, Len(heap), rest)
    PROVE  Reaches(heap)
<1> DEFINE r == Len(heap)
           o == heap[r]
<1>1. r \in DOMAIN heap /\ o \in PricedOrder
  BY ElementOfSeq, EmptySeq
<1>2. CASE ReturnWith(heap, r, "REJECTED", rest)
  BY <1>2, ReturnReaches DEF Statuses
<1>3. CASE order' = heap /\ stack' = <<MatchFrame(r, o.qty, NoPrice)>> \o rest
  <2>1. MatchFrame(r, o.qty, NoPrice) \in Frame(heap)
    BY <1>1, NewMatchFrame
  <2>2. QED
    BY <1>3, <2>1, Push, GrowsReflexive DEF Reaches
<1>4. CASE EnterLimit(heap, r, rest)
  BY <1>1, <1>4, EnterLimitReaches
<1>5. CASE o.type = "iceberg" /\ EnterLimit(Append(heap, VisibleOrder(o)), r + 1,
                                            <<IcebergFrame(r, r + 1)>> \o rest)
  <2> DEFINE v == VisibleOrder(o)
             new == Append(heap, v)
             waiting == <<IcebergFrame(r, r + 1)>> \o rest
  <2>1. v \in PricedOrder
    BY <1>1, <1>5, VisibleOrderType
  <2> HIDE DEF v
  <2>2. new \in Seq(PricedOrder) /\ Grows(heap, new) /\ r + 1 \in DOMAIN new
    BY <2>1, HeapAppend
  <2> HIDE DEF new
  <2>3. r \in DOMAIN new
    BY <1>1, <2>2 DEF Grows
  <2>4. rest \in Seq(Frame(new))
    BY <2>2, RefersOn
  <2>5. IcebergFrame(r, r + 1) \in Frame(new)
    BY <2>2, <2>3 DEF IcebergFrame, Frame
  <2>6. waiting \in Seq(Frame(new))
    BY <2>4, <2>5, Push
  <2>7. EnterLimit(new, r + 1, waiting)
    BY <1>5 DEF new, v
  <2> HIDE DEF waiting
  <2>8. Reaches(new)
    BY <2>2, <2>6, <2>7, EnterLimitReaches
  <2>9. QED
    BY <2>2, <2>8, GrowsTransitive DEF Reaches
<1>6. QED
  BY <1>2, <1>3, <1>4, <1>5 DEF Execute

-----------------------------------------------------------------------------
(* The actions.                                                             *)

\* What is left of TypeOK.
RestTyped ==
    /\ lastPrice \in Prices \cup {NoPrice}
    /\ tradePrice \in Prices \cup {NoPrice}
    /\ paused \in BOOLEAN

LEMMA TypeParts ==
    TypeOK <=> /\ order \in Seq(PricedOrder) /\ BookTyped /\ StopsTyped
               /\ RestTyped /\ stack \in Seq(Frame(order))
BY DEF TypeOK, BookTyped, StopsTyped, RestTyped

LEMMA TypePartsAfter ==
    TypeOK' <=> /\ order' \in Seq(PricedOrder) /\ BookTyped' /\ StopsTyped'
                /\ RestTyped' /\ stack' \in Seq(Frame(order'))
BY DEF TypeOK, BookTyped, StopsTyped, RestTyped

\* What every step keeps: the invariant, and the terms of the orders there are.
Keeps == IInv' /\ Grows(order, order')

(* A step that opens no level has only its types to show.                   *)
LEMMA Closing ==
    ASSUME IInv, order' \in Seq(PricedOrder), Grows(order, order'),
           BookTyped', OpensNoLevel, StopsTyped', RestTyped', stack' \in Seq(Frame(order'))
    PROVE  Keeps
BY TypeParts, TypePartsAfter, ShrinkKeeps DEF IInv, Keeps

(* A step that leaves the book and the prices alone.                        *)
LEMMA OffTheBook ==
    ASSUME IInv, order' \in Seq(PricedOrder), Grows(order, order'),
           stack' \in Seq(Frame(order')), StopsTyped', UNCHANGED bookVars,
           UNCHANGED tradePrice, paused' \in BOOLEAN
    PROVE  Keeps
<1>1. BookTyped' /\ OpensNoLevel
  BY TypeParts, BookStays DEF IInv, bookVars
<1>2. RestTyped'
  BY TypeParts DEF IInv, RestTyped, bookVars
<1>3. QED
  BY <1>1, <1>2, Closing

(* A client's order enters the engine.                                      *)
LEMMA SubmitKeeps ==
    ASSUME IInv, NEW f \in Forms, NEW id \in {"client"} \X ClientIDs, Submit(f, id)
    PROVE  Keeps
<1> DEFINE r == Len(order) + 1
           o == [id |-> id, user |-> f.user, side |-> f.side, type |-> f.type,
                 tif |-> f.tif, price |-> f.price, stop |-> f.stop, qty |-> f.qty,
                 visible |-> f.visible, filled |-> 0, status |-> "NEW",
                 root |-> r, done |-> 0]
           heap == Append(order, o)
<1>1. TypeOK /\ order \in Seq(PricedOrder) /\ StopsTyped
  BY TypeParts DEF IInv
<1>2. o \in PricedOrder
  <2>1. f \in Form /\ (f.type \in {"limit", "iceberg"} => f.price \in Prices)
    BY FormsAssumption
  <2>2. id \in OrderIDs
    BY DEF OrderIDs
  <2>3. r \in Ref
    BY <1>1 DEF Ref
  <2> HIDE DEF r
  <2>4. QED
    BY <2>1, <2>2, <2>3 DEF PricedOrder, Order, Form, Statuses
<1>3. /\ ProcessOrder(heap, r, <<>>)
      /\ UNCHANGED <<bookVars, paused, tradePrice>>
  BY DEF Submit
<1>4. o.filled = 0 /\ o.id = id
  OBVIOUS
<1> HIDE DEF o
<1>5. /\ heap \in Seq(PricedOrder) /\ Grows(order, heap) /\ heap # <<>>
      /\ r = Len(heap) /\ r \in DOMAIN heap /\ heap[r] = o
  BY <1>1, <1>2, HeapAppend, AppendProperties
<1> HIDE DEF heap, r
<1>6. <<>> \in Seq(Frame(heap))
  OBVIOUS
<1>7. CASE Execute(heap, r, <<>>) /\ UNCHANGED stopVars
  <2>1. Reaches(heap)
    BY <1>4, <1>5, <1>6, <1>7, ExecuteReaches
  <2>2. order' \in Seq(PricedOrder) /\ Grows(order, order') /\ stack' \in Seq(Frame(order'))
    BY <1>5, <2>1, GrowsTransitive DEF Reaches
  <2>3. StopsTyped'
    BY <1>1, <1>7, <2>2, StopsStay
  <2>4. paused' \in BOOLEAN
    BY <1>1, <1>3 DEF TypeOK
  <2>5. QED
    BY <1>3, <2>2, <2>3, <2>4, OffTheBook
<1>8. CASE ArmStop(heap[r], r) /\ ReturnWith(heap, r, "NEW", <<>>)
  <2>1. Reaches(heap)
    BY <1>5, <1>6, <1>8, ReturnReaches DEF Statuses
  <2>2. order' \in Seq(PricedOrder) /\ Grows(order, order') /\ stack' \in Seq(Frame(order'))
    BY <1>5, <2>1, GrowsTransitive DEF Reaches
  <2>3. r \in DOMAIN order'
    BY <1>5, <2>1 DEF Reaches, Grows
  <2>4. StopsTyped'
    BY <1>1, <1>2, <1>5, <1>8, <2>2, <2>3, ArmStopKeeps
  <2>5. paused' \in BOOLEAN
    BY <1>1, <1>3 DEF TypeOK
  <2>6. QED
    BY <1>3, <2>2, <2>4, <2>5, OffTheBook
<1>9. QED
  BY <1>3, <1>7, <1>8 DEF ProcessOrder

(* An iteration of the matching loop.                                       *)
LEMMA MatchStepKeeps ==
    ASSUME IInv, MatchStep
    PROVE  Keeps
<1> DEFINE f == Head(stack)
<1>1. /\ order \in Seq(PricedOrder) /\ BookTyped /\ StopsTyped /\ RestTyped
      /\ stack \in Seq(Frame(order))
  BY TypeParts DEF IInv
<1>2. f \in Frame(order) /\ Tail(stack) \in Seq(Frame(order)) /\ f.op = "match"
  BY <1>1, Pop DEF MatchStep
<1>3. /\ f.taker \in DOMAIN order /\ f.rem \in Nat
      /\ f.rem <= order[f.taker].qty
  BY <1>2 DEF Frame
<1> DEFINE side == OppositeSide[order[f.taker].side]
<1>4. side \in Sides
  <2>1. order[f.taker] \in PricedOrder
    BY <1>1, <1>3, ElementOfSeq
  <2>2. QED
    BY <2>1 DEF PricedOrder, Order, Sides, OppositeSide
<1> HIDE DEF f, side
<1>5. SUFFICES ASSUME NEW p \in Target(order[f.taker]),
          LET maker == Head(level[side][p].orders)
              left == RemainingQty(order[maker])
              q == IF f.rem > left THEN left ELSE f.rem
          IN  /\ q > 0
              /\ order' = AfterTrade(f.taker, maker, q)
              /\ stack' = <<MatchFrame(f.taker, f.rem - q, p)>> \o Tail(stack)
              /\ tradePrice' = p
              /\ \/ RemoveOrder(order[maker].id)
                 \/ /\ UpdateVolume(side, p, q)
                    /\ UNCHANGED <<orderIndex, userOrders, deltaBuffer>>
              /\ UNCHANGED <<lastPrice, paused, stopVars>>
      PROVE Keeps
  <2>1. UNCHANGED vars => Keeps
    <3>1. ASSUME UNCHANGED vars PROVE Keeps
      BY <1>1, <3>1, OffTheBook, GrowsReflexive, StopsStay DEF vars, RestTyped
    <3>2. QED
      BY <3>1
  <2>2. QED
    BY <2>1 DEF MatchStep, f, side
<1> DEFINE maker == Head(level[side][p].orders)
           left == RemainingQty(order[maker])
           q == IF f.rem > left THEN left ELSE f.rem
<1>6. p \in DOMAIN level[side] /\ p \in Prices
  <2>1. p \in DOMAIN level[side]
    BY DEF Target, BestPrices, side
  <2>2. QED
    BY <1>1, <1>4, <2>1 DEF BookTyped, BookSide
<1>7. maker \in DOMAIN order
  <2>1. level[side][p].orders \in Seq(DOMAIN order) \ {<<>>}
    BY <1>1, <1>4, <1>6 DEF BookTyped, BookSide
  <2>2. QED
    BY <2>1, HeadTailProperties
<1> HIDE DEF maker
<1>8. q \in Nat /\ f.rem - q \in Nat /\ f.rem - q <= order[f.taker].qty
  <2>1. order[maker] \in PricedOrder /\ order[f.taker] \in PricedOrder
    BY <1>1, <1>3, <1>7, ElementOfSeq
  <2>2. left \in Int /\ order[f.taker].qty \in Nat
    BY <2>1 DEF PricedOrder, Order, RemainingQty
  <2> HIDE DEF left
  <2>3. q > 0
    BY <1>5 DEF maker, left
  <2>4. QED
    BY <1>3, <2>2, <2>3
<1>9. /\ order' = AfterTrade(f.taker, maker, q)
      /\ stack' = <<MatchFrame(f.taker, f.rem - q, p)>> \o Tail(stack)
      /\ tradePrice' = p
      /\ \/ RemoveOrder(order[maker].id)
         \/ UpdateVolume(side, p, q) /\ UNCHANGED userOrders
      /\ UNCHANGED <<lastPrice, paused, stopVars>>
  BY <1>5 DEF maker
<1> HIDE DEF q
<1>10. order' \in Seq(PricedOrder) /\ Grows(order, order')
  BY <1>1, <1>3, <1>7, <1>8, <1>9, TradeHeap
<1>11. BookTyped' /\ OpensNoLevel
  BY <1>1, <1>4, <1>6, <1>9, <1>10, RemoveOrderKeeps, UpdateVolumeKeeps
<1>12. stack' \in Seq(Frame(order'))
  <2> DEFINE n == f.rem - q
             g == MatchFrame(f.taker, n, p)
             below == Tail(stack)
  <2>1. /\ f.taker \in DOMAIN order'
        /\ order'[f.taker].qty = order[f.taker].qty
    BY <1>3, <1>10 DEF Grows, SameTerms
  <2>2. below \in Seq(Frame(order'))
    BY <1>2, <1>10, RefersOn
  <2>3. n \in Nat /\ n <= order'[f.taker].qty
    BY <1>8, <2>1
  <2> HIDE DEF n, below
  <2>4. g \in Frame(order')
    BY <1>6, <1>10, <2>1, <2>3, MatchFrameType
  <2> HIDE DEF g
  <2>5. <<g>> \o below \in Seq(Frame(order'))
    BY <2>2, <2>4, Push
  <2>6. QED
    BY <1>9, <2>5 DEF g, n, below
<1>13. StopsTyped'
  BY <1>1, <1>9, <1>10, StopsStay
<1>14. RestTyped'
  BY <1>1, <1>6, <1>9 DEF RestTyped
<1>15. QED
  BY <1>10, <1>11, <1>12, <1>13, <1>14, Closing

(* What the end of a matching loop makes of its order.                      *)
LEMMA Settled ==
    ASSUME NEW o \in PricedOrder, NEW rem \in Nat, rem <= o.qty
    PROVE  LET settled == [o EXCEPT !.filled = o.qty - rem, !.status = Outcome(o, rem)]
           IN  /\ settled \in PricedOrder /\ SameTerms(o, settled)
               /\ settled.side = o.side /\ settled.price = o.price
               /\ settled.type = o.type
               /\ RestOf(settled, rem) \in PricedOrder
               /\ RestOf(settled, rem).side = o.side
               /\ RestOf(settled, rem).price = o.price
               /\ RestOf(settled, rem).type = o.type
<1> DEFINE n == o.qty - rem
           st == Outcome(o, rem)
           settled == [o EXCEPT !.filled = n, !.status = st]
<1>1. n \in Nat
  <2>1. o.qty \in Nat
    BY DEF PricedOrder, Order
  <2>2. QED
    BY <2>1
<1>2. st \in Statuses
  BY DEF Outcome, Statuses
<1> HIDE DEF n, st
<1>3. settled \in PricedOrder /\ SameTerms(o, settled)
  BY <1>1, <1>2 DEF PricedOrder, Order, SameTerms
<1>4. settled.side = o.side /\ settled.price = o.price /\ settled.type = o.type
  BY DEF PricedOrder, Order
<1> HIDE DEF settled
<1>5. /\ RestOf(settled, rem) \in PricedOrder
      /\ RestOf(settled, rem).side = settled.side
      /\ RestOf(settled, rem).price = settled.price
      /\ RestOf(settled, rem).type = settled.type
  BY <1>3 DEF RestOf, PricedOrder, Order
<1>6. QED
  BY <1>3, <1>4, <1>5 DEF settled, n, st

(* The taker's rest joins the book, and the book is still not crossed: the  *)
(* loop ended because nothing is left within the taker's price.             *)
LEMMA SettleTakerKeeps ==
    ASSUME IInv, NEW r \in DOMAIN order, NEW rem \in Nat, rem <= order[r].qty,
           rem > 0 => Target(order[r]) = {}, SettleTaker(r, rem)
    PROVE  /\ order' \in Seq(PricedOrder) /\ Grows(order, order')
           /\ BookTyped' /\ BookNotCrossed'
<1> DEFINE o == order[r]
           settled == [o EXCEPT !.filled = o.qty - rem, !.status = Outcome(o, rem)]
           heap == [order EXCEPT ![r] = settled]
           clone == RestOf(settled, rem)
<1>1. order \in Seq(PricedOrder) /\ BookTyped /\ BookNotCrossed
  BY TypeParts DEF IInv
<1>2. o \in PricedOrder
  BY <1>1, ElementOfSeq
<1>3. /\ settled \in PricedOrder /\ SameTerms(o, settled)
      /\ settled.side = o.side /\ settled.price = o.price /\ settled.type = o.type
      /\ clone \in PricedOrder
      /\ clone.side = o.side /\ clone.price = o.price /\ clone.type = o.type
  BY <1>2, Settled
<1>4. \/ /\ Rests(o, rem)
         /\ order' = Append(heap, clone)
         /\ AddOrder(Len(order'))
      \/ /\ Rests(o, rem)
         /\ order' = heap
         /\ AddOrder(r)
      \/ /\ order' = heap
         /\ UNCHANGED <<level, userOrders>>
  BY DEF SettleTaker
<1> HIDE DEF settled, clone
<1>5. /\ heap \in Seq(PricedOrder) /\ Grows(order, heap)
      /\ heap[r] = settled /\ r \in DOMAIN heap
  BY <1>1, <1>3, HeapUpdate DEF Grows
<1> HIDE DEF heap
<1>6. CASE order' = heap /\ UNCHANGED <<level, userOrders>>
  BY <1>1, <1>5, <1>6, BookStays, ShrinkKeeps
<1>7. ASSUME Rests(o, rem), NEW k \in DOMAIN order', AddOrder(k),
             order' \in Seq(PricedOrder), Grows(order, order'),
             order'[k].side = o.side, order'[k].price = o.price,
             order'[k].type = o.type
      PROVE  BookTyped' /\ BookNotCrossed'
  <2> DEFINE side == o.side
             p == o.price
  <2>1. o.type = "limit" /\ Target(o) = {}
    BY <1>7 DEF Rests
  <2>2. /\ BookTyped'
        /\ \A s \in Sides : DOMAIN level'[s] \subseteq
              DOMAIN level[s] \cup (IF s = side THEN {p} ELSE {})
    BY <1>1, <1>7, <2>1, AddOrderKeeps
  <2>3. \A x \in DOMAIN level[OppositeSide[side]] : ~ CanMatch(side, p, x)
    BY <1>1, <1>2, <2>1, NothingToTake DEF BookTyped
  <2>4. p \in Nat /\ side \in Sides
    BY <1>2, <2>1 DEF PricedOrder, Order
  <2>5. \A s \in Sides : DOMAIN level[s] \subseteq Nat
    BY <1>1 DEF BookTyped, BookSide
  <2> HIDE DEF side, p
  <2>6. CASE side = "buy"
    <3>1. DOMAIN level'["buy"] \subseteq DOMAIN level["buy"] \cup {p}
      BY <2>2, <2>6 DEF Sides
    <3>2. DOMAIN level'["sell"] \subseteq DOMAIN level["sell"]
      BY <2>2, <2>6 DEF Sides
    <3>3. \A a \in DOMAIN level["sell"] : p < a
      BY <2>3, <2>4, <2>5, <2>6 DEF CanMatch, OppositeSide, Sides
    <3>4. QED
      BY <1>1, <2>2, <3>1, <3>2, <3>3 DEF BookNotCrossed
  <2>7. CASE side = "sell"
    <3>1. DOMAIN level'["sell"] \subseteq DOMAIN level["sell"] \cup {p}
      BY <2>2, <2>7 DEF Sides
    <3>2. DOMAIN level'["buy"] \subseteq DOMAIN level["buy"]
      BY <2>2, <2>7 DEF Sides
    <3>3. \A b \in DOMAIN level["buy"] : b < p
      BY <2>3, <2>4, <2>5, <2>7 DEF CanMatch, OppositeSide, Sides
    <3>4. QED
      BY <1>1, <2>2, <3>1, <3>2, <3>3 DEF BookNotCrossed
  <2>8. QED
    BY <2>4, <2>6, <2>7 DEF Sides
<1>8. CASE Rests(o, rem) /\ order' = heap /\ AddOrder(r)
  BY <1>3, <1>5, <1>7, <1>8
<1>9. CASE /\ Rests(o, rem)
           /\ order' = Append(heap, clone)
           /\ AddOrder(Len(order'))
  <2>1. /\ order' \in Seq(PricedOrder) /\ Grows(heap, order')
        /\ Len(order') \in DOMAIN order' /\ order'[Len(order')] = clone
    BY <1>3, <1>5, <1>9, HeapAppend
  <2>2. Grows(order, order')
    BY <1>5, <2>1, GrowsTransitive
  <2>3. QED
    BY <1>3, <1>7, <1>9, <2>1, <2>2
<1>10. QED
  BY <1>4, <1>5, <1>6, <1>8, <1>9

LEMMA FinishMatchKeeps ==
    ASSUME IInv, FinishMatch
    PROVE  Keeps
<1> DEFINE f == Head(stack)
<1>1. /\ order \in Seq(PricedOrder) /\ StopsTyped /\ RestTyped
      /\ stack \in Seq(Frame(order))
  BY TypeParts DEF IInv
<1>2. f \in Frame(order) /\ Tail(stack) \in Seq(Frame(order)) /\ f.op = "match"
  BY <1>1, Pop DEF FinishMatch
<1>3. /\ f.taker \in DOMAIN order /\ f.rem \in Nat
      /\ f.rem <= order[f.taker].qty /\ f.last \in Prices \cup {NoPrice}
  BY <1>2 DEF Frame
<1>4. /\ f.rem > 0 => Target(order[f.taker]) = {}
      /\ SettleTaker(f.taker, f.rem)
      /\ \/ /\ f.last # NoPrice
            /\ lastPrice' = f.last
            /\ stack' = <<TriggerFrame(f.last, "rise", Armed("rise"))>> \o Tail(stack)
         \/ UNCHANGED lastPrice /\ stack' = Tail(stack)
      /\ UNCHANGED <<paused, stopVars, tradePrice>>
  BY DEF FinishMatch, Matching, SetLastPrice
<1> HIDE DEF f
<1>5. /\ order' \in Seq(PricedOrder) /\ Grows(order, order')
      /\ BookTyped' /\ BookNotCrossed'
  BY <1>3, <1>4, SettleTakerKeeps
<1>6. StopsTyped'
  BY <1>1, <1>4, <1>5, StopsStay
<1>7. RestTyped'
  BY <1>1, <1>3, <1>4 DEF RestTyped
<1>8. Tail(stack) \in Seq(Frame(order'))
  BY <1>2, <1>5, RefersOn
<1>9. stack' \in Seq(Frame(order'))
  <2>1. CASE stack' = Tail(stack)
    BY <1>8, <2>1
  <2>2. CASE /\ f.last # NoPrice
             /\ stack' = <<TriggerFrame(f.last, "rise", Armed("rise"))>> \o Tail(stack)
    <3>1. Armed("rise") \subseteq OrderIDs
      BY <1>1 DEF Armed, StopMap, StopsTyped, Index
    <3>2. TriggerFrame(f.last, "rise", Armed("rise")) \in Frame(order')
      BY <1>3, <2>2, <3>1 DEF TriggerFrame, Frame
    <3>3. QED
      BY <1>8, <2>2, <3>2, Push
  <2>3. QED
    BY <1>4, <2>1, <2>2
<1>10. QED
  BY <1>5, <1>6, <1>7, <1>9, TypePartsAfter DEF IInv, Keeps

LEMMA FinishIcebergKeeps ==
    ASSUME IInv, FinishIceberg
    PROVE  Keeps
<1> DEFINE f == Head(stack)
           parent == order[f.parent]
           n == parent.filled + order[f.visible].filled
           st == order[f.visible].status
           o == [parent EXCEPT !.filled = n, !.status = st]
<1>1. /\ order \in Seq(PricedOrder) /\ StopsTyped /\ paused \in BOOLEAN
      /\ stack \in Seq(Frame(order))
  BY TypeParts DEF IInv, RestTyped
<1>2. f \in Frame(order) /\ Tail(stack) \in Seq(Frame(order)) /\ f.op = "iceberg"
  BY <1>1, Pop DEF FinishIceberg
<1>3. f.parent \in DOMAIN order /\ f.visible \in DOMAIN order
  BY <1>2 DEF Frame
<1>4. order' = [order EXCEPT ![f.parent] = o]
  BY DEF FinishIceberg
<1>5. /\ stack' = Tail(stack)
      /\ UNCHANGED <<bookVars, paused, stopVars, tradePrice>>
  BY DEF FinishIceberg
<1> HIDE DEF f
<1>6. parent \in PricedOrder /\ order[f.visible] \in PricedOrder
  BY <1>1, <1>3, ElementOfSeq
<1>7. n \in Nat /\ st \in Statuses
  BY <1>6 DEF PricedOrder, Order
<1> HIDE DEF n, st
<1>8. o \in PricedOrder /\ SameTerms(parent, o)
  BY <1>6, <1>7 DEF PricedOrder, Order, SameTerms
<1> HIDE DEF o
<1>9. order' \in Seq(PricedOrder) /\ Grows(order, order')
  BY <1>1, <1>4, <1>8, HeapUpdate
<1>10. StopsTyped' /\ stack' \in Seq(Frame(order'))
  BY <1>1, <1>2, <1>5, <1>9, StopsStay, RefersOn
<1>11. QED
  BY <1>1, <1>5, <1>9, <1>10, OffTheBook

(* A stop that turns into a limit order names its price.                    *)
LEMMA TriggeredType ==
    ASSUME NEW o \in PricedOrder, NEW n \in Nat \ {0}
    PROVE  /\ Triggered(o, n) \in PricedOrder
           /\ Triggered(o, n).type # "iceberg"
<1>1. <<"uuid", n>> \in OrderIDs
  BY DEF OrderIDs
<1> DEFINE i == <<"uuid", n>>
           type == IF o.price > 0 THEN "limit" ELSE "market"
           tif == IF o.price > 0 THEN "GTC" ELSE "IOC"
<1>2. type \in {"limit", "market"} /\ tif \in TimesInForce
  BY DEF TimesInForce
<1>3. type = "limit" => o.price \in Prices
  BY DEF PricedOrder, Order, NoPrice
<1> HIDE DEF i, type, tif
<1> DEFINE new == [o EXCEPT !.id = i, !.stop = NoPrice, !.visible = 0,
                            !.filled = 0, !.status = "NEW",
                            !.type = type, !.tif = tif]
<1>4. i \in OrderIDs
  BY <1>1 DEF i
<1>5. new \in Order /\ new.type = type /\ new.price = o.price
  BY <1>2, <1>4 DEF PricedOrder, Order, Statuses, Types
<1> HIDE DEF new
<1>6. new \in PricedOrder /\ new.type # "iceberg"
  BY <1>2, <1>3, <1>5 DEF PricedOrder
<1>7. QED
  BY <1>6 DEF Triggered, new, i, type, tif

LEMMA TriggerFrameType ==
    ASSUME NEW heap, NEW p \in Prices, NEW map \in {"rise", "fall"},
           NEW todo \in SUBSET OrderIDs
    PROVE  TriggerFrame(p, map, todo) \in Frame(heap)
BY DEF TriggerFrame, Frame

LEMMA VisitStopKeeps ==
    ASSUME IInv, VisitStop
    PROVE  Keeps
<1> DEFINE f == Head(stack)
           left == f.todo \cap Armed(f.map)
<1>1. /\ order \in Seq(PricedOrder) /\ StopsTyped /\ paused \in BOOLEAN
      /\ stack \in Seq(Frame(order))
  BY TypeParts DEF IInv, RestTyped
<1>2. f \in Frame(order) /\ Tail(stack) \in Seq(Frame(order)) /\ f.op = "triggers"
  BY <1>1, Pop DEF VisitStop
<1>3. f.price \in Prices /\ f.map \in {"rise", "fall"} /\ f.todo \subseteq OrderIDs
  BY <1>2 DEF Frame
<1> DEFINE after(id) == <<TriggerFrame(f.price, f.map, left \ {id})>> \o Tail(stack)
<1>4. PICK id \in left :
         \/ TriggerOrder(id, StopMap(f.map)[id], after(id))
         \/ stack' = after(id) /\ UNCHANGED <<order, stopVars>>
  BY DEF VisitStop
<1>5. UNCHANGED <<bookVars, paused, tradePrice>>
  BY DEF VisitStop
<1> DEFINE r == StopMap(f.map)[id]
           rest == after(id)
<1>6. r \in DOMAIN order
  BY <1>1, <1>3, <1>4 DEF Armed, StopMap, StopsTyped, Index
<1>7. rest \in Seq(Frame(order))
  <2>1. left \ {id} \in SUBSET OrderIDs
    BY <1>3
  <2> HIDE DEF left
  <2>2. TriggerFrame(f.price, f.map, left \ {id}) \in Frame(order)
    BY <1>3, <2>1, TriggerFrameType
  <2>3. QED
    BY <1>2, <2>2, Push
<1>8. \/ TriggerOrder(id, r, rest)
      \/ stack' = rest /\ UNCHANGED <<order, stopVars>>
  BY ONLY <1>4
<1> HIDE DEF f, left, after, r, rest
<1>9. CASE stack' = rest /\ UNCHANGED <<order, stopVars>>
  BY <1>1, <1>5, <1>7, <1>9, OffTheBook, GrowsReflexive, StopsStay
<1>10. CASE TriggerOrder(id, r, rest)
  <2> DEFINE n == Len(order) + 1
             o == Triggered(order[r], n)
             heap == Append(order, o)
  <2>1. DisarmStop(id) /\ Execute(heap, n, rest)
    BY <1>10 DEF TriggerOrder
  <2>2. order[r] \in PricedOrder /\ n \in Nat \ {0}
    BY <1>1, <1>6, ElementOfSeq
  <2>3. o \in PricedOrder /\ o.type # "iceberg"
    BY <2>2, TriggeredType
  <2> HIDE DEF o
  <2>4. /\ heap \in Seq(PricedOrder) /\ Grows(order, heap) /\ heap # <<>>
        /\ n = Len(heap) /\ heap[n] = o
    BY <1>1, <2>3, HeapAppend, AppendProperties
  <2> HIDE DEF heap, n
  <2>5. rest \in Seq(Frame(heap))
    BY <1>7, <2>4, RefersOn
  <2>6. Reaches(heap)
    BY <2>1, <2>3, <2>4, <2>5, ExecuteReaches
  <2>7. order' \in Seq(PricedOrder) /\ Grows(order, order') /\ stack' \in Seq(Frame(order'))
    BY <2>4, <2>6, GrowsTransitive DEF Reaches
  <2>8. StopsTyped'
    BY <1>1, <2>1, <2>7, DisarmStopKeeps
  <2>9. QED
    BY <1>1, <1>5, <2>7, <2>8, OffTheBook
<1>11. QED
  BY <1>8, <1>9, <1>10

LEMMA EndRangeKeeps ==
    ASSUME IInv, EndRange
    PROVE  Keeps
<1> DEFINE f == Head(stack)
<1>1. /\ order \in Seq(PricedOrder) /\ StopsTyped /\ paused \in BOOLEAN
      /\ stack \in Seq(Frame(order))
  BY TypeParts DEF IInv, RestTyped
<1>2. f \in Frame(order) /\ Tail(stack) \in Seq(Frame(order)) /\ f.op = "triggers"
  BY <1>1, Pop DEF EndRange
<1>3. f.price \in Prices
  BY <1>2 DEF Frame
<1>4. /\ stack' \in {<<TriggerFrame(f.price, "fall", Armed("fall"))>> \o Tail(stack),
                     Tail(stack)}
      /\ UNCHANGED <<order, bookVars, paused, stopVars, tradePrice>>
  BY DEF EndRange
<1> HIDE DEF f
<1>5. Armed("fall") \in SUBSET OrderIDs
  BY <1>1 DEF Armed, StopMap, StopsTyped, Index
<1>6. TriggerFrame(f.price, "fall", Armed("fall")) \in Frame(order)
  BY <1>3, <1>5, TriggerFrameType
<1>7. stack' \in Seq(Frame(order))
  BY <1>2, <1>4, <1>6, Push, SMTT(30)
<1>8. QED
  BY <1>1, <1>4, <1>7, OffTheBook, GrowsReflexive, StopsStay

-----------------------------------------------------------------------------
(* Cancellation.                                                            *)

LEMMA CancelOrderKeeps ==
    ASSUME IInv, NEW id, CancelOrder(id)
    PROVE  /\ order' \in Seq(PricedOrder) /\ Grows(order, order')
           /\ BookTyped' /\ OpensNoLevel /\ StopsTyped'
<1>1. order \in Seq(PricedOrder) /\ BookTyped /\ StopsTyped
  BY TypeParts DEF IInv
<1>2. "CANCELED" \in Statuses
  BY DEF Statuses
<1>3. PICK r : order' = [order EXCEPT ![r].status = "CANCELED"]
  BY DEF CancelOrder
<1>4. order' \in Seq(PricedOrder) /\ Grows(order, order')
  <2> DEFINE heap == [order EXCEPT ![r].status = "CANCELED"]
  <2>1. heap \in Seq(PricedOrder) /\ Grows(order, heap)
    BY <1>1, <1>2, SetStatus
  <2>2. QED
    BY <1>3, <2>1
<1>5. CASE RemoveOrder(id) /\ UNCHANGED stopVars
  BY <1>1, <1>4, <1>5, RemoveOrderKeeps, StopsStay
<1>6. CASE DisarmStop(id) /\ UNCHANGED <<level, orderIndex, userOrders, deltaBuffer>>
  BY <1>1, <1>4, <1>6, BookStays, DisarmStopKeeps
<1>7. QED
  BY <1>4, <1>5, <1>6 DEF CancelOrder

LEMMA CancelKeeps ==
    ASSUME IInv, NEW id, Cancel(id)
    PROVE  Keeps
<1>1. /\ CancelOrder(id) /\ Idle
      /\ UNCHANGED <<lastPrice, paused, stack, tradePrice>>
  BY DEF Cancel
<1>2. /\ order' \in Seq(PricedOrder) /\ Grows(order, order')
      /\ BookTyped' /\ OpensNoLevel /\ StopsTyped'
  BY <1>1, CancelOrderKeeps
<1>3. stack' \in Seq(Frame(order')) /\ RestTyped'
  BY <1>1, TypeParts DEF IInv, Idle, RestTyped
<1>4. QED
  BY <1>2, <1>3, Closing

LEMMA CancelFrameType ==
    ASSUME NEW heap, NEW user \in Users, NEW map \in {"book", "stops"},
           NEW todo \in SUBSET OrderIDs
    PROVE  CancelFrame(user, map, todo) \in Frame(heap)
BY DEF CancelFrame, Frame

LEMMA CancelAllKeeps ==
    ASSUME IInv, NEW user \in Users, CancelAll(user)
    PROVE  Keeps
<1> DEFINE todo == IF user \in DOMAIN userOrders THEN DOMAIN userOrders[user] ELSE {}
<1>1. /\ order \in Seq(PricedOrder) /\ BookTyped /\ StopsTyped /\ paused \in BOOLEAN
  BY TypeParts DEF IInv, RestTyped
<1>2. /\ stack' = <<CancelFrame(user, "book", todo)>>
      /\ UNCHANGED <<order, bookVars, paused, stopVars, tradePrice>>
  BY DEF CancelAll
<1>3. todo \in SUBSET OrderIDs
  BY <1>1 DEF BookTyped
<1> HIDE DEF todo
<1>4. CancelFrame(user, "book", todo) \in Frame(order)
  BY <1>3, CancelFrameType
<1>5. stack' \in Seq(Frame(order))
  BY <1>2, <1>4
<1>6. QED
  BY <1>1, <1>2, <1>5, OffTheBook, GrowsReflexive, StopsStay

LEMMA CancelNextKeeps ==
    ASSUME IInv, CancelNext
    PROVE  Keeps
<1> DEFINE f == Head(stack)
<1>1. /\ order \in Seq(PricedOrder) /\ BookTyped /\ StopsTyped /\ RestTyped
      /\ stack \in Seq(Frame(order))
  BY TypeParts DEF IInv
<1>2. f \in Frame(order) /\ Tail(stack) \in Seq(Frame(order)) /\ f.op = "cancel"
  BY <1>1, Pop DEF CancelNext
<1>3. f.user \in Users /\ f.map \in {"book", "stops"} /\ f.todo \subseteq OrderIDs
  BY <1>2 DEF Frame
<1>4. PICK id \in f.todo :
         /\ stack' = <<CancelFrame(f.user, f.map, f.todo \ {id})>> \o Tail(stack)
         /\ \/ CancelOrder(id)
            \/ /\ order' = [order EXCEPT ![stopIndex[id]].status = "CANCELED"]
               /\ DisarmStop(id)
               /\ UNCHANGED <<level, orderIndex, userOrders, deltaBuffer>>
            \/ UNCHANGED <<order, level, orderIndex, userOrders, deltaBuffer, stopVars>>
  BY DEF CancelNext
<1>5. UNCHANGED <<lastPrice, paused, tradePrice>>
  BY DEF CancelNext
<1> DEFINE g == CancelFrame(f.user, f.map, f.todo \ {id})
<1> HIDE DEF f
<1>6. g \in Frame(order)
  BY <1>3, CancelFrameType
<1>7. stack' \in Seq(Frame(order))
  BY <1>2, <1>4, <1>6, Push
<1>8. /\ order' \in Seq(PricedOrder) /\ Grows(order, order')
      /\ BookTyped' /\ OpensNoLevel /\ StopsTyped'
  <2>1. CASE CancelOrder(id)
    BY <2>1, CancelOrderKeeps
  <2>2. CASE /\ order' = [order EXCEPT ![stopIndex[id]].status = "CANCELED"]
             /\ DisarmStop(id)
             /\ UNCHANGED <<level, orderIndex, userOrders, deltaBuffer>>
    <3>1. order' \in Seq(PricedOrder) /\ Grows(order, order')
      BY <1>1, <2>2, SetStatus DEF Statuses
    <3>2. QED
      BY <1>1, <2>2, <3>1, BookStays, DisarmStopKeeps
  <2>3. CASE UNCHANGED <<order, level, orderIndex, userOrders, deltaBuffer, stopVars>>
    BY <1>1, <2>3, GrowsReflexive, BookStays, StopsStay
  <2>4. QED
    BY <1>4, <2>1, <2>2, <2>3
<1>9. stack' \in Seq(Frame(order'))
  BY <1>7, <1>8, RefersOn
<1>10. RestTyped'
  BY <1>1, <1>5 DEF RestTyped
<1>11. QED
  BY <1>8, <1>9, <1>10, Closing

LEMMA EndCancelKeeps ==
    ASSUME IInv, EndCancel
    PROVE  Keeps
<1> DEFINE f == Head(stack)
           todo == IF f.user \in DOMAIN stopUsers THEN DOMAIN stopUsers[f.user] ELSE {}
<1>1. /\ order \in Seq(PricedOrder) /\ StopsTyped /\ paused \in BOOLEAN
      /\ stack \in Seq(Frame(order))
  BY TypeParts DEF IInv, RestTyped
<1>2. f \in Frame(order) /\ Tail(stack) \in Seq(Frame(order)) /\ f.op = "cancel"
  BY <1>1, Pop DEF EndCancel
<1>3. f.user \in Users
  BY <1>2 DEF Frame
<1>4. /\ stack' \in {<<CancelFrame(f.user, "stops", todo)>> \o Tail(stack), Tail(stack)}
      /\ UNCHANGED <<order, bookVars, paused, stopVars, tradePrice>>
  BY DEF EndCancel
<1>5. todo \in SUBSET OrderIDs
  BY <1>1 DEF StopsTyped
<1> HIDE DEF f, todo
<1>6. CancelFrame(f.user, "stops", todo) \in Frame(order)
  BY <1>3, <1>5, CancelFrameType
<1>7. stack' \in Seq(Frame(order))
  BY <1>2, <1>4, <1>6, Push
<1>8. QED
  BY <1>1, <1>4, <1>7, OffTheBook, GrowsReflexive, StopsStay

\* Pause, Resume and stuttering touch the flag at most.
LEMMA FlagKeeps ==
    ASSUME IInv, UNCHANGED <<order, bookVars, stopVars, stack, tradePrice>>,
           paused' \in BOOLEAN
    PROVE  Keeps
BY TypeParts, OffTheBook, GrowsReflexive, StopsStay DEF IInv

-----------------------------------------------------------------------------
(* The theorems.                                                            *)

LEMMA InitIInv == Init => IInv
<1> SUFFICES ASSUME Init PROVE IInv
  OBVIOUS
<1>1. order = <<>> /\ stack = <<>> /\ level = [s \in Sides |-> EmptyMap]
  BY DEF Init, BookInit
<1>2. DOMAIN EmptyMap = {}
  BY DEF EmptyMap
<1>3. \A s \in Sides : BookSide(level[s], order)
  BY <1>1, <1>2, FS_EmptySet DEF BookSide
<1>4. BookTyped
  BY <1>1, <1>2, <1>3 DEF BookTyped, Init, BookInit
<1>5. StopsTyped
  BY <1>2 DEF StopsTyped, Init, Index
<1>6. RestTyped
  BY DEF RestTyped, Init, BookInit
<1>7. TypeOK
  BY <1>1, <1>4, <1>5, <1>6, TypeParts
<1>8. BookNotCrossed
  BY <1>1, <1>2 DEF BookNotCrossed, Sides
<1>9. QED
  BY <1>7, <1>8 DEF IInv

LEMMA NextIInv == IInv /\ [Next]_vars => Keeps
<1> SUFFICES ASSUME IInv, [Next]_vars PROVE Keeps
  OBVIOUS
<1>1. ASSUME NEW f \in Forms, NEW id \in {"client"} \X ClientIDs, Submit(f, id)
      PROVE  Keeps
  BY <1>1, SubmitKeeps
<1>2. ASSUME NEW id, Cancel(id) PROVE Keeps
  BY <1>2, CancelKeeps
<1>3. ASSUME NEW user \in Users, CancelAll(user) PROVE Keeps
  BY <1>3, CancelAllKeeps
<1>4. CASE MatchStep
  BY <1>4, MatchStepKeeps
<1>5. CASE FinishMatch
  BY <1>5, FinishMatchKeeps
<1>6. CASE FinishIceberg
  BY <1>6, FinishIcebergKeeps
<1>7. CASE VisitStop
  BY <1>7, VisitStopKeeps
<1>8. CASE EndRange
  BY <1>8, EndRangeKeeps
<1>9. CASE CancelNext
  BY <1>9, CancelNextKeeps
<1>10. CASE EndCancel
  BY <1>10, EndCancelKeeps
<1>11. CASE Pause
  BY <1>11, FlagKeeps DEF Pause
<1>12. CASE Resume
  BY <1>12, FlagKeeps DEF Resume
<1>13. CASE UNCHANGED vars
  BY <1>13, FlagKeeps, TypeParts DEF vars, IInv, RestTyped
<1>14. QED
  BY <1>1, <1>2, <1>3, <1>4, <1>5, <1>6, <1>7, <1>8, <1>9, <1>10, <1>11, <1>12,
     <1>13 DEF Next, Step

(* The inductive invariant holds in every state of every engine.            *)
THEOREM EngineInvariant == Spec => []IInv
<1>1. Init => IInv
  BY InitIInv
<1>2. IInv /\ [Next]_vars => IInv'
  BY NextIInv DEF Keeps
<1>3. QED
  BY <1>1, <1>2, PTL DEF Spec

(* Whatever becomes of an order - it trades, rests, waits armed, is canceled *)
(* or refused - nothing ever changes what it is: id, user, side, type, time  *)
(* in force, prices and quantity stay as they were submitted, for every      *)
(* object that shares the pointer, and no order is forgotten.                *)
THEOREM TermsKept == Spec => [][Grows(order, order')]_vars
<1>1. IInv /\ [Next]_vars => Grows(order, order')
  BY NextIInv DEF Keeps
<1>2. QED
  BY <1>1, EngineInvariant, PTL DEF Spec

(* The engine's state has its types in every state: what the stack, the     *)
(* queues and the stop maps refer to is in the heap, levels are finite in    *)
(* number and not empty, and an order that may rest names its price.        *)
THEOREM TypeCorrect == Spec => []TypeOK
<1>1. IInv => TypeOK
  BY DEF IInv
<1>2. QED
  BY <1>1, EngineInvariant, PTL

(* The best bid is below the best ask at every moment, also in the middle of *)
(* a call and of the calls nested in it.                                    *)
THEOREM NeverCrossed == Spec => []BookNotCrossed
<1>1. IInv => BookNotCrossed
  BY DEF IInv
<1>2. QED
  BY <1>1, EngineInvariant, PTL
-----------------------------------------------------------------------------
(* What the actions do, step by step, as the later invariants need it.      *)

LEMMA PushParts ==
    ASSUME NEW f, NEW S, NEW rest \in Seq(S)
    PROVE  /\ Head(<<f>> \o rest) = f
           /\ Tail(<<f>> \o rest) = rest
           /\ <<f>> \o rest # <<>>
           /\ Len(<<f>> \o rest) = Len(rest) + 1
           /\ \A i \in 1 .. Len(rest) + 1 :
                 (<<f>> \o rest)[i] = IF i = 1 THEN f ELSE rest[i - 1]
<1> DEFINE T == S \cup {f}
           s == <<f>> \o rest
<1>1. rest \in Seq(T) /\ <<f>> \in Seq(T) /\ Len(<<f>>) = 1 /\ <<f>>[1] = f
  <2>1. rest \in Seq(T)
    BY SeqMonotonic
  <2>2. QED
    BY <2>1
<1>2. /\ s \in Seq(T) /\ Len(s) = Len(rest) + 1
      /\ \A i \in 1 .. Len(rest) + 1 : s[i] = IF i = 1 THEN f ELSE rest[i - 1]
  BY <1>1, ConcatProperties, Len(rest) \in Nat
<1> HIDE DEF s
<1>3. s # <<>> /\ Head(s) = f
  BY <1>2
<1>4. Tail(s) = rest
  <2>1. Tail(s) \in Seq(T) /\ Len(Tail(s)) = Len(rest)
    BY <1>2, <1>3, HeadTailProperties
  <2>2. \A i \in 1 .. Len(rest) : Tail(s)[i] = s[i + 1]
    BY <1>2, <1>3, <2>1, HeadTailProperties
  <2>3. \A i \in 1 .. Len(rest) : Tail(s)[i] = rest[i]
    BY <1>2, <2>2
  <2>4. QED
    BY <1>1, <2>1, <2>3, SeqEqual
<1>5. QED
  BY <1>2, <1>3, <1>4 DEF s

\* The record Submit makes of a form.
NewOrder(f, id) ==
    [id |-> id, user |-> f.user, side |-> f.side, type |-> f.type,
     tif |-> f.tif, price |-> f.price, stop |-> f.stop, qty |-> f.qty,
     visible |-> f.visible, filled |-> 0, status |-> "NEW",
     root |-> Len(order) + 1, done |-> 0]

\* The heap once order o has entered, and with it the slice of an iceberg that
\* gets as far as its matching loop; what waits for it.
Entered(o) ==
    IF o.type = "iceberg" /\ ~ paused
    THEN Append(Append(order, o), VisibleOrder(o)) ELSE Append(order, o)

Waiting(o, rest) ==
    IF o.type = "iceberg" /\ ~ paused
    THEN <<IcebergFrame(Len(order) + 1, Len(order) + 2)>> \o rest ELSE rest

\* Order o enters: its matching loop starts, or it is rejected.
Enters(o, rest) ==
    LET heap == Entered(o)
        r == Len(heap)
    IN  \/ /\ heap[r].type \in {"limit", "market"}
           /\ order' = heap
           /\ stack' = <<MatchFrame(r, heap[r].qty, NoPrice)>> \o Waiting(o, rest)
        \/ /\ order' = [heap EXCEPT ![r].status = "REJECTED"]
           /\ stack' = Waiting(o, rest)

LEMMA ExecuteEnters ==
    ASSUME order \in Seq(PricedOrder), NEW o \in PricedOrder, NEW rest,
           o.type = "iceberg" => VisibleOrder(o) \in PricedOrder,
           Execute(Append(order, o), Len(order) + 1, rest)
    PROVE  Enters(o, rest)
<1> DEFINE r == Len(order) + 1
           h == Append(order, o)
           v == VisibleOrder(o)
<1>1. h \in Seq(PricedOrder) /\ Len(h) = r /\ h[r] = o
  BY HeapAppend
<1> HIDE DEF h
<1>2. CASE ~ (o.type = "iceberg" /\ ~ paused)
  <2>1. Entered(o) = h /\ Waiting(o, rest) = rest
    BY <1>2 DEF Entered, Waiting, h
  <2>2. \/ order' = [h EXCEPT ![r].status = "REJECTED"] /\ stack' = rest
        \/ /\ o.type \in {"limit", "market"} /\ order' = h
           /\ stack' = <<MatchFrame(r, o.qty, NoPrice)>> \o rest
    BY <1>1, <1>2 DEF Execute, EnterLimit, ReturnWith, h
  <2>3. QED
    BY <1>1, <2>1, <2>2 DEF Enters
<1>3. CASE o.type = "iceberg" /\ ~ paused
  <2> DEFINE new == Append(h, v)
             below == <<IcebergFrame(r, r + 1)>> \o rest
  <2>1. EnterLimit(new, r + 1, below)
    BY <1>1, <1>3 DEF Execute, h
  <2>2. new \in Seq(PricedOrder) /\ Len(new) = r + 1 /\ new[r + 1] = v
    BY <1>1, <1>3, HeapAppend
  <2>3. v.type = "limit"
    BY DEF VisibleOrder, PricedOrder, Order
  <2>4. Entered(o) = new /\ Waiting(o, rest) = below
    BY <1>3 DEF Entered, Waiting, h
  <2> HIDE DEF new, below, v
  <2>5. \/ order' = [new EXCEPT ![r + 1].status = "REJECTED"] /\ stack' = below
        \/ /\ order' = new
           /\ stack' = <<MatchFrame(r + 1, v.qty, NoPrice)>> \o below
    BY <2>1, <2>2 DEF EnterLimit, ReturnWith
  <2>6. QED
    BY <2>2, <2>3, <2>4, <2>5 DEF Enters
<1>4. QED
  BY <1>2, <1>3

(* A submission enters, or is armed.                                        *)
LEMMA SubmitEffect ==
    ASSUME IInv, NEW f \in Forms, NEW id \in {"client"} \X ClientIDs, Submit(f, id)
    PROVE  /\ NewOrder(f, id) \in PricedOrder
           /\ Idle
           /\ FreshIDs => \A k \in DOMAIN order : order[k].id # id
           /\ f.type = "iceberg" => VisibleOrder(NewOrder(f, id)) \in PricedOrder
           /\ \/ Enters(NewOrder(f, id), <<>>) /\ UNCHANGED stopVars
              \/ /\ f.type \in {"stop_loss", "take_profit"}
                 /\ order' = Append(order, NewOrder(f, id))
                 /\ ArmStop(NewOrder(f, id), Len(order) + 1)
                 /\ stack' = <<>>
           /\ UNCHANGED <<bookVars, paused, tradePrice>>
<1> DEFINE r == Len(order) + 1
           o == NewOrder(f, id)
           h == Append(order, o)
<1>1. order \in Seq(PricedOrder)
  BY TypeParts DEF IInv
<1>2. /\ ProcessOrder(h, r, <<>>) /\ Idle
      /\ FreshIDs => \A k \in DOMAIN order : order[k].id # id
      /\ UNCHANGED <<bookVars, paused, tradePrice>>
  BY DEF Submit, NewOrder
<1>3. o \in PricedOrder
  <2>1. f \in Form /\ (f.type \in {"limit", "iceberg"} => f.price \in Prices)
    BY FormsAssumption
  <2>2. id \in OrderIDs
    BY DEF OrderIDs
  <2>3. r \in Ref
    BY <1>1 DEF Ref
  <2> HIDE DEF r
  <2>4. QED
    BY <2>1, <2>2, <2>3 DEF NewOrder, PricedOrder, Order, Form, Statuses, r
<1>4. o.id = id /\ o.filled = 0 /\ o.type = f.type /\ o.status = "NEW"
  BY DEF NewOrder
<1> HIDE DEF o
<1>5. f.type = "iceberg" => VisibleOrder(o) \in PricedOrder
  BY <1>3, <1>4, VisibleOrderType
<1>6. h \in Seq(PricedOrder) /\ h[r] = o /\ r \in DOMAIN h
  BY <1>1, <1>3, HeapAppend
<1>7. CASE Execute(h, r, <<>>) /\ UNCHANGED stopVars
  BY <1>1, <1>2, <1>3, <1>4, <1>5, <1>7, ExecuteEnters DEF o
<1>8. CASE /\ h[r].type \in {"stop_loss", "take_profit"}
           /\ ArmStop(h[r], r) /\ ReturnWith(h, r, "NEW", <<>>)
  <2>1. [o EXCEPT !.status = "NEW"] = o
    BY <1>3, <1>4 DEF PricedOrder, Order
  <2>2. [h EXCEPT ![r] = o] = h
    <3> HIDE DEF h, r
    <3>1. QED
      BY <1>6
  <2>3. [h EXCEPT ![r].status = "NEW"] = [h EXCEPT ![r] = [h[r] EXCEPT !.status = "NEW"]]
    OBVIOUS
  <2>4. order' = h
    BY <1>6, <1>8, <2>1, <2>2, <2>3 DEF ReturnWith
  <2>5. stack' = <<>>
    BY <1>8 DEF ReturnWith
  <2>6. QED
    BY <1>2, <1>3, <1>4, <1>5, <1>6, <1>8, <2>4, <2>5 DEF o, h
<1>9. QED
  BY <1>2, <1>7, <1>8 DEF ProcessOrder

(* The head of the stack, typed.                                            *)
LEMMA HeadTyped ==
    ASSUME IInv, ~ Idle
    PROVE  /\ order \in Seq(PricedOrder)
           /\ Head(stack) \in Frame(order) /\ Tail(stack) \in Seq(Frame(order))
           /\ stack = <<Head(stack)>> \o Tail(stack)
<1>1. order \in Seq(PricedOrder) /\ stack \in Seq(Frame(order)) /\ stack # <<>>
  BY TypeParts DEF IInv, Idle
<1>2. QED
  BY <1>1, HeadTailProperties

\* The loop over the stops after it came to an entry.
Visited(id) ==
    LET f == Head(stack)
    IN  TriggerFrame(f.price, f.map, (f.todo \cap Armed(f.map)) \ {id})

(* The loop over the stops triggers an entry or passes over it.             *)
LEMMA VisitEffect ==
    ASSUME IInv, VisitStop
    PROVE  LET f == Head(stack)
           IN  /\ ~ Idle /\ f.op = "triggers"
               /\ \E id \in f.todo \cap Armed(f.map) :
                     LET r == StopMap(f.map)[id]
                         o == Triggered(order[r], Len(order) + 1)
                     IN  /\ r \in DOMAIN order
                         /\ \/ /\ Reached(f.map, order[r], f.price)
                               /\ DisarmStop(id)
                               /\ o \in PricedOrder /\ o.type \in {"limit", "market"}
                               /\ Enters(o, <<Visited(id)>> \o Tail(stack))
                            \/ /\ ~ Reached(f.map, order[r], f.price)
                               /\ stack' = <<Visited(id)>> \o Tail(stack)
                               /\ UNCHANGED <<order, stopVars>>
               /\ UNCHANGED <<bookVars, paused, tradePrice>>
<1> DEFINE f == Head(stack)
           left == f.todo \cap Armed(f.map)
           after(id) == <<TriggerFrame(f.price, f.map, left \ {id})>> \o Tail(stack)
<1>1. ~ Idle /\ f.op = "triggers"
  BY DEF VisitStop
<1>2. order \in Seq(PricedOrder) /\ f \in Frame(order) /\ StopsTyped
  BY <1>1, HeadTyped, TypeParts DEF IInv
<1>3. f.map \in {"rise", "fall"}
  BY <1>1, <1>2 DEF Frame
<1>4. PICK id \in left :
         \/ /\ Reached(f.map, order[StopMap(f.map)[id]], f.price)
            /\ TriggerOrder(id, StopMap(f.map)[id], after(id))
         \/ /\ ~ Reached(f.map, order[StopMap(f.map)[id]], f.price)
            /\ stack' = after(id) /\ UNCHANGED <<order, stopVars>>
  BY DEF VisitStop
<1>5. UNCHANGED <<bookVars, paused, tradePrice>>
  BY DEF VisitStop
<1>6. after(id) = <<Visited(id)>> \o Tail(stack)
  BY DEF Visited
<1> DEFINE r == StopMap(f.map)[id]
           n == Len(order) + 1
           o == Triggered(order[r], n)
<1>7. r \in DOMAIN order
  BY <1>2, <1>3, <1>4 DEF Armed, StopMap, StopsTyped, Index
<1>8. order[r] \in PricedOrder /\ n \in Nat \ {0}
  BY <1>2, <1>7, ElementOfSeq
<1>9. o \in PricedOrder /\ o.type \in {"limit", "market"}
  <2>1. o \in PricedOrder
    BY <1>8, TriggeredType
  <2>2. o.type \in {"limit", "market"}
    BY <1>8 DEF Triggered, PricedOrder, Order
  <2>3. QED
    BY <2>1, <2>2
<1>10. CASE TriggerOrder(id, r, after(id))
  <2>1. DisarmStop(id) /\ Execute(Append(order, o), n, after(id))
    BY <1>10 DEF TriggerOrder
  <2>2. Enters(o, after(id))
    BY <1>2, <1>9, <2>1, ExecuteEnters
  <2>3. QED
    BY <1>1, <1>4, <1>5, <1>6, <1>7, <1>9, <2>1, <2>2
<1>11. QED
  BY <1>1, <1>4, <1>5, <1>6, <1>7, <1>10

-----------------------------------------------------------------------------
(* The stack's shape.                                                       *)

\* Frames that wait for a nested call.
Nested(s) == \A i \in DOMAIN s : s[i].op \in {"iceberg", "triggers"}

\* Only the innermost frame matches, and a cancellation nests nothing.
Shape ==
    ~ Idle => /\ Nested(Tail(stack))
              /\ Head(stack).op = "cancel" => Tail(stack) = <<>>

\* The loop in progress.
Matches == ~ Idle /\ Head(stack).op = "match"

LEMMA NestedPush ==
    ASSUME NEW f, f.op \in {"iceberg", "triggers"}, NEW S, NEW rest \in Seq(S),
           Nested(rest)
    PROVE  Nested(<<f>> \o rest)
<1> DEFINE s == <<f>> \o rest
<1>1. /\ Len(s) = Len(rest) + 1
      /\ \A i \in 1 .. Len(rest) + 1 : s[i] = IF i = 1 THEN f ELSE rest[i - 1]
  BY PushParts
<1>2. DOMAIN s = 1 .. Len(rest) + 1
  <2>1. s \in Seq(S \cup {f})
    BY SeqMonotonic, ConcatProperties
  <2>2. QED
    BY <1>1, <2>1
<1>3. Len(rest) \in Nat /\ DOMAIN rest = 1 .. Len(rest)
  OBVIOUS
<1> HIDE DEF s
<1>4. ASSUME NEW i \in DOMAIN s PROVE s[i].op \in {"iceberg", "triggers"}
  <2>1. CASE i = 1
    BY <1>1, <1>2, <2>1
  <2>2. CASE i # 1
    <3>1. i - 1 \in DOMAIN rest /\ s[i] = rest[i - 1]
      BY <1>1, <1>2, <1>3, <2>2
    <3>2. QED
      BY <3>1 DEF Nested
  <2>3. QED
    BY <2>1, <2>2
<1>5. QED
  BY <1>4 DEF Nested, s

\* A stack that nests, seen from its head.
LEMMA NestedParts ==
    ASSUME NEW S, NEW s \in Seq(S), s # <<>>, Nested(s)
    PROVE  Nested(Tail(s)) /\ Head(s).op \in {"iceberg", "triggers"}
BY HeadTailProperties DEF Nested

(* Where a call stands after a step, when frame f went on top of `rest`.    *)
LEMMA ShapePush ==
    ASSUME NEW f, NEW S, NEW rest \in Seq(S), Nested(rest),
           f.op = "cancel" => rest = <<>>, stack' = <<f>> \o rest
    PROVE  Shape'
<1>1. /\ stack' # <<>> /\ Head(stack') = f /\ Tail(stack') = rest
  BY PushParts
<1>2. QED
  BY <1>1 DEF Shape, Idle

LEMMA ShapePop ==
    ASSUME NEW S, NEW rest \in Seq(S), Nested(rest), stack' = rest
    PROVE  Shape'
<1>1. CASE rest = <<>>
  BY <1>1 DEF Shape, Idle
<1>2. CASE rest # <<>>
  BY <1>2, NestedParts DEF Shape, Idle
<1>3. QED
  BY <1>1, <1>2

\* The frames that wait for an order that entered.
LEMMA WaitingNested ==
    ASSUME NEW o, NEW S, NEW rest \in Seq(S), Nested(rest)
    PROVE  /\ Nested(Waiting(o, rest))
           /\ \E T : Waiting(o, rest) \in Seq(T)
<1> DEFINE f == IcebergFrame(Len(order) + 1, Len(order) + 2)
<1>1. f.op = "iceberg"
  BY DEF IcebergFrame
<1> HIDE DEF f
<1>2. Nested(<<f>> \o rest)
  BY <1>1, NestedPush
<1>3. <<f>> \o rest \in Seq(S \cup {f})
  <2>1. rest \in Seq(S \cup {f}) /\ <<f>> \in Seq(S \cup {f})
    BY SeqMonotonic
  <2>2. QED
    BY <2>1, ConcatProperties
<1>4. QED
  BY <1>2, <1>3 DEF Waiting, f

LEMMA EntersShape ==
    ASSUME NEW o, NEW S, NEW rest \in Seq(S), Nested(rest), Enters(o, rest)
    PROVE  Shape'
<1>1. PICK T : Nested(Waiting(o, rest)) /\ Waiting(o, rest) \in Seq(T)
  BY WaitingNested
<1>2. \/ stack' = Waiting(o, rest)
      \/ \E f : f.op = "match" /\ stack' = <<f>> \o Waiting(o, rest)
  BY DEF Enters, MatchFrame
<1>3. QED
  BY <1>1, <1>2, ShapePop, ShapePush

LEMMA ShapeKeeps == IInv /\ Shape /\ [Next]_vars => Shape'
<1> SUFFICES ASSUME IInv, Shape, [Next]_vars PROVE Shape'
  OBVIOUS
<1> DEFINE f == Head(stack)
           below == Tail(stack)
           S == Frame(order)
<1>1. ~ Idle => /\ below \in Seq(S) /\ Nested(below)
                /\ f.op = "cancel" => below = <<>>
  BY HeadTyped DEF Shape
<1>2. <<>> \in Seq(S) /\ Nested(<<>>)
  BY DEF Nested
<1>3. ASSUME NEW g, g.op = f.op \/ (g.op # "cancel"), ~ Idle,
             stack' = <<g>> \o below
      PROVE  Shape'
  BY <1>1, <1>3, ShapePush
<1>4. ASSUME ~ Idle, stack' = below PROVE Shape'
  BY <1>1, <1>4, ShapePop
<1>5. ASSUME NEW h \in Forms, NEW id \in {"client"} \X ClientIDs, Submit(h, id)
      PROVE  Shape'
  <2>1. Enters(NewOrder(h, id), <<>>) \/ stack' = <<>>
    BY <1>5, SubmitEffect
  <2>2. QED
    BY <1>2, <2>1, EntersShape, ShapePop
<1>6. ASSUME NEW id, Cancel(id) PROVE Shape'
  BY <1>6 DEF Cancel, Shape, Idle
<1>7. ASSUME NEW user \in Users, CancelAll(user) PROVE Shape'
  BY <1>7 DEF CancelAll, Shape, Idle, Nested
<1>8. CASE MatchStep
  <2>1. CASE UNCHANGED vars
    BY <2>1 DEF vars, Shape, Idle
  <2>2. CASE \E rem, p : stack' = <<MatchFrame(f.taker, rem, p)>> \o below
    BY <1>3, <1>8, <2>2 DEF MatchFrame, MatchStep
  <2>3. QED
    BY <1>8, <2>1, <2>2 DEF MatchStep
<1>9. CASE FinishMatch
  <2>1. ~ Idle
    BY <1>9 DEF FinishMatch
  <2>2. \/ stack' = <<TriggerFrame(f.last, "rise", Armed("rise"))>> \o below
        \/ stack' = below
    BY <1>9 DEF FinishMatch
  <2>3. TriggerFrame(f.last, "rise", Armed("rise")).op = "triggers"
    BY DEF TriggerFrame
  <2>4. QED
    BY <1>3, <1>4, <2>1, <2>2, <2>3
<1>10. CASE FinishIceberg
  BY <1>4, <1>10 DEF FinishIceberg
<1>11. CASE VisitStop
  <2>1. ~ Idle
    BY <1>11, VisitEffect
  <2>2. PICK id : \/ stack' = <<Visited(id)>> \o below
                  \/ \E o : Enters(o, <<Visited(id)>> \o below)
    BY <1>11, VisitEffect
  <2> DEFINE g == Visited(id)
  <2>3. g.op = "triggers"
    BY DEF Visited, TriggerFrame
  <2> HIDE DEF g
  <2>4. CASE stack' = <<g>> \o below
    <3>1. g.op # "cancel"
      BY <2>3
    <3>2. QED
      BY <1>3, <2>1, <3>1, <2>4
  <2>5. ASSUME NEW o, Enters(o, <<g>> \o below) PROVE Shape'
    <3>1. Nested(<<g>> \o below)
      <4>1. below \in Seq(S) /\ Nested(below) /\ g.op \in {"iceberg", "triggers"}
        BY <1>1, <2>1, <2>3
      <4> HIDE DEF below, S
      <4>2. QED
        BY <4>1, NestedPush
    <3>2. <<g>> \o below \in Seq(S \cup {g})
      <4>1. below \in Seq(S \cup {g}) /\ <<g>> \in Seq(S \cup {g})
        BY <1>1, <2>1, SeqMonotonic
      <4>2. QED
        BY <4>1, ConcatProperties
    <3>3. QED
      BY <2>5, <3>1, <3>2, EntersShape
  <2>6. QED
    BY <2>2, <2>4, <2>5 DEF g
<1>12. CASE EndRange
  <2>1. ~ Idle
    BY <1>12 DEF EndRange
  <2>2. \/ stack' = <<TriggerFrame(f.price, "fall", Armed("fall"))>> \o below
        \/ stack' = below
    BY <1>12 DEF EndRange
  <2>3. TriggerFrame(f.price, "fall", Armed("fall")).op = "triggers"
    BY DEF TriggerFrame
  <2>4. QED
    BY <1>3, <1>4, <2>1, <2>2, <2>3
<1>13. CASE CancelNext
  <2>1. ~ Idle /\ f.op = "cancel"
    BY <1>13 DEF CancelNext
  <2>2. \E id : stack' = <<CancelFrame(f.user, f.map, f.todo \ {id})>> \o below
    BY <1>13 DEF CancelNext
  <2>3. \A user, map, todo : CancelFrame(user, map, todo).op = "cancel"
    BY DEF CancelFrame
  <2>4. QED
    BY <1>3, <2>1, <2>2, <2>3
<1>14. CASE EndCancel
  <2>1. ~ Idle /\ f.op = "cancel"
    BY <1>14 DEF EndCancel
  <2>2. \/ \E user, map, todo : stack' = <<CancelFrame(user, map, todo)>> \o below
        \/ stack' = below
    BY <1>14 DEF EndCancel
  <2>3. \A user, map, todo : CancelFrame(user, map, todo).op = "cancel"
    BY DEF CancelFrame
  <2>4. QED
    BY <1>3, <1>4, <2>1, <2>2, <2>3
<1>15. CASE UNCHANGED stack
  BY <1>15 DEF Shape, Idle
<1>16. QED
  BY <1>5, <1>6, <1>7, <1>8, <1>9, <1>10, <1>11, <1>12, <1>13, <1>14, <1>15
     DEF Next, Step, Pause, Resume, vars

LEMMA ShapeAlways == Spec => [](IInv /\ Shape)
<1>1. Init => Shape
  BY DEF Init, Shape, Idle
<1>2. QED
  BY <1>1, ShapeKeeps, EngineInvariant, PTL DEF Spec

-----------------------------------------------------------------------------
(* The heap after a step, order by order.                                   *)

\* Order b is order a but for its status.
Renewed(a, b) == SameTerms(a, b) /\ b.filled = a.filled /\ b.done = a.done

LEMMA SameLength ==
    ASSUME NEW S, NEW T, NEW s \in Seq(S), NEW t \in Seq(T), DOMAIN s = DOMAIN t
    PROVE  Len(s) = Len(t)
<1>1. ASSUME NEW m \in Nat, NEW n \in Nat, 1 .. m = 1 .. n PROVE m = n
  <2>1. ~ (m < n)
    <3>1. m < n => n \in 1 .. n /\ n \notin 1 .. m
      OBVIOUS
    <3>2. QED
      BY <1>1, <3>1
  <2>2. ~ (n < m)
    <3>1. n < m => m \in 1 .. m /\ m \notin 1 .. n
      OBVIOUS
    <3>2. QED
      BY <1>1, <3>1
  <2>3. QED
    BY <2>1, <2>2
<1>2. Len(s) \in Nat /\ Len(t) \in Nat /\ 1 .. Len(s) = 1 .. Len(t)
  OBVIOUS
<1>3. QED
  BY <1>1, <1>2

\* One order of a heap is replaced.
LEMMA ElementView ==
    ASSUME NEW heap \in Seq(PricedOrder), NEW r \in DOMAIN heap, NEW o, NEW new,
           new = [heap EXCEPT ![r] = o]
    PROVE  /\ DOMAIN new = DOMAIN heap /\ new[r] = o
           /\ \A k \in DOMAIN heap : k # r => new[k] = heap[k]
OBVIOUS

LEMMA StatusView ==
    ASSUME NEW heap \in Seq(PricedOrder), NEW r \in DOMAIN heap,
           NEW v \in Statuses, NEW new, new = [heap EXCEPT ![r].status = v]
    PROVE  /\ DOMAIN new = DOMAIN heap
           /\ \A k \in DOMAIN heap : k # r => new[k] = heap[k]
           /\ Renewed(heap[r], new[r]) /\ new[r].status = v
<1> DEFINE o == [heap[r] EXCEPT !.status = v]
<1>1. heap[r] \in PricedOrder
  BY ElementOfSeq
<1>2. Renewed(heap[r], o) /\ o.status = v
  BY <1>1 DEF Renewed, SameTerms, PricedOrder, Order
<1>3. new = [heap EXCEPT ![r] = o]
  OBVIOUS
<1> HIDE DEF o
<1>4. QED
  BY <1>2, <1>3, ElementView

LEMMA FilledView ==
    ASSUME NEW heap \in Seq(PricedOrder), NEW r \in DOMAIN heap, NEW v, NEW new,
           new = [heap EXCEPT ![r].filled = v]
    PROVE  /\ DOMAIN new = DOMAIN heap
           /\ \A k \in DOMAIN heap : k # r => new[k] = heap[k]
           /\ new[r].filled = v
           /\ new[r].done = heap[r].done /\ new[r].status = heap[r].status
<1> DEFINE o == [heap[r] EXCEPT !.filled = v]
<1>1. heap[r] \in PricedOrder
  BY ElementOfSeq
<1>2. o.filled = v /\ o.done = heap[r].done /\ o.status = heap[r].status
  BY <1>1 DEF PricedOrder, Order
<1>3. new = [heap EXCEPT ![r] = o]
  OBVIOUS
<1> HIDE DEF o
<1>4. QED
  BY <1>2, <1>3, ElementView

LEMMA DoneView ==
    ASSUME NEW heap \in Seq(PricedOrder), NEW r \in DOMAIN heap, NEW v, NEW new,
           new = [heap EXCEPT ![r].done = v]
    PROVE  /\ DOMAIN new = DOMAIN heap
           /\ \A k \in DOMAIN heap : k # r => new[k] = heap[k]
           /\ new[r].done = v
           /\ new[r].filled = heap[r].filled /\ new[r].status = heap[r].status
<1> DEFINE o == [heap[r] EXCEPT !.done = v]
<1>1. heap[r] \in PricedOrder
  BY ElementOfSeq
<1>2. o.done = v /\ o.filled = heap[r].filled /\ o.status = heap[r].status
  BY <1>1 DEF PricedOrder, Order
<1>3. new = [heap EXCEPT ![r] = o]
  OBVIOUS
<1> HIDE DEF o
<1>4. QED
  BY <1>2, <1>3, ElementView

(* What enters is a new object at the end of the heap - two for an iceberg - *)
(* and the other orders stay as they are.                                   *)
LEMMA EntersView ==
    ASSUME order \in Seq(PricedOrder), NEW o \in PricedOrder, NEW rest,
           o.type = "iceberg" => VisibleOrder(o) \in PricedOrder, Enters(o, rest)
    PROVE  LET n == Len(order) + 1
               sliced == o.type = "iceberg" /\ ~ paused
               last == IF sliced THEN n + 1 ELSE n
           IN  /\ order' \in Seq(PricedOrder) /\ Len(order') = last
               /\ DOMAIN order' = 1 .. last
               /\ \A k \in DOMAIN order : order'[k] = order[k]
               /\ Renewed(o, order'[n])
               /\ sliced => Renewed(VisibleOrder(o), order'[last])
               /\ \/ /\ order'[last].type \in {"limit", "market"}
                     /\ stack' = <<MatchFrame(last, order'[last].qty, NoPrice)>>
                                    \o Waiting(o, rest)
                  \/ /\ order'[last].status = "REJECTED"
                     /\ stack' = Waiting(o, rest)
<1> DEFINE n == Len(order) + 1
           sliced == o.type = "iceberg" /\ ~ paused
           v == VisibleOrder(o)
           h == Append(order, o)
           new == IF sliced THEN Append(h, v) ELSE h
           last == IF sliced THEN n + 1 ELSE n
<1>1. /\ h \in Seq(PricedOrder) /\ Len(h) = n /\ h[n] = o /\ n \in Nat
      /\ \A k \in DOMAIN order : h[k] = order[k]
  BY HeapAppend, AppendProperties
<1>2. \A a : Renewed(a, a)
  BY DEF Renewed, SameTerms
<1> HIDE DEF v
<1>3. /\ new \in Seq(PricedOrder) /\ Len(new) = last
      /\ \A k \in DOMAIN order : new[k] = order[k]
      /\ new[n] = o /\ (sliced => new[last] = v)
  <2>1. CASE ~ sliced
    <3>1. new = h /\ last = n
      BY <2>1
    <3>2. QED
      BY <1>1, <2>1, <3>1
  <2>2. CASE sliced
    <3>1. v \in PricedOrder
      BY <2>2 DEF v
    <3>2. new = Append(h, v) /\ last = n + 1
      BY <2>2
    <3> HIDE DEF h, n
    <3>3. /\ new \in Seq(PricedOrder) /\ Len(new) = n + 1 /\ new[n + 1] = v
          /\ \A k \in 1 .. n : new[k] = h[k]
      BY <1>1, <3>1, <3>2, HeapAppend, AppendProperties
    <3>4. n \in 1 .. n /\ \A k \in DOMAIN order : k \in 1 .. n
      BY <1>1 DEF n
    <3>5. QED
      BY <1>1, <3>2, <3>3, <3>4
  <2>3. QED
    BY <2>1, <2>2
<1>4. Entered(o) = new
  BY DEF Entered, v
<1>5. last \in Nat \ {0} /\ n \in 1 .. last /\ DOMAIN new = 1 .. last
      /\ \A k \in DOMAIN order : k \in 1 .. last /\ k # last
  BY <1>1, <1>3
<1> HIDE DEF new, h, n, last, sliced
<1>6. CASE /\ new[last].type \in {"limit", "market"}
           /\ order' = new
           /\ stack' = <<MatchFrame(last, new[last].qty, NoPrice)>> \o Waiting(o, rest)
  BY <1>2, <1>3, <1>5, <1>6 DEF v, n, last, sliced
<1>7. CASE /\ order' = [new EXCEPT ![last].status = "REJECTED"]
           /\ stack' = Waiting(o, rest)
  <2> DEFINE heap == [new EXCEPT ![last].status = "REJECTED"]
  <2>1. /\ DOMAIN heap = DOMAIN new
        /\ \A k \in DOMAIN new : k # last => heap[k] = new[k]
        /\ Renewed(new[last], heap[last]) /\ heap[last].status = "REJECTED"
    <3>1. heap = [new EXCEPT ![last].status = "REJECTED"]
      OBVIOUS
    <3>2. new \in Seq(PricedOrder) /\ last \in DOMAIN new /\ "REJECTED" \in Statuses
      BY <1>3, <1>5 DEF Statuses
    <3> HIDE DEF heap
    <3>3. QED
      BY ONLY <3>1, <3>2, StatusView, SMTT(60)
  <2>2. heap \in Seq(PricedOrder)
    BY <1>3, SetStatus DEF Statuses
  <2>3. Len(heap) = last
    BY <1>3, <2>1, <2>2, SameLength
  <2>4. Renewed(o, heap[n])
    <3>1. CASE n = last
      BY <1>3, <2>1, <3>1
    <3>2. CASE n # last
      BY <1>2, <1>3, <1>5, <2>1, <3>2
    <3>3. QED
      BY <3>1, <3>2
  <2> HIDE DEF heap
  <2>5. order' = heap
    BY <1>7 DEF heap
  <2>6. QED
    BY <1>3, <1>5, <1>7, <2>1, <2>2, <2>3, <2>4, <2>5 DEF v, n, last, sliced
<1>8. QED
  BY <1>3, <1>4, <1>6, <1>7 DEF Enters

(* A trade moves q from what is left of the maker to what was executed for   *)
(* the two submissions.                                                     *)
LEMMA TradeView ==
    ASSUME order \in Seq(PricedOrder), NEW taker \in DOMAIN order,
           NEW maker \in DOMAIN order, NEW q \in Nat,
           order[maker].root \in DOMAIN order, order[taker].root \in DOMAIN order,
           order' = AfterTrade(taker, maker, q)
    PROVE  /\ order' \in Seq(PricedOrder) /\ DOMAIN order' = DOMAIN order
           /\ Len(order') = Len(order) /\ Grows(order, order')
           /\ \A k \in DOMAIN order :
                 /\ order'[k].filled = IF k = maker THEN order[k].filled + q
                                       ELSE order[k].filled
                 /\ order'[k].status =
                       IF k = maker
                       THEN IF order[k].filled + q >= order[k].qty
                            THEN "FILLED" ELSE "PARTIALLY_FILLED"
                       ELSE order[k].status
                 /\ order'[k].done = order[k].done
                       + (IF k = order[maker].root THEN q ELSE 0)
                       + (IF k = order[taker].root THEN q ELSE 0)
<1> DEFINE filled == order[maker].filled + q
           st == IF filled >= order[maker].qty THEN "FILLED" ELSE "PARTIALLY_FILLED"
           mr == order[maker].root
           tr == order[taker].root
           h1 == [order EXCEPT ![maker].filled = filled]
           h2 == [h1 EXCEPT ![maker].status = st]
           h3 == [h2 EXCEPT ![mr].done = h2[mr].done + q]
           h4 == [h3 EXCEPT ![tr].done = h3[tr].done + q]
<1>1. order' = h4
  BY DEF AfterTrade
<1>2. order' \in Seq(PricedOrder) /\ Grows(order, order')
  BY TradeHeap
<1>3. filled \in Nat /\ st \in Statuses
  <2>1. order[maker] \in PricedOrder
    BY ElementOfSeq
  <2>2. order[maker].filled \in Nat
    BY <2>1 DEF PricedOrder, Order
  <2>3. st \in Statuses
    BY DEF Statuses
  <2> HIDE DEF st
  <2>4. QED
    BY <2>2, <2>3
<1>4. \A k \in DOMAIN order : order[k].done \in Nat
  <2>1. \A k \in DOMAIN order : order[k] \in PricedOrder
    BY ElementOfSeq
  <2>2. QED
    BY <2>1 DEF PricedOrder, Order
<1> HIDE DEF st, filled, mr, tr
<1>5. /\ h1 \in Seq(PricedOrder) /\ DOMAIN h1 = DOMAIN order
      /\ \A k \in DOMAIN order :
            /\ h1[k].filled = IF k = maker THEN filled ELSE order[k].filled
            /\ h1[k].status = order[k].status /\ h1[k].done = order[k].done
  <2>1. h1 \in Seq(PricedOrder) /\ h1 = [order EXCEPT ![maker].filled = filled]
    BY <1>3, SetFilled
  <2> HIDE DEF h1
  <2>2. QED
    BY <2>1, FilledView
<1> HIDE DEF h1
<1>6. /\ h2 \in Seq(PricedOrder) /\ DOMAIN h2 = DOMAIN order
      /\ \A k \in DOMAIN order :
            /\ h2[k].filled = h1[k].filled
            /\ h2[k].status = IF k = maker THEN st ELSE order[k].status
            /\ h2[k].done = order[k].done
  <2>1. h2 \in Seq(PricedOrder) /\ h2 = [h1 EXCEPT ![maker].status = st]
    BY <1>3, <1>5, SetStatus
  <2> HIDE DEF h2
  <2>2. maker \in DOMAIN h1
    BY <1>5
  <2>3. /\ DOMAIN h2 = DOMAIN h1
        /\ \A k \in DOMAIN h1 : k # maker => h2[k] = h1[k]
        /\ Renewed(h1[maker], h2[maker]) /\ h2[maker].status = st
    BY ONLY <1>3, <1>5, <2>1, <2>2, StatusView
  <2>4. QED
    BY <1>5, <2>1, <2>3 DEF Renewed
<1> HIDE DEF h2
<1>7. /\ h3 \in Seq(PricedOrder) /\ DOMAIN h3 = DOMAIN order
      /\ \A k \in DOMAIN order :
            /\ h3[k].filled = h1[k].filled
            /\ h3[k].status = h2[k].status
            /\ h3[k].done = order[k].done + (IF k = mr THEN q ELSE 0)
  <2>1. h3 \in Seq(PricedOrder) /\ h3 = [h2 EXCEPT ![mr].done = h2[mr].done + q]
    BY <1>6, AddDone
  <2>2. mr \in DOMAIN h2
    BY <1>6 DEF mr
  <2> HIDE DEF h3
  <2>3. /\ DOMAIN h3 = DOMAIN h2
        /\ \A k \in DOMAIN h2 : k # mr => h3[k] = h2[k]
        /\ h3[mr].done = h2[mr].done + q
        /\ h3[mr].filled = h2[mr].filled /\ h3[mr].status = h2[mr].status
    BY <1>6, <2>1, <2>2, DoneView
  <2>4. QED
    BY <1>4, <1>6, <2>1, <2>2, <2>3
<1> HIDE DEF h3
<1>8. /\ DOMAIN h4 = DOMAIN order
      /\ \A k \in DOMAIN order :
            /\ h4[k].filled = h1[k].filled
            /\ h4[k].status = h2[k].status
            /\ h4[k].done = order[k].done + (IF k = mr THEN q ELSE 0)
                                          + (IF k = tr THEN q ELSE 0)
  <2>1. h4 = [h3 EXCEPT ![tr].done = h3[tr].done + q]
    OBVIOUS
  <2>2. tr \in DOMAIN h3
    BY <1>7 DEF tr
  <2> HIDE DEF h4
  <2>3. /\ DOMAIN h4 = DOMAIN h3
        /\ \A k \in DOMAIN h3 : k # tr => h4[k] = h3[k]
        /\ h4[tr].done = h3[tr].done + q
        /\ h4[tr].filled = h3[tr].filled /\ h4[tr].status = h3[tr].status
    BY <1>7, <2>1, <2>2, DoneView
  <2>4. QED
    BY <1>4, <1>7, <2>1, <2>2, <2>3
<1> HIDE DEF h4
<1>9. Len(order') = Len(order)
  BY <1>1, <1>2, <1>8, SameLength
<1>10. QED
  BY <1>1, <1>2, <1>5, <1>6, <1>8, <1>9 DEF mr, tr, filled, st

(* A matching loop that ends settles its order; a rest joins the book, as a  *)
(* clone or itself.                                                         *)
LEMMA SettleView ==
    ASSUME order \in Seq(PricedOrder), NEW r \in DOMAIN order, NEW rem \in Nat,
           rem <= order[r].qty, SettleTaker(r, rem)
    PROVE  LET o == order[r]
               n == Len(order) + 1
           IN  /\ order' \in Seq(PricedOrder)
               /\ \A k \in DOMAIN order : k # r => order'[k] = order[k]
               /\ SameTerms(o, order'[r])
               /\ order'[r].filled = o.qty - rem
               /\ order'[r].status = Outcome(o, rem)
               /\ order'[r].done = o.done
               /\ \/ /\ Rests(o, rem) /\ rem < o.qty
                     /\ DOMAIN order' = DOMAIN order \cup {n} /\ Len(order') = n
                     /\ SameTerms([o EXCEPT !.qty = rem], order'[n])
                     /\ order'[n].filled = 0 /\ order'[n].done = o.done
                     /\ order'[n].status = Outcome(o, rem)
                     /\ AddOrder(n)
                  \/ /\ Rests(o, rem) /\ rem = o.qty
                     /\ DOMAIN order' = DOMAIN order /\ Len(order') = Len(order)
                     /\ AddOrder(r)
                  \/ /\ ~ Rests(o, rem)
                     /\ DOMAIN order' = DOMAIN order /\ Len(order') = Len(order)
                     /\ UNCHANGED <<level, orderIndex, userOrders, deltaBuffer>>
<1> DEFINE o == order[r]
           n == Len(order) + 1
           settled == [o EXCEPT !.filled = o.qty - rem, !.status = Outcome(o, rem)]
           heap == [order EXCEPT ![r] = settled]
           clone == RestOf(settled, rem)
<1>1. o \in PricedOrder
  BY ElementOfSeq
<1>2. settled \in PricedOrder /\ clone \in PricedOrder
  BY <1>1, Settled
<1>3. /\ SameTerms(o, settled) /\ settled.filled = o.qty - rem
      /\ settled.status = Outcome(o, rem) /\ settled.done = o.done
  BY <1>1 DEF SameTerms, PricedOrder, Order
<1>4. /\ SameTerms([o EXCEPT !.qty = rem], clone)
      /\ clone.filled = 0 /\ clone.status = Outcome(o, rem) /\ clone.done = o.done
  BY <1>1 DEF SameTerms, PricedOrder, Order, RestOf
<1>5. \/ /\ Rests(o, rem) /\ rem < o.qty
         /\ order' = Append(heap, clone)
         /\ AddOrder(Len(order'))
      \/ /\ Rests(o, rem) /\ rem = o.qty
         /\ order' = heap
         /\ AddOrder(r)
      \/ /\ ~ Rests(o, rem)
         /\ order' = heap
         /\ UNCHANGED <<level, orderIndex, userOrders, deltaBuffer>>
  BY DEF SettleTaker
<1> HIDE DEF settled, clone
<1>6. /\ heap \in Seq(PricedOrder) /\ DOMAIN heap = DOMAIN order
      /\ heap[r] = settled
      /\ \A k \in DOMAIN order : k # r => heap[k] = order[k]
  BY <1>2, ExceptSeq
<1> HIDE DEF heap
<1>7. Len(heap) = Len(order)
  BY <1>6, SameLength
<1>8. CASE order' = heap
  <2>1. Len(order') = Len(order) /\ DOMAIN order' = DOMAIN order
    BY <1>6, <1>7, <1>8
  <2>2. n # Len(order)
    BY Len(order) \in Nat
  <2>3. \/ Rests(o, rem) /\ rem = o.qty /\ AddOrder(r)
        \/ /\ ~ Rests(o, rem)
           /\ UNCHANGED <<level, orderIndex, userOrders, deltaBuffer>>
    <3>1. Append(heap, clone) # heap
      <4>1. Len(Append(heap, clone)) = Len(heap) + 1 /\ Len(heap) \in Nat
        BY <1>2, <1>6, HeapAppend
      <4>2. QED
        BY <4>1
    <3>2. QED
      BY <1>5, <1>8, <3>1
  <2>4. QED
    BY <1>3, <1>6, <1>8, <2>1, <2>3
<1>9. CASE /\ Rests(o, rem) /\ rem < o.qty
           /\ order' = Append(heap, clone)
           /\ AddOrder(Len(order'))
  <2>1. /\ order' \in Seq(PricedOrder) /\ Len(order') = n /\ order'[n] = clone
        /\ \A k \in DOMAIN heap : order'[k] = heap[k]
        /\ DOMAIN order' = 1 .. n
    BY <1>2, <1>6, <1>7, <1>9, HeapAppend, AppendProperties
  <2>2. DOMAIN order' = DOMAIN order \cup {n}
    BY <2>1
  <2>3. AddOrder(n)
    BY <1>9, <2>1
  <2>4. QED
    BY <1>3, <1>4, <1>6, <1>9, <2>1, <2>2, <2>3
<1>10. QED
  BY <1>5, <1>8, <1>9

(* One order is canceled.                                                   *)
LEMMA CancelView ==
    ASSUME order \in Seq(PricedOrder), NEW r \in DOMAIN order,
           order' = [order EXCEPT ![r].status = "CANCELED"]
    PROVE  /\ order' \in Seq(PricedOrder) /\ DOMAIN order' = DOMAIN order
           /\ Len(order') = Len(order) /\ Grows(order, order')
           /\ \A k \in DOMAIN order : k # r => order'[k] = order[k]
           /\ Renewed(order[r], order'[r]) /\ order'[r].status = "CANCELED"
<1> DEFINE heap == [order EXCEPT ![r].status = "CANCELED"]
<1>1. heap \in Seq(PricedOrder) /\ Grows(order, heap)
  BY SetStatus DEF Statuses
<1>2. /\ DOMAIN heap = DOMAIN order
      /\ \A k \in DOMAIN order : k # r => heap[k] = order[k]
      /\ Renewed(order[r], heap[r]) /\ heap[r].status = "CANCELED"
  <2>1. heap = [order EXCEPT ![r].status = "CANCELED"]
    OBVIOUS
  <2>2. "CANCELED" \in Statuses
    BY DEF Statuses
  <2> HIDE DEF heap
  <2>3. QED
    BY ONLY <2>1, <2>2, order \in Seq(PricedOrder), r \in DOMAIN order, StatusView
<1> HIDE DEF heap
<1>3. Len(heap) = Len(order)
  BY <1>1, <1>2, SameLength
<1>4. QED
  BY <1>1, <1>2, <1>3 DEF heap

(* An iceberg takes over the filled quantity and the status of its slice.   *)
LEMMA IcebergView ==
    ASSUME IInv, FinishIceberg
    PROVE  LET r == Head(stack).parent
           IN  /\ ~ Idle /\ Head(stack).op = "iceberg"
               /\ order' \in Seq(PricedOrder) /\ DOMAIN order' = DOMAIN order
               /\ Len(order') = Len(order) /\ Grows(order, order')
               /\ r \in DOMAIN order
               /\ \A k \in DOMAIN order : k # r => order'[k] = order[k]
               /\ order'[r].done = order[r].done
               /\ stack' = Tail(stack)
               /\ UNCHANGED <<bookVars, paused, stopVars, tradePrice>>
<1> DEFINE f == Head(stack)
           n == order[f.parent].filled + order[f.visible].filled
           st == order[f.visible].status
           heap == [order EXCEPT ![f.parent] =
                      [order[f.parent] EXCEPT !.filled = n, !.status = st]]
<1>1. ~ Idle /\ f.op = "iceberg" /\ order' = heap /\ stack' = Tail(stack)
      /\ UNCHANGED <<bookVars, paused, stopVars, tradePrice>>
  BY DEF FinishIceberg
<1>2. order \in Seq(PricedOrder) /\ f \in Frame(order)
  BY <1>1, HeadTyped
<1>3. f.parent \in DOMAIN order
  BY <1>1, <1>2 DEF Frame
<1>4. order' \in Seq(PricedOrder) /\ Grows(order, order')
  <2>1. IInv' /\ Grows(order, order')
    BY FinishIcebergKeeps DEF Keeps
  <2>2. QED
    BY <2>1, TypePartsAfter DEF IInv
<1>5. order[f.parent] \in PricedOrder
  BY <1>2, <1>3, ElementOfSeq
<1> HIDE DEF n, st
<1>6. [order[f.parent] EXCEPT !.filled = n, !.status = st].done = order[f.parent].done
  BY <1>5 DEF PricedOrder, Order
<1>7. /\ DOMAIN heap = DOMAIN order
      /\ \A k \in DOMAIN order : k # f.parent => heap[k] = order[k]
      /\ heap[f.parent].done = order[f.parent].done
  BY <1>3, <1>6
<1> HIDE DEF heap
<1>8. Len(order') = Len(order)
  BY <1>1, <1>2, <1>4, <1>7, SameLength
<1>9. QED
  BY <1>1, <1>3, <1>4, <1>7, <1>8

-----------------------------------------------------------------------------
(* The last price.                                                          *)

\* No client asks for fill-or-kill.  (The result of a killed order lists no
\* trade although its loop traded: the last price misses those.)
NoFillOrKill ==
    \A f \in Forms : f.type \in {"limit", "iceberg"} => f.tif # "FOK"

Unkillable ==
    \A r \in DOMAIN order :
        order[r].type \in {"limit", "iceberg"} => order[r].tif # "FOK"

\* The matching loop in progress knows the latest trade; if it has not traded
\* yet, and when none is in progress, the book does.
PriceKnown ==
    IF Matches /\ Head(stack).last # NoPrice
    THEN Head(stack).last = tradePrice ELSE lastPrice = tradePrice

LEMMA UnkillableKeeps ==
    ASSUME NoFillOrKill, IInv, Unkillable, [Next]_vars
    PROVE  Unkillable'
<1>1. order \in Seq(PricedOrder) /\ Grows(order, order')
  BY NextIInv, TypeParts DEF Keeps, IInv
<1>2. ASSUME NEW o \in PricedOrder, NEW rest, Enters(o, rest),
             o.type = "iceberg" => VisibleOrder(o) \in PricedOrder,
             o.type \in {"limit", "iceberg"} => o.tif # "FOK"
      PROVE  Unkillable'
  <2> DEFINE n == Len(order) + 1
             v == VisibleOrder(o)
             last == IF o.type = "iceberg" /\ ~ paused THEN n + 1 ELSE n
  <2>1. /\ DOMAIN order' = 1 .. last
        /\ \A k \in DOMAIN order : order'[k] = order[k]
        /\ Renewed(o, order'[n])
        /\ last = n + 1 => Renewed(v, order'[n + 1]) /\ o.type = "iceberg"
    <3>1. /\ DOMAIN order' = 1 .. last
          /\ \A k \in DOMAIN order : order'[k] = order[k]
          /\ Renewed(o, order'[n])
          /\ o.type = "iceberg" /\ ~ paused => Renewed(v, order'[last])
      BY <1>1, <1>2, EntersView
    <3>2. last = n + 1 => o.type = "iceberg" /\ ~ paused
      BY <1>1, Len(order) \in Nat
    <3> HIDE DEF v
    <3>3. QED
      BY <3>1, <3>2
  <2>2. v.tif = o.tif
    BY DEF VisibleOrder, PricedOrder, Order
  <2> HIDE DEF v
  <2>3. ASSUME NEW k \in DOMAIN order', order'[k].type \in {"limit", "iceberg"}
        PROVE  order'[k].tif # "FOK"
    <3>1. k \in DOMAIN order \/ k = n \/ (k = n + 1 /\ last = n + 1)
      BY <1>1, <2>1
    <3>2. CASE k \in DOMAIN order
      BY <2>1, <2>3, <3>2 DEF Unkillable
    <3>3. CASE k = n
      BY <1>2, <2>1, <2>3, <3>3 DEF Renewed, SameTerms
    <3>4. CASE k = n + 1 /\ last = n + 1
      BY <1>2, <2>1, <2>2, <3>4 DEF Renewed, SameTerms
    <3>5. QED
      BY <3>1, <3>2, <3>3, <3>4
  <2>4. QED
    BY <2>3 DEF Unkillable
<1>3. ASSUME DOMAIN order' \subseteq DOMAIN order PROVE Unkillable'
  BY <1>1, <1>3 DEF Unkillable, Grows, SameTerms
<1>4. ASSUME NEW f \in Forms, NEW id \in {"client"} \X ClientIDs, Submit(f, id)
      PROVE  Unkillable'
  <2> DEFINE o == NewOrder(f, id)
  <2>1. /\ o \in PricedOrder
        /\ o.type = "iceberg" => VisibleOrder(o) \in PricedOrder
        /\ \/ Enters(o, <<>>)
           \/ o.type \in {"stop_loss", "take_profit"} /\ order' = Append(order, o)
    BY <1>4, SubmitEffect DEF NewOrder
  <2>2. o.type = f.type /\ o.tif = f.tif
    BY DEF NewOrder
  <2> HIDE DEF o
  <2>3. CASE Enters(o, <<>>)
    BY <1>2, <2>1, <2>2, <2>3 DEF NoFillOrKill
  <2>4. CASE o.type \in {"stop_loss", "take_profit"} /\ order' = Append(order, o)
    BY <1>1, <2>4, AppendProperties DEF Unkillable
  <2>5. QED
    BY <2>1, <2>3, <2>4
<1>5. CASE VisitStop
  <2>1. PICK r \in DOMAIN order :
           LET o == Triggered(order[r], Len(order) + 1)
           IN  \/ o \in PricedOrder /\ o.type \in {"limit", "market"}
                  /\ \E rest : Enters(o, rest)
               \/ UNCHANGED order
    BY <1>5, VisitEffect
  <2> DEFINE o == Triggered(order[r], Len(order) + 1)
  <2>2. order[r] \in PricedOrder
    BY <1>1, ElementOfSeq
  <2>3. o.tif # "FOK"
    BY <2>2 DEF Triggered, PricedOrder, Order
  <2> HIDE DEF o
  <2>4. CASE o \in PricedOrder /\ o.type \in {"limit", "market"}
             /\ \E rest : Enters(o, rest)
    BY <1>2, <2>3, <2>4
  <2>5. CASE UNCHANGED order
    BY <1>3, <2>5
  <2>6. QED
    BY <2>1, <2>4, <2>5 DEF o
<1>6. CASE FinishMatch
  <2> DEFINE f == Head(stack)
             n == Len(order) + 1
             clone == [order[f.taker] EXCEPT !.qty = f.rem]
  <2>1. ~ Idle /\ f.op = "match" /\ SettleTaker(f.taker, f.rem)
    BY <1>6 DEF FinishMatch
  <2>2. f \in Frame(order)
    BY <2>1, HeadTyped
  <2>3. f.taker \in DOMAIN order /\ f.rem \in Nat /\ f.rem <= order[f.taker].qty
    BY <2>1, <2>2 DEF Frame
  <2>4. \/ DOMAIN order' = DOMAIN order
        \/ /\ DOMAIN order' = DOMAIN order \cup {n}
           /\ SameTerms(clone, order'[n])
    BY <1>1, <2>1, <2>3, SettleView
  <2>5. order[f.taker] \in PricedOrder
    BY <1>1, <2>3, ElementOfSeq
  <2>6. clone.type = order[f.taker].type /\ clone.tif = order[f.taker].tif
    BY <2>5 DEF PricedOrder, Order
  <2> HIDE DEF clone
  <2>7. CASE DOMAIN order' = DOMAIN order \cup {n} /\ SameTerms(clone, order'[n])
    BY <1>1, <2>3, <2>6, <2>7 DEF Unkillable, Grows, SameTerms
  <2>8. QED
    BY <1>3, <2>4, <2>7
<1>7. CASE MatchStep
  <2>1. \/ UNCHANGED order
        \/ \E taker, maker, q : order' = AfterTrade(taker, maker, q)
    BY <1>7 DEF MatchStep, vars
  <2>2. \A taker, maker, q : DOMAIN AfterTrade(taker, maker, q) = DOMAIN order
    BY DEF AfterTrade
  <2>3. QED
    BY <1>3, <2>1, <2>2
<1>8. ASSUME NEW r, order' = [order EXCEPT ![r].status = "CANCELED"]
      PROVE  Unkillable'
  BY <1>3, <1>8
<1>9. CASE FinishIceberg
  BY <1>3, <1>9, IcebergView
<1>10. ASSUME NEW id, Cancel(id) PROVE Unkillable'
  BY <1>8, <1>10 DEF Cancel, CancelOrder
<1>11. CASE CancelNext
  <2>1. \/ UNCHANGED order
        \/ \E r : order' = [order EXCEPT ![r].status = "CANCELED"]
    BY <1>11 DEF CancelNext, CancelOrder
  <2>2. QED
    BY <1>3, <1>8, <2>1
<1>12. CASE UNCHANGED order
  BY <1>3, <1>12
<1>13. QED
  BY <1>4, <1>5, <1>6, <1>7, <1>9, <1>10, <1>11, <1>12
     DEF Next, Step, CancelAll, EndRange, EndCancel, Pause, Resume, vars

\* What is on top of the stack after a push or a pop.
LEMMA TopPushed ==
    ASSUME NEW g, NEW S, NEW rest \in Seq(S), stack' = <<g>> \o rest
    PROVE  Head(stack') = g /\ Tail(stack') = rest /\ ~ Idle'
BY PushParts DEF Idle

LEMMA TopPopped ==
    ASSUME NEW S, NEW rest \in Seq(S), Nested(rest), stack' = rest
    PROVE  ~ Matches'
BY NestedParts DEF Matches, Idle

LEMMA TopEntered ==
    ASSUME NEW o, NEW S, NEW rest \in Seq(S), Nested(rest), Enters(o, rest)
    PROVE  Matches' => Head(stack').last = NoPrice
<1>1. PICK T : Nested(Waiting(o, rest)) /\ Waiting(o, rest) \in Seq(T)
  BY WaitingNested
<1>2. \/ stack' = Waiting(o, rest)
      \/ \E f : f.last = NoPrice /\ stack' = <<f>> \o Waiting(o, rest)
  BY DEF Enters, MatchFrame
<1>3. QED
  BY <1>1, <1>2, TopPopped, TopPushed

LEMMA PriceKnownKeeps ==
    ASSUME IInv, Shape, Unkillable, PriceKnown, [Next]_vars
    PROVE  PriceKnown'
<1> DEFINE f == Head(stack)
           below == Tail(stack)
           S == Frame(order)
<1>1. ~ Idle => /\ below \in Seq(S) /\ Nested(below) /\ f \in S
                /\ order \in Seq(PricedOrder)
  BY HeadTyped DEF Shape
<1>2. ASSUME UNCHANGED <<lastPrice, tradePrice>>, ~ Matches,
             Matches' => Head(stack').last = NoPrice
      PROVE  PriceKnown'
  BY <1>2 DEF PriceKnown
<1>3. ASSUME ~ Idle, stack' = below PROVE ~ Matches'
  BY <1>1, <1>3, TopPopped
<1>4. ASSUME ~ Idle, NEW g, g.op # "match", stack' = <<g>> \o below PROVE ~ Matches'
  BY <1>1, <1>4, TopPushed DEF Matches
<1>5. ASSUME NEW h \in Forms, NEW id \in {"client"} \X ClientIDs, Submit(h, id)
      PROVE  PriceKnown'
  <2>1. /\ Enters(NewOrder(h, id), <<>>) \/ stack' = <<>>
        /\ Idle /\ UNCHANGED <<lastPrice, tradePrice>>
    BY <1>5, SubmitEffect DEF bookVars
  <2>2. <<>> \in Seq(S) /\ Nested(<<>>)
    BY DEF Nested
  <2>3. Matches' => Head(stack').last = NoPrice
    BY <2>1, <2>2, TopEntered, TopPopped
  <2>4. QED
    BY <1>2, <2>1, <2>3 DEF Matches
<1>6. CASE MatchStep
  <2>1. CASE UNCHANGED vars
    BY <2>1 DEF PriceKnown, Matches, Idle, vars, bookVars
  <2>2. CASE \E p \in Target(order[f.taker]) : \E rem :
                /\ stack' = <<MatchFrame(f.taker, rem, p)>> \o below
                /\ tradePrice' = p
    <3>1. ~ Idle /\ f.op = "match"
      BY <1>6 DEF MatchStep
    <3>2. PICK p \in Target(order[f.taker]) : \E rem :
                /\ stack' = <<MatchFrame(f.taker, rem, p)>> \o below
                /\ tradePrice' = p
      BY <2>2
    <3> PICK rem : stack' = <<MatchFrame(f.taker, rem, p)>> \o below
      BY <3>2
    <3>3. p # NoPrice
      <4>1. f.taker \in DOMAIN order
        BY <1>1, <3>1 DEF Frame
      <4>2. order[f.taker] \in PricedOrder
        BY <1>1, <3>1, <4>1, ElementOfSeq
      <4>3. OppositeSide[order[f.taker].side] \in Sides
        BY <4>2 DEF PricedOrder, Order, Sides, OppositeSide
      <4>4. p \in DOMAIN level[OppositeSide[order[f.taker].side]]
        BY DEF Target, BestPrices
      <4>5. p \in Prices
        BY <4>3, <4>4, TypeParts DEF IInv, BookTyped, BookSide
      <4>6. QED
        BY <4>5 DEF NoPrice
    <3>4. Matches' /\ Head(stack').last = p
      <4> DEFINE g == MatchFrame(f.taker, rem, p)
      <4>1. g.op = "match" /\ g.last = p /\ stack' = <<g>> \o below
        BY <3>2 DEF MatchFrame
      <4> HIDE DEF g
      <4>2. QED
        BY <1>1, <3>1, <4>1, TopPushed DEF Matches
    <3>5. QED
      BY <3>2, <3>3, <3>4 DEF PriceKnown
  <2>3. QED
    BY <1>6, <2>1, <2>2 DEF MatchStep
<1>7. CASE FinishMatch
  <2>1. ~ Idle /\ f.op = "match" /\ UNCHANGED tradePrice /\ Matches
    BY <1>7 DEF FinishMatch, Matches
  <2>2. f.taker \in DOMAIN order
    BY <1>1, <2>1 DEF Frame
  <2>3. ~ Killed(order[f.taker], f.rem)
    BY <2>2 DEF Killed, Unkillable
  <2>4. CASE /\ f.last # NoPrice /\ lastPrice' = f.last
             /\ stack' = <<TriggerFrame(f.last, "rise", Armed("rise"))>> \o below
    <3>1. TriggerFrame(f.last, "rise", Armed("rise")).op # "match"
      BY DEF TriggerFrame
    <3>2. ~ Matches'
      BY <1>4, <2>1, <2>4, <3>1
    <3>3. QED
      BY <2>1, <2>4, <3>2 DEF PriceKnown
  <2>5. CASE f.last = NoPrice /\ UNCHANGED lastPrice /\ stack' = below
    BY <1>3, <2>1, <2>5 DEF PriceKnown
  <2>6. QED
    BY <1>7, <2>3, <2>4, <2>5 DEF FinishMatch, SetLastPrice
<1>8. CASE VisitStop
  <2>1. ~ Idle /\ f.op = "triggers" /\ UNCHANGED <<lastPrice, tradePrice>>
    BY <1>8, VisitEffect DEF bookVars
  <2>2. PICK id : \/ stack' = <<Visited(id)>> \o below
                  \/ \E o : Enters(o, <<Visited(id)>> \o below)
    BY <1>8, VisitEffect
  <2> DEFINE g == Visited(id)
             rest == <<g>> \o below
  <2>3. g.op = "triggers"
    BY DEF Visited, TriggerFrame
  <2> HIDE DEF g
  <2>4. Nested(rest) /\ \E T : rest \in Seq(T)
    <3>1. below \in Seq(S) /\ Nested(below) /\ g.op \in {"iceberg", "triggers"}
      BY <1>1, <2>1, <2>3
    <3> HIDE DEF below, S
    <3>2. Nested(rest)
      BY <3>1, NestedPush
    <3>3. below \in Seq(S \cup {g}) /\ <<g>> \in Seq(S \cup {g})
      BY <3>1, SeqMonotonic
    <3>4. rest \in Seq(S \cup {g})
      BY <3>3, ConcatProperties
    <3>5. QED
      BY <3>2, <3>4
  <2> HIDE DEF rest
  <2>5. stack' = rest \/ \E o : Enters(o, rest)
    BY <2>2 DEF rest, g
  <2>6. Matches' => Head(stack').last = NoPrice
    BY <2>4, <2>5, TopEntered, TopPopped
  <2>7. QED
    BY <1>2, <2>1, <2>6 DEF Matches
<1>9. ASSUME ~ Idle, f.op # "match", UNCHANGED <<lastPrice, tradePrice>>,
             \/ stack' = below
             \/ \E g : g.op # "match" /\ stack' = <<g>> \o below
      PROVE  PriceKnown'
  BY <1>2, <1>3, <1>4, <1>9 DEF Matches
<1>10. CASE FinishIceberg
  BY <1>9, <1>10 DEF FinishIceberg, bookVars
<1>11. CASE EndRange
  BY <1>9, <1>11 DEF EndRange, bookVars, TriggerFrame
<1>12. CASE CancelNext
  BY <1>9, <1>12 DEF CancelNext, CancelFrame
<1>13. CASE EndCancel
  BY <1>9, <1>13 DEF EndCancel, bookVars, CancelFrame
<1>14. ASSUME NEW user, CancelAll(user) PROVE PriceKnown'
  BY <1>2, <1>14 DEF CancelAll, Matches, bookVars, CancelFrame, Idle
<1>15. CASE UNCHANGED <<stack, lastPrice, tradePrice>>
  BY <1>15 DEF PriceKnown, Matches, Idle
<1>16. QED
  BY <1>5, <1>6, <1>7, <1>8, <1>10, <1>11, <1>12, <1>13, <1>14, <1>15
     DEF Next, Step, Cancel, Pause, Resume, vars, bookVars

(* Unless clients use fill-or-kill, the book's last price is the price of   *)
(* the latest trade whenever no call is in progress, however the calls of   *)
(* triggered stops were nested in each other (match_engine.go:167-171 sets  *)
(* it once, after the loop).                                                *)
THEOREM LastPriceAlways == NoFillOrKill => (Spec => []LastPriceTrue)
<1> SUFFICES ASSUME NoFillOrKill PROVE Spec => []LastPriceTrue
  OBVIOUS
<1> DEFINE Inv == Unkillable /\ PriceKnown
<1>1. Init => Inv
  BY DEF Init, BookInit, Unkillable, PriceKnown, Matches, Idle
<1>2. IInv /\ Shape /\ Inv /\ [Next]_vars => Inv'
  BY UnkillableKeeps, PriceKnownKeeps
<1>3. Inv => LastPriceTrue
  BY DEF PriceKnown, Matches, LastPriceTrue
<1> HIDE DEF Inv
<1>4. QED
  BY <1>1, <1>2, <1>3, ShapeAlways, PTL DEF Spec

-----------------------------------------------------------------------------
(* The stops a moving price triggers.                                       *)

\* The armed stops whose condition the last price meets: map and id.
Due == {d \in {"rise", "fall"} \X OrderIDs :
           /\ d[2] \in Armed(d[1])
           /\ Reached(d[1], order[StopMap(d[1])[d[2]]], lastPrice)}

\* A loop over the stops, at price p, that has yet to come to the stop d.
Comes(f, d, p) ==
    /\ f.op = "triggers" /\ f.price = p
    /\ f.map = "rise" => d[1] = "fall" \/ d[2] \in f.todo
    /\ f.map = "fall" => d[1] = "fall" /\ d[2] \in f.todo

\* Below and including any loop over the stops, each due stop has a loop that
\* has yet to come to it.
Covers(s, D, p) ==
    \A i \in 1 .. Len(s) :
        s[i].op = "triggers" => \A d \in D : \E j \in 1 .. i : Comes(s[j], d, p)

\* What is due, is awaited: loops at an older price are nested around one at
\* the last price, or nothing is due.
AllAwaited == Covers(stack, Due, lastPrice)

LEMMA CoversPush ==
    ASSUME NEW f, f.op # "triggers", NEW S, NEW rest \in Seq(S), NEW D, NEW p,
           Covers(rest, D, p)
    PROVE  Covers(<<f>> \o rest, D, p)
<1> DEFINE s == <<f>> \o rest
<1>1. /\ Len(s) = Len(rest) + 1
      /\ \A i \in 1 .. Len(rest) + 1 : s[i] = IF i = 1 THEN f ELSE rest[i - 1]
  BY PushParts
<1> HIDE DEF s
<1>2. Len(rest) \in Nat
  OBVIOUS
<1>3. ASSUME NEW i \in 1 .. Len(s), s[i].op = "triggers", NEW d \in D
      PROVE  \E j \in 1 .. i : Comes(s[j], d, p)
  <2>1. i # 1 /\ i - 1 \in 1 .. Len(rest) /\ s[i] = rest[i - 1]
    BY <1>1, <1>2, <1>3
  <2>2. PICK j \in 1 .. (i - 1) : Comes(rest[j], d, p)
    BY <1>3, <2>1 DEF Covers
  <2>3. j + 1 \in 1 .. i /\ j + 1 \in 1 .. Len(rest) + 1 /\ j + 1 # 1 /\ (j + 1) - 1 = j
    BY <1>2, <2>1
  <2>4. s[j + 1] = rest[j]
    BY <1>1, <2>3
  <2>5. QED
    BY <2>2, <2>3, <2>4
<1>4. QED
  BY <1>3 DEF Covers, s

LEMMA CoversPop ==
    ASSUME NEW S, NEW s \in Seq(S), s # <<>>, NEW D, NEW p, Covers(s, D, p),
           Head(s).op # "triggers"
    PROVE  Covers(Tail(s), D, p)
<1> DEFINE t == Tail(s)
<1>1. /\ Len(s) \in Nat /\ Len(t) = Len(s) - 1 /\ Head(s) = s[1]
      /\ \A i \in 1 .. Len(t) : t[i] = s[i + 1]
  BY HeadTailProperties
<1> HIDE DEF t
<1>2. ASSUME NEW i \in 1 .. Len(t), t[i].op = "triggers", NEW d \in D
      PROVE  \E j \in 1 .. i : Comes(t[j], d, p)
  <2>1. i + 1 \in 1 .. Len(s) /\ s[i + 1] = t[i]
    BY <1>1
  <2>2. PICK j \in 1 .. (i + 1) : Comes(s[j], d, p)
    BY <1>2, <2>1 DEF Covers
  <2>3. j # 1
    BY <1>1, <2>2 DEF Comes
  <2>4. j - 1 \in 1 .. i /\ j - 1 \in 1 .. Len(t) /\ (j - 1) + 1 = j
    BY <1>1, <2>3
  <2>5. t[j - 1] = s[j]
    BY <1>1, <2>4
  <2>6. QED
    BY <2>2, <2>4, <2>5
<1>3. QED
  BY <1>2 DEF Covers, t

\* A frame on top that has yet to come to everything due covers any stack.
LEMMA CoversAll ==
    ASSUME NEW f, NEW S, NEW rest \in Seq(S), NEW D, NEW p,
           \A d \in D : Comes(f, d, p)
    PROVE  Covers(<<f>> \o rest, D, p)
<1> DEFINE s == <<f>> \o rest
<1>1. s[1] = f
  <2>1. Len(rest) \in Nat
    OBVIOUS
  <2>2. 1 \in 1 .. Len(rest) + 1
    BY <2>1
  <2>3. QED
    BY <2>2, PushParts
<1> HIDE DEF s
<1>2. QED
  BY <1>1 DEF Covers, s

LEMMA CoversFewer ==
    ASSUME NEW s, NEW D, NEW p, Covers(s, D, p), NEW E \in SUBSET D
    PROVE  Covers(s, E, p)
BY DEF Covers

\* The innermost loop over the stops awaits all that is due.
LEMMA HeadComes ==
    ASSUME NEW S, NEW s \in Seq(S), s # <<>>, NEW D, NEW p, Covers(s, D, p),
           Head(s).op = "triggers"
    PROVE  \A d \in D : Comes(Head(s), d, p)
<1>1. 1 \in 1 .. Len(s) /\ s[1] = Head(s)
  BY HeadTailProperties
<1>2. ASSUME NEW d \in D PROVE Comes(s[1], d, p)
  <2>1. PICK j \in 1 .. 1 : Comes(s[j], d, p)
    BY <1>1 DEF Covers
  <2>2. j = 1
    OBVIOUS
  <2>3. QED
    BY <2>1, <2>2
<1>3. QED
  BY <1>1, <1>2

\* A stop does not become due while none is armed and the price stays.
LEMMA DueShrinks ==
    ASSUME IInv, Grows(order, order'), UNCHANGED lastPrice,
           \/ UNCHANGED stopVars
           \/ \E id : DisarmStop(id)
    PROVE  Due' \subseteq Due
<1>1. StopsTyped
  BY TypeParts DEF IInv
<1>2. ASSUME NEW map \in {"rise", "fall"}, NEW id \in Armed(map)'
      PROVE  id \in Armed(map) /\ StopMap(map)'[id] = StopMap(map)[id]
  BY <1>2 DEF Armed, StopMap, stopVars, DisarmStop, MapDelete
<1>3. ASSUME NEW map \in {"rise", "fall"}, NEW id \in Armed(map)
      PROVE  LET r == StopMap(map)[id]
             IN  r \in DOMAIN order /\ SameTerms(order[r], order'[r])
  BY <1>1 DEF Armed, StopMap, StopsTyped, Index, Grows
<1>4. ASSUME NEW d \in Due' PROVE d \in Due
  <2>1. /\ d \in {"rise", "fall"} \X OrderIDs /\ d[1] \in {"rise", "fall"}
        /\ d[2] \in Armed(d[1])'
        /\ Reached(d[1], order'[StopMap(d[1])'[d[2]]], lastPrice')
    BY DEF Due
  <2>2. d[2] \in Armed(d[1]) /\ StopMap(d[1])'[d[2]] = StopMap(d[1])[d[2]]
    BY <1>2, <2>1
  <2>3. order'[StopMap(d[1])[d[2]]].stop = order[StopMap(d[1])[d[2]]].stop
    BY <1>3, <2>1, <2>2 DEF SameTerms
  <2>4. QED
    BY <2>1, <2>2, <2>3 DEF Due, Reached
<1>5. QED
  BY <1>4

\* A stop that was disarmed is not due.
LEMMA DisarmedNotDue ==
    ASSUME NEW id, DisarmStop(id)
    PROVE  \A d \in Due' : d[2] # id
<1>1. \A map \in {"rise", "fall"} : id \notin Armed(map)'
  BY DEF Armed, StopMap, DisarmStop, MapDelete
<1>2. ASSUME NEW d \in Due' PROVE d[2] # id
  <2>1. d[1] \in {"rise", "fall"} /\ d[2] \in Armed(d[1])'
    BY DEF Due
  <2>2. QED
    BY <1>1, <2>1
<1>3. QED
  BY <1>2

\* What enters on a trigger adds no loop over the stops.
LEMMA EntersCovers ==
    ASSUME NEW o, NEW S, NEW rest \in Seq(S), NEW D, NEW p, Covers(rest, D, p),
           Enters(o, rest)
    PROVE  Covers(stack', D, p)
<1> DEFINE g == IcebergFrame(Len(order) + 1, Len(order) + 2)
           w == Waiting(o, rest)
<1>1. g.op # "triggers"
  BY DEF IcebergFrame
<1>2. w = rest \/ w = <<g>> \o rest
  BY DEF Waiting
<1>3. \/ stack' = w
      \/ \E f : f.op # "triggers" /\ stack' = <<f>> \o w
  BY DEF Enters, MatchFrame
<1> HIDE DEF g, w
<1>4. Covers(<<g>> \o rest, D, p)
  BY <1>1, CoversPush
<1>5. Covers(w, D, p)
  BY <1>2, <1>4
<1>6. w \in Seq(S \cup {g})
  <2>1. rest \in Seq(S \cup {g}) /\ <<g>> \in Seq(S \cup {g})
    BY SeqMonotonic
  <2>2. <<g>> \o rest \in Seq(S \cup {g})
    BY <2>1, ConcatProperties
  <2>3. QED
    BY <1>2, <2>1, <2>2
<1>7. ASSUME NEW f, f.op # "triggers" PROVE Covers(<<f>> \o w, D, p)
  BY <1>5, <1>6, <1>7, CoversPush
<1>8. QED
  BY <1>3, <1>5, <1>7


LEMMA AwaitedKeeps == IInv /\ AllAwaited /\ [Next]_vars => AllAwaited'
<1> SUFFICES ASSUME IInv, AllAwaited, [Next]_vars PROVE AllAwaited'
  OBVIOUS
<1> DEFINE f == Head(stack)
           below == Tail(stack)
           S == Frame(order)
<1>1. Grows(order, order') /\ StopsTyped
  BY NextIInv, TypeParts DEF Keeps, IInv
<1>2. /\ stack \in Seq(S)
      /\ ~ Idle => stack # <<>> /\ below \in Seq(S) /\ f \in S
  BY HeadTyped, TypeParts DEF IInv, Idle
<1>3. UNCHANGED <<stopVars, lastPrice>> => Due' \subseteq Due
  BY <1>1, DueShrinks
<1>4. ASSUME ~ Idle, f.op # "triggers" PROVE Covers(below, Due, lastPrice)
  BY <1>2, <1>4, CoversPop DEF AllAwaited
<1>5. ASSUME NEW D, NEW p PROVE Covers(<<>>, D, p)
  BY DEF Covers
<1>6. ASSUME stack' = <<>> PROVE AllAwaited'
  BY <1>6, <1>5 DEF AllAwaited
\* Another frame in the place of one that is no loop over the stops.
<1>7. ASSUME ~ Idle, f.op # "triggers", Due' \subseteq Due, UNCHANGED lastPrice,
             \/ stack' = below
             \/ \E g : g.op # "triggers" /\ stack' = <<g>> \o below
      PROVE  AllAwaited'
  <2>1. Covers(below, Due', lastPrice')
    BY <1>4, <1>7, CoversFewer
  <2>2. ASSUME NEW g, g.op # "triggers"
        PROVE  Covers(<<g>> \o below, Due', lastPrice')
    <3>1. below \in Seq(S)
      BY <1>2, <1>7
    <3> HIDE DEF below
    <3>2. QED
      BY <2>1, <2>2, <3>1, CoversPush
  <2>3. Covers(stack', Due', lastPrice')
    BY <1>7, <2>1, <2>2
  <2>4. QED
    BY <2>3 DEF AllAwaited
<1>8. ASSUME NEW h \in Forms, NEW id \in {"client"} \X ClientIDs, Submit(h, id)
      PROVE  AllAwaited'
  <2>1. CASE stack' = <<>>
    BY <2>1, <1>6
  <2>2. CASE Enters(NewOrder(h, id), <<>>)
    <3>1. <<>> \in Seq(S)
      OBVIOUS
    <3>2. Covers(stack', Due', lastPrice')
      BY <1>5, <2>2, <3>1, EntersCovers
    <3>3. QED
      BY <3>2 DEF AllAwaited
  <2>3. QED
    BY <1>8, <2>1, <2>2, SubmitEffect
<1>9. ASSUME NEW id, Cancel(id) PROVE AllAwaited'
  BY <1>6, <1>9 DEF Cancel, Idle
<1>10. ASSUME NEW user \in Users, CancelAll(user) PROVE AllAwaited'
  <2>1. \E todo : stack' = <<CancelFrame(user, "book", todo)>>
    BY <1>10 DEF CancelAll
  <2>2. PICK g : g.op # "triggers" /\ stack' = <<g>>
    BY <2>1 DEF CancelFrame
  <2>3. <<>> \in Seq(S) /\ stack' = <<g>> \o <<>>
    BY <2>2
  <2>4. Covers(stack', Due', lastPrice')
    BY <1>5, <2>2, <2>3, CoversPush
  <2>5. QED
    BY <2>4 DEF AllAwaited
<1>11. CASE MatchStep
  <2>1. CASE UNCHANGED vars
    BY <1>3, <2>1, CoversFewer DEF vars, bookVars, AllAwaited
  <2>2. CASE /\ \E rem, p : stack' = <<MatchFrame(f.taker, rem, p)>> \o below
             /\ UNCHANGED <<lastPrice, stopVars>>
    <3>1. ~ Idle /\ f.op = "match"
      BY <1>11 DEF MatchStep
    <3>2. \A rem, p : MatchFrame(f.taker, rem, p).op = "match"
      BY DEF MatchFrame
    <3>3. QED
      BY <1>3, <1>7, <2>2, <3>1, <3>2
  <2>3. QED
    BY <1>11, <2>1, <2>2 DEF MatchStep
<1>12. CASE FinishMatch
  <2> DEFINE g == TriggerFrame(f.last, "rise", Armed("rise"))
  <2>1. /\ ~ Idle /\ f.op = "match" /\ UNCHANGED stopVars
        /\ \/ lastPrice' = f.last /\ stack' = <<g>> \o below
           \/ UNCHANGED lastPrice /\ stack' = below
    BY <1>12 DEF FinishMatch, SetLastPrice
  <2>2. CASE lastPrice' = f.last /\ stack' = <<g>> \o below
    <3>1. ASSUME NEW d \in Due' PROVE Comes(g, d, lastPrice')
      <4>1. d[1] \in {"rise", "fall"} /\ d[2] \in Armed(d[1])'
        BY DEF Due
      <4>2. d[1] = "rise" => d[2] \in Armed("rise")
        BY <2>1, <4>1 DEF Armed, StopMap, stopVars
      <4>3. QED
        BY <2>2, <4>1, <4>2 DEF Comes, TriggerFrame
    <3> HIDE DEF g
    <3>2. Covers(stack', Due', lastPrice')
      BY <1>2, <2>1, <2>2, <3>1, CoversAll
    <3>3. QED
      BY <3>2 DEF AllAwaited
  <2>3. CASE UNCHANGED lastPrice /\ stack' = below
    BY <1>3, <1>7, <2>1, <2>3
  <2>4. QED
    BY <2>1, <2>2, <2>3
<1>13. CASE FinishIceberg
  BY <1>3, <1>7, <1>13 DEF FinishIceberg, bookVars
<1>14. CASE VisitStop
  <2>1. ~ Idle /\ f.op = "triggers" /\ UNCHANGED lastPrice
    BY <1>14, VisitEffect DEF bookVars
  <2>2. PICK id \in f.todo \cap Armed(f.map) :
           \/ /\ DisarmStop(id)
              /\ \E o : Enters(o, <<Visited(id)>> \o below)
           \/ /\ ~ Reached(f.map, order[StopMap(f.map)[id]], f.price)
              /\ stack' = <<Visited(id)>> \o below
              /\ UNCHANGED <<order, stopVars>>
    BY <1>14, VisitEffect
  <2>3. \A d \in Due : Comes(f, d, lastPrice)
    BY <1>2, <2>1, HeadComes DEF AllAwaited
  <2>4. Due' \subseteq Due
    BY <1>1, <2>1, <2>2, DueShrinks
  <2> DEFINE g == Visited(id)
  <2>5. ASSUME NEW d \in Due', d[1] = f.map => d[2] # id
        PROVE  Comes(g, d, lastPrice')
    <3>1. d[1] \in {"rise", "fall"} /\ d[2] \in Armed(d[1])'
      BY DEF Due
    <3>2. d \in Due /\ d[2] \in Armed(d[1])
      BY <2>4 DEF Due
    <3>3. Comes(f, d, lastPrice)
      BY <2>3, <3>2
    <3>4. g = TriggerFrame(f.price, f.map, (f.todo \cap Armed(f.map)) \ {id})
      BY DEF Visited
    <3>5. f.map \in {"rise", "fall"}
      BY <1>2, <2>1 DEF Frame
    <3> HIDE DEF g
    <3>6. QED
      BY <2>1, <2>5, <3>1, <3>2, <3>3, <3>4, <3>5 DEF Comes, TriggerFrame
  <2> HIDE DEF g
  <2>6. ASSUME \A d \in Due' : Comes(g, d, lastPrice')
        PROVE  Covers(<<g>> \o below, Due', lastPrice')
    BY <1>2, <2>1, <2>6, CoversAll
  <2>7. CASE DisarmStop(id) /\ \E o : Enters(o, <<g>> \o below)
    <3>1. \A d \in Due' : d[2] # id
      BY <2>7, DisarmedNotDue
    <3>2. Covers(<<g>> \o below, Due', lastPrice')
      BY <2>5, <2>6, <3>1
    <3>3. <<g>> \o below \in Seq(S \cup {g})
      <4>1. below \in Seq(S \cup {g}) /\ <<g>> \in Seq(S \cup {g})
        BY <1>2, <2>1, SeqMonotonic
      <4>2. QED
        BY <4>1, ConcatProperties
    <3>4. Covers(stack', Due', lastPrice')
      BY <2>7, <3>2, <3>3, EntersCovers
    <3>5. QED
      BY <3>4 DEF AllAwaited
  <2>8. CASE /\ ~ Reached(f.map, order[StopMap(f.map)[id]], f.price)
             /\ stack' = <<g>> \o below
             /\ UNCHANGED <<order, stopVars>>
    <3>1. ASSUME NEW d \in Due', d[1] = f.map, d[2] = id PROVE FALSE
      <4>1. d \in Due
        BY <2>4
      <4>2. Reached(d[1], order[StopMap(d[1])[d[2]]], lastPrice)
        BY <4>1 DEF Due
      <4>3. f.price = lastPrice
        BY <2>3, <4>1 DEF Comes
      <4>4. QED
        BY <2>8, <3>1, <4>2, <4>3
    <3>2. Covers(<<g>> \o below, Due', lastPrice')
      BY <2>5, <2>6, <3>1
    <3>3. QED
      BY <2>8, <3>2 DEF AllAwaited
  <2>9. QED
    BY <2>2, <2>7, <2>8 DEF g
<1>15. CASE EndRange
  <2>1. /\ ~ Idle /\ f.op = "triggers" /\ UNCHANGED <<lastPrice, stopVars>>
        /\ f.todo \cap Armed(f.map) = {}
        /\ stack' = IF f.map = "rise"
                    THEN <<TriggerFrame(f.price, "fall", Armed("fall"))>> \o below
                    ELSE below
    BY <1>15 DEF EndRange, bookVars
  <2>2. \A d \in Due : Comes(f, d, lastPrice)
    BY <1>2, <2>1, HeadComes DEF AllAwaited
  <2>3. f.map \in {"rise", "fall"}
    BY <1>2, <2>1 DEF Frame
  <2>4. ASSUME NEW d \in Due'
        PROVE  /\ d \in Due /\ Comes(f, d, lastPrice)
               /\ d[1] \in {"rise", "fall"} /\ d[2] \in Armed(d[1])
    BY <1>3, <2>1, <2>2 DEF Due
  <2>5. CASE f.map = "rise"
    <3> DEFINE g == TriggerFrame(f.price, "fall", Armed("fall"))
    <3>1. ASSUME NEW d \in Due' PROVE Comes(g, d, lastPrice')
      BY <2>1, <2>4, <2>5 DEF Comes, TriggerFrame
    <3> HIDE DEF g
    <3>2. Covers(<<g>> \o below, Due', lastPrice')
      BY <1>2, <2>1, <3>1, CoversAll
    <3>3. QED
      BY <2>1, <2>5, <3>2 DEF AllAwaited, g
  <2>6. CASE f.map = "fall"
    <3>1. Due' = {}
      BY <2>1, <2>4, <2>6 DEF Comes
    <3>2. Covers(stack', Due', lastPrice')
      BY <3>1 DEF Covers
    <3>3. QED
      BY <3>2 DEF AllAwaited
  <2>7. QED
    BY <2>3, <2>5, <2>6
<1>16. ASSUME ~ Idle, f.op = "cancel", UNCHANGED lastPrice,
              \/ stack' = below
              \/ \E g : g.op # "triggers" /\ stack' = <<g>> \o below,
              \/ UNCHANGED stopVars
              \/ \E id : DisarmStop(id)
       PROVE  AllAwaited'
  <2>1. Due' \subseteq Due
    BY <1>1, <1>16, DueShrinks
  <2>2. QED
    BY <1>7, <1>16, <2>1
<1>17. CASE CancelNext
  <2>1. ~ Idle /\ f.op = "cancel" /\ UNCHANGED lastPrice
    BY <1>17 DEF CancelNext
  <2>2. \E id : stack' = <<CancelFrame(f.user, f.map, f.todo \ {id})>> \o below
    BY <1>17 DEF CancelNext
  <2>3. UNCHANGED stopVars \/ \E id : DisarmStop(id)
    BY <1>17 DEF CancelNext, CancelOrder, stopVars
  <2>4. \A user, map, todo : CancelFrame(user, map, todo).op = "cancel"
    BY DEF CancelFrame
  <2>5. QED
    BY <1>16, <2>1, <2>2, <2>3, <2>4
<1>18. CASE EndCancel
  <2>1. ~ Idle /\ f.op = "cancel" /\ UNCHANGED <<lastPrice, stopVars>>
    BY <1>18 DEF EndCancel, bookVars
  <2>2. \/ \E user, map, todo : stack' = <<CancelFrame(user, map, todo)>> \o below
        \/ stack' = below
    BY <1>18 DEF EndCancel
  <2>3. \A user, map, todo : CancelFrame(user, map, todo).op = "cancel"
    BY DEF CancelFrame
  <2>4. QED
    BY <1>16, <2>1, <2>2, <2>3
<1>19. CASE UNCHANGED <<stack, order, stopVars, lastPrice>>
  BY <1>3, <1>19, CoversFewer DEF AllAwaited
<1>20. QED
  BY <1>8, <1>9, <1>10, <1>11, <1>12, <1>13, <1>14, <1>15, <1>17, <1>18, <1>19
     DEF Next, Step, Pause, Resume, vars, bookVars

(* Property NoMissedTrigger, whether or not ids are reused:                 *)
(* when the last loop over the stops returns nothing is due, because the    *)
(* innermost loop has yet to come to whatever is.                           *)
THEOREM NoMissedTriggerAlways == Spec => NoMissedTrigger
<1>1. Init => AllAwaited
  BY DEF Init, AllAwaited, Covers
<1>2. Spec => [](IInv /\ AllAwaited)
  BY <1>1, AwaitedKeeps, EngineInvariant, PTL DEF Spec
<1>3. ASSUME IInv, AllAwaited, [Next]_vars,
             ~ Idle, Head(stack).op = "triggers", stack' = <<>>
      PROVE  \A map \in {"rise", "fall"} : \A id \in Armed(map) :
                 ~ Reached(map, order[StopMap(map)[id]], lastPrice)
  <2> DEFINE f == Head(stack)
  <2>1. EndRange
    <3>1. ASSUME VisitStop PROVE FALSE
      <4>1. Tail(stack) \in Seq(Frame(order))
        BY <1>3, HeadTyped
      <4>2. PICK id : \/ \E o : Enters(o, <<Visited(id)>> \o Tail(stack))
                      \/ stack' = <<Visited(id)>> \o Tail(stack)
        BY <1>3, <3>1, VisitEffect
      <4> DEFINE rest == <<Visited(id)>> \o Tail(stack)
      <4>3. rest # <<>> /\ rest \in Seq(Frame(order) \cup {Visited(id)})
        <5>1. /\ Tail(stack) \in Seq(Frame(order) \cup {Visited(id)})
              /\ <<Visited(id)>> \in Seq(Frame(order) \cup {Visited(id)})
          BY <4>1, SeqMonotonic
        <5>2. rest \in Seq(Frame(order) \cup {Visited(id)})
          BY <5>1, ConcatProperties
        <5>3. rest # <<>>
          BY <4>1, PushParts
        <5>4. QED
          BY <5>2, <5>3
      <4> HIDE DEF rest
      <4>4. ASSUME NEW o, Enters(o, rest) PROVE FALSE
        <5> DEFINE g == IcebergFrame(Len(order) + 1, Len(order) + 2)
        <5>1. Waiting(o, rest) = rest \/ Waiting(o, rest) = <<g>> \o rest
          BY DEF Waiting
        <5>2. \/ stack' = Waiting(o, rest)
              \/ \E m : stack' = <<m>> \o Waiting(o, rest)
          BY <4>4 DEF Enters
        <5> HIDE DEF g
        <5>3. /\ Waiting(o, rest) # <<>>
              /\ \E T : Waiting(o, rest) \in Seq(T)
          <6>1. <<g>> \o rest # <<>>
            BY <4>3, PushParts
          <6>2. <<g>> \o rest \in Seq(Frame(order) \cup {Visited(id)} \cup {g})
            <7> DEFINE T == Frame(order) \cup {Visited(id)}
            <7>1. rest \in Seq(T \cup {g}) /\ <<g>> \in Seq(T \cup {g})
              BY <4>3, SeqMonotonic
            <7>2. QED
              BY <7>1, ConcatProperties
          <6>3. QED
            BY <4>3, <5>1, <6>1, <6>2
        <5>4. \A m : <<m>> \o Waiting(o, rest) # <<>>
          BY <5>3, PushParts
        <5>5. QED
          BY <1>3, <5>2, <5>3, <5>4
      <4>5. QED
        BY <1>3, <4>2, <4>3, <4>4 DEF rest
    <3>2. QED
      BY <1>3, <3>1
         DEF Next, Step, Submit, Cancel, CancelAll, MatchStep, FinishMatch,
             FinishIceberg, CancelNext, EndCancel, Pause, Resume, vars, Idle
  <2>2. \A d \in Due : Comes(f, d, lastPrice)
    <3>1. stack \in Seq(Frame(order)) /\ stack # <<>>
      BY <1>3, TypeParts DEF IInv, Idle
    <3>2. QED
      BY <1>3, <3>1, HeadComes DEF AllAwaited
  <2>3. f.map = "fall" /\ f.todo \cap Armed("fall") = {}
    <3>1. f.map \in {"rise", "fall"}
      BY <1>3, HeadTyped DEF Frame
    <3>2. Tail(stack) \in Seq(Frame(order))
      BY <1>3, HeadTyped
    <3>3. \A g : <<g>> \o Tail(stack) # <<>>
      BY <3>2, PushParts
    <3>4. QED
      BY <1>3, <2>1, <3>1, <3>3 DEF EndRange
  <2>4. Due = {}
    <3>1. ASSUME NEW d \in Due PROVE FALSE
      <4>1. d[2] \in Armed(d[1]) /\ Comes(f, d, lastPrice)
        BY <2>2 DEF Due
      <4>2. QED
        BY <2>3, <4>1 DEF Comes
    <3>2. QED
      BY <3>1
  <2>5. ASSUME NEW map \in {"rise", "fall"}, NEW id \in Armed(map),
               Reached(map, order[StopMap(map)[id]], lastPrice)
        PROVE  FALSE
    <3>1. id \in OrderIDs
      <4>1. StopsTyped
        BY <1>3, TypeParts DEF IInv
      <4>2. QED
        BY <4>1 DEF StopsTyped, Index, Armed, StopMap
    <3>2. <<map, id>> \in Due
      BY <2>5, <3>1 DEF Due
    <3>3. QED
      BY <2>4, <3>2
  <2>6. QED
    BY <2>5
<1>4. QED
  BY <1>2, <1>3, PTL DEF NoMissedTrigger, Spec
=============================================================================
