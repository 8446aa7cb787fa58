---------------------------- MODULE MatchEngine -----------------------------
(***************************************************************************)
(* Continuous matching for one symbol, pkg/engine/match_engine.go: limit,   *)
(* market and iceberg orders with GTC, IOC, FOK and post-only, the stop and *)
(* take-profit manager, cancellation, pause and resume.                     *)
(*                                                                         *)
(* Calls are taken one at a time, as EngineManager.commandWorker makes them  *)
(* (the gRPC handlers also call the engine directly, from goroutines of      *)
(* their own; nothing in the engine serialises those).  A call is            *)
(* modelled step by step on a stack of frames, because it is recursive: a    *)
(* trade moves the last price, the last price triggers stops, and a stop is *)
(* a new order that is matched, trades and triggers before the loop over     *)
(* the stops goes on.  The admin's Pause and Resume set an atomic flag and   *)
(* may come between any two steps.                                          *)
(*                                                                         *)
(* Left out: sequence numbers, trade ids, timestamps, the events sent to    *)
(* eventChan.                                                               *)
(***************************************************************************)
EXTENDS OrderBook

CONSTANTS
    Forms,       \* the orders clients submit, without their ids
    MaxOrders,   \* bound: how many orders are submitted
    FreshIDs,    \* TRUE when no client_order_id is ever used twice
    Requests     \* what else is asked of the engine, besides orders

Form == [user : Users, side : Sides, type : Types, tif : TimesInForce,
         price : Prices \cup {NoPrice}, stop : Prices \cup {NoPrice},
         qty : Nat \ {0}, visible : Nat]

\* Limit and iceberg orders name a price; the default slice of an iceberg, a
\* tenth of it, is a whole number of units.
ASSUME FormsAssumption ==
    /\ Forms \subseteq Form
    /\ \A f \in Forms :
          /\ f.type \in {"limit", "iceberg"} => f.price \in Prices
          /\ f.type = "iceberg" /\ f.visible = 0 => f.qty % 10 = 0

ASSUME BoundsAssumption ==
    /\ MaxOrders \in Nat
    /\ FreshIDs \in BOOLEAN
    /\ Requests \subseteq {"cancel", "cancel_all", "pause"}

VARIABLES
    paused,      \* the isPaused flag
    buyStops,    \* orders triggered by a rising price: OrderID -> order
    sellStops,   \* orders triggered by a falling price: OrderID -> order
    stopIndex,   \* all armed orders: OrderID -> order
    stopUsers,   \* user -> OrderID -> armed order
    stack,       \* the frames of the call in progress, innermost first
    tradePrice   \* the price of the latest trade (not in the code)

stopVars == <<buyStops, sellStops, stopIndex, stopUsers>>
vars == <<order, bookVars, paused, stopVars, stack, tradePrice>>

Idle == stack = <<>>

-----------------------------------------------------------------------------
(* Frames: what a call in progress still has to do.                         *)

\* The matching loop of an order: what is left of it, and the price of its
\* latest trade.
MatchFrame(r, rem, last) ==
    [op |-> "match", taker |-> r, rem |-> rem, last |-> last]

\* processIcebergOrder, waiting for its visible slice.
IcebergFrame(parent, visible) ==
    [op |-> "iceberg", parent |-> parent, visible |-> visible]

\* CheckTriggers(price): the entries of the map it ranges over that it has not
\* come to yet.  Go visits them in any order.
TriggerFrame(p, map, todo) ==
    [op |-> "triggers", price |-> p, map |-> map, todo |-> todo]

\* CancelAllOrders(user): the orders it listed and has not come to yet.
CancelFrame(user, map, todo) ==
    [op |-> "cancel", user |-> user, map |-> map, todo |-> todo]

-----------------------------------------------------------------------------
(* Matching conditions.                                                     *)

\* Mutant: equal prices do not match.
MutCanMatch(side, orderPrice, levelPrice) ==
    IF side = "buy" THEN orderPrice > levelPrice ELSE orderPrice < levelPrice

\* canMatch.
CanMatch(side, orderPrice, levelPrice) ==
    IF side = "buy" THEN orderPrice >= levelPrice ELSE orderPrice <= levelPrice

\* Whether the matching loop of order o may take from a level of price p: the
\* limit loop asks canMatch, the market loop does not.
Takes(o, p) == o.type = "market" \/ CanMatch(o.side, o.price, p)

\* The best opposite level, when the order may take from it.
Target(o) == {p \in BestPrices(OppositeSide[o.side]) : Takes(o, p)}

\* wouldMatch, the post-only check.
WouldMatch(o) ==
    \E p \in BestPrices(OppositeSide[o.side]) : CanMatch(o.side, o.price, p)

-----------------------------------------------------------------------------
(* The stop order manager.                                                  *)

\* A stop-loss buy and a take-profit sell wait for the price to rise, the
\* other two for it to fall.
WaitsForRise(o) ==
    \/ o.type = "stop_loss" /\ o.side = "buy"
    \/ o.type = "take_profit" /\ o.side = "sell"

\* StopOrderManager.AddOrder.
ArmStop(o, r) ==
    LET mine == IF o.user \in DOMAIN stopUsers
                THEN stopUsers[o.user] ELSE EmptyMap
    IN  /\ stopIndex' = MapPut(stopIndex, o.id, r)
        /\ stopUsers' = MapPut(stopUsers, o.user, MapPut(mine, o.id, r))
        /\ IF WaitsForRise(o)
           THEN buyStops' = MapPut(buyStops, o.id, r) /\ UNCHANGED sellStops
           ELSE sellStops' = MapPut(sellStops, o.id, r) /\ UNCHANGED buyStops

\* Mutant: RemoveOrder forgets the map of falling-price orders.
MutDisarmStop(id) ==
    LET user == order[stopIndex[id]].user
    IN  /\ stopIndex' = MapDelete(stopIndex, id)
        /\ buyStops' = MapDelete(buyStops, id)
        /\ UNCHANGED sellStops
        /\ stopUsers' = [stopUsers EXCEPT ![user] = MapDelete(@, id)]

\* StopOrderManager.RemoveOrder, for an order it finds.
DisarmStop(id) ==
    LET user == order[stopIndex[id]].user
    IN  /\ stopIndex' = MapDelete(stopIndex, id)
        /\ buyStops' = MapDelete(buyStops, id)
        /\ sellStops' = MapDelete(sellStops, id)
        /\ stopUsers' = [stopUsers EXCEPT ![user] = MapDelete(@, id)]

\* The condition CheckTriggers tests for an entry of one of its two maps.
Reached(map, o, p) == IF map = "rise" THEN p >= o.stop ELSE p <= o.stop

\* The map a trigger frame ranges over, and the ids in it.
StopMap(map) == IF map = "rise" THEN buyStops ELSE sellStops
Armed(map) == DOMAIN StopMap(map)

-----------------------------------------------------------------------------
(* ProcessOrder.                                                            *)

\* Return to `rest` with a heap in which order r has status st.
ReturnWith(heap, r, st, rest) ==
    /\ order' = [heap EXCEPT ![r].status = st]
    /\ stack' = rest

\* processLimitOrder up to its matching loop.
EnterLimit(heap, r, rest) ==
    \/ /\ heap[r].tif = "POST_ONLY" /\ WouldMatch(heap[r])
       /\ ReturnWith(heap, r, "REJECTED", rest)
    \/ /\ ~ (heap[r].tif = "POST_ONLY" /\ WouldMatch(heap[r]))
       /\ order' = heap
       /\ stack' = <<MatchFrame(r, heap[r].qty, NoPrice)>> \o rest

\* The visible slice of an iceberg order: VisibleQty, by default a tenth of
\* the quantity, and no more than what is left.
VisibleQty(o) ==
    LET asked == IF o.visible = 0 THEN o.qty \div 10 ELSE o.visible
    IN  IF asked > RemainingQty(o) THEN RemainingQty(o) ELSE asked

\* The clone processIcebergOrder sends to the limit loop.
VisibleOrder(o) ==
    [o EXCEPT !.id = <<"visible", o.id[2]>>, !.qty = VisibleQty(o),
              !.type = "limit"]

\* ProcessOrder(r) up to the first matching iteration, for an order that is to
\* be matched (or any order, when the engine is paused).  `heap` holds the new
\* order r, `rest` the frames that wait for it.  The book does not change.
Execute(heap, r, rest) ==
    LET o == heap[r] IN
    \/ paused /\ ReturnWith(heap, r, "REJECTED", rest)
    \/ /\ ~ paused /\ o.type = "market"
       /\ order' = heap
       /\ stack' = <<MatchFrame(r, o.qty, NoPrice)>> \o rest
    \/ /\ ~ paused /\ o.type = "limit"
       /\ EnterLimit(heap, r, rest)
    \/ /\ ~ paused /\ o.type = "iceberg"
       /\ EnterLimit(Append(heap, VisibleOrder(o)), r + 1,
                     <<IcebergFrame(r, r + 1)>> \o rest)

\* ProcessOrder(r) for any order.
ProcessOrder(heap, r, rest) ==
    \/ Execute(heap, r, rest) /\ UNCHANGED stopVars
    \/ /\ ~ paused /\ heap[r].type \in {"stop_loss", "take_profit"}
       /\ ArmStop(heap[r], r)
       /\ ReturnWith(heap, r, "NEW", rest)

\* The submissions so far.
Submitted == {r \in DOMAIN order : order[r].root = r}

\* A client's order reaches the engine (OrderServer.CreateOrder fills in the
\* fields, the id is the client's own or a uuid).
Submit(f, id) ==
    LET r == Len(order) + 1
        o == [id |-> id, user |-> f.user, side |-> f.side, type |-> f.type,
              tif |-> f.tif, price |-> f.price, stop |-> f.stop, qty |-> f.qty,
              visible |-> f.visible, filled |-> 0, status |-> "NEW",
              root |-> r, done |-> 0]
    IN  /\ Idle
        /\ Cardinality(Submitted) < MaxOrders
        /\ FreshIDs => \A k \in DOMAIN order : order[k].id # id
        /\ ProcessOrder(Append(order, o), r, <<>>)
        /\ UNCHANGED <<bookVars, paused, tradePrice>>

-----------------------------------------------------------------------------
(* The matching loops of processMarketOrder and processLimitOrder.          *)

\* The loop goes on: something is left and the best level can be taken from.
Matching(f) == f.rem > 0 /\ Target(order[f.taker]) # {}

\* The heap after a trade of q between taker and maker (matchOrders).
AfterTrade(taker, maker, q) ==
    LET filled == order[maker].filled + q
        hit == [order EXCEPT ![maker].filled = filled]
        told == [hit EXCEPT ![maker].status =
                    IF filled >= order[maker].qty
                    THEN "FILLED" ELSE "PARTIALLY_FILLED"]
        made == [told EXCEPT ![order[maker].root].done = @ + q]
    IN  [made EXCEPT ![order[taker].root].done = @ + q]

\* Mutant: every maker that was hit leaves the book.
MutMatchStep ==
    /\ ~ Idle
    /\ LET f == Head(stack) IN
       /\ f.op = "match" /\ Matching(f)
       /\ \E p \in Target(order[f.taker]) :
             LET side == OppositeSide[order[f.taker].side]
                 maker == Head(level[side][p].orders)
                 left == RemainingQty(order[maker])
                 q == IF f.rem > left THEN left ELSE f.rem
             IN  /\ order' = AfterTrade(f.taker, maker, q)
                 /\ stack' = <<MatchFrame(f.taker, f.rem - q, p)>> \o Tail(stack)
                 /\ tradePrice' = p
                 /\ RemoveOrder(order[maker].id)
                 /\ UNCHANGED <<lastPrice, paused, stopVars>>

\* One iteration: trade with the first order of the best level.  A maker with
\* nothing left makes matchOrders return without a trade, and the loop tries
\* the same maker again.
MatchStep ==
    /\ ~ Idle
    /\ LET f == Head(stack) IN
       /\ f.op = "match" /\ Matching(f)
       /\ \E p \in Target(order[f.taker]) :
             LET side == OppositeSide[order[f.taker].side]
                 maker == Head(level[side][p].orders)
                 left == RemainingQty(order[maker])
                 q == IF f.rem > left THEN left ELSE f.rem
             IN  \/ /\ q > 0
                    /\ order' = AfterTrade(f.taker, maker, q)
                    /\ stack' = <<MatchFrame(f.taker, f.rem - q, p)>> \o Tail(stack)
                    /\ tradePrice' = p
                    /\ \/ /\ q = left
                          /\ RemoveOrder(order[maker].id)
                       \/ /\ q < left
                          /\ UpdateVolume(side, p, q)
                          /\ UNCHANGED <<orderIndex, userOrders, deltaBuffer>>
                    /\ UNCHANGED <<lastPrice, paused, stopVars>>
                 \/ q = 0 /\ UNCHANGED vars

\* Mutant: an IOC order that traded at all reports it was filled.
MutOutcome(o, rem) ==
    CASE rem = 0 \/ (o.tif = "IOC" /\ rem < o.qty) -> "FILLED"
      [] rem > 0 /\ (o.type = "market" \/ o.tif = "FOK") -> "CANCELED"
      [] OTHER -> IF rem < o.qty THEN "PARTIALLY_FILLED" ELSE "NEW"

\* The status the order ends with, when `rem` of it is left.
Outcome(o, rem) ==
    CASE rem = 0 -> "FILLED"
      [] rem > 0 /\ (o.type = "market" \/ o.tif = "FOK") -> "CANCELED"
      [] rem > 0 /\ o.type # "market" /\ o.tif = "IOC" ->
            IF rem < o.qty THEN "PARTIALLY_FILLED" ELSE "CANCELED"
      [] OTHER -> IF rem < o.qty THEN "PARTIALLY_FILLED" ELSE "NEW"

\* What is left of a GTC or post-only limit order joins the book.
Rests(o, rem) == rem > 0 /\ o.type = "limit" /\ o.tif \in {"GTC", "POST_ONLY"}

\* A FOK order that could not be filled: its result lists no trade.
Killed(o, rem) == rem > 0 /\ o.type = "limit" /\ o.tif = "FOK"

\* Mutant: the clone that rests keeps the original quantity.
MutRestOf(o, rem) == [o EXCEPT !.filled = 0]

\* The clone that rests after a partial fill.
RestOf(o, rem) == [o EXCEPT !.qty = rem, !.filled = 0]

\* After the loop, up to the bookkeeping of the last price: the order's own
\* fields, and its rest into the book - a clone if it traded, else itself.
SettleTaker(r, rem) ==
    LET o == order[r]
        settled == [o EXCEPT !.filled = o.qty - rem, !.status = Outcome(o, rem)]
        heap == [order EXCEPT ![r] = settled]
    IN  \/ /\ Rests(o, rem) /\ rem < o.qty
           /\ order' = Append(heap, RestOf(settled, rem))
           /\ AddOrder(Len(order'))
        \/ /\ Rests(o, rem) /\ rem = o.qty
           /\ order' = heap
           /\ AddOrder(r)
        \/ /\ ~ Rests(o, rem)
           /\ order' = heap
           /\ UNCHANGED <<level, orderIndex, userOrders, deltaBuffer>>

\* Mutant: the last price is recorded only by orders that were filled whole.
MutFinishMatch ==
    /\ ~ Idle
    /\ LET f == Head(stack)
           o == order[f.taker]
       IN  /\ f.op = "match" /\ ~ Matching(f)
           /\ SettleTaker(f.taker, f.rem)
           /\ \/ /\ f.last # NoPrice /\ f.rem = 0
                 /\ SetLastPrice(f.last)
                 /\ stack' = <<TriggerFrame(f.last, "rise", Armed("rise"))>>
                                \o Tail(stack)
              \/ /\ f.last = NoPrice \/ f.rem > 0
                 /\ UNCHANGED lastPrice
                 /\ stack' = Tail(stack)
           /\ UNCHANGED <<paused, stopVars, tradePrice>>

\* The end of processMarketOrder and processLimitOrder.
FinishMatch ==
    /\ ~ Idle
    /\ LET f == Head(stack)
           o == order[f.taker]
       IN  /\ f.op = "match" /\ ~ Matching(f)
           /\ SettleTaker(f.taker, f.rem)
           /\ \/ /\ f.last # NoPrice /\ ~ Killed(o, f.rem)
                 /\ SetLastPrice(f.last)
                 /\ stack' = <<TriggerFrame(f.last, "rise", Armed("rise"))>>
                                \o Tail(stack)
              \/ /\ f.last = NoPrice \/ Killed(o, f.rem)
                 /\ UNCHANGED lastPrice
                 /\ stack' = Tail(stack)
           /\ UNCHANGED <<paused, stopVars, tradePrice>>

\* processIcebergOrder, after its slice came back.
FinishIceberg ==
    /\ ~ Idle
    /\ LET f == Head(stack) IN
       /\ f.op = "iceberg"
       /\ order' = [order EXCEPT
             ![f.parent].filled = @ + order[f.visible].filled,
             ![f.parent].status = order[f.visible].status]
       /\ stack' = Tail(stack)
    /\ UNCHANGED <<bookVars, paused, stopVars, tradePrice>>

-----------------------------------------------------------------------------
(* CheckTriggers.                                                           *)

\* The order triggerOrder makes of a stop: limit when it names a price.
Triggered(o, n) ==
    [o EXCEPT !.id = <<"uuid", n>>, !.stop = NoPrice, !.visible = 0,
              !.filled = 0, !.status = "NEW",
              !.type = IF o.price > 0 THEN "limit" ELSE "market",
              !.tif = IF o.price > 0 THEN "GTC" ELSE "IOC"]

\* triggerOrder: disarm the stop and process the order it turns into.
TriggerOrder(id, r, rest) ==
    LET n == Len(order) + 1
    IN  /\ DisarmStop(id)
        /\ Execute(Append(order, Triggered(order[r], n)), n, rest)

\* The next entry of the map: triggered if its condition holds at the price
\* the loop was started with.  Entries gone meanwhile are not visited.
VisitStop ==
    /\ ~ Idle
    /\ LET f == Head(stack)
           left == f.todo \cap Armed(f.map)
       IN  /\ f.op = "triggers"
           /\ \E id \in left :
                 LET r == StopMap(f.map)[id]
                     rest == <<TriggerFrame(f.price, f.map, left \ {id})>>
                                \o Tail(stack)
                 IN  \/ /\ Reached(f.map, order[r], f.price)
                        /\ TriggerOrder(id, r, rest)
                     \/ /\ ~ Reached(f.map, order[r], f.price)
                        /\ stack' = rest
                        /\ UNCHANGED <<order, stopVars>>
    /\ UNCHANGED <<bookVars, paused, tradePrice>>

\* Mutant: the second loop of CheckTriggers is missing.
MutEndRange ==
    /\ ~ Idle
    /\ LET f == Head(stack) IN
       /\ f.op = "triggers"
       /\ f.todo \cap Armed(f.map) = {}
       /\ stack' = Tail(stack)
    /\ UNCHANGED <<order, bookVars, paused, stopVars, tradePrice>>

\* A loop of CheckTriggers ends: the second one follows, or the call returns.
EndRange ==
    /\ ~ Idle
    /\ LET f == Head(stack) IN
       /\ f.op = "triggers"
       /\ f.todo \cap Armed(f.map) = {}
       /\ stack' = IF f.map = "rise"
                   THEN <<TriggerFrame(f.price, "fall", Armed("fall"))>>
                           \o Tail(stack)
                   ELSE Tail(stack)
    /\ UNCHANGED <<order, bookVars, paused, stopVars, tradePrice>>

-----------------------------------------------------------------------------
(* Cancellation.                                                            *)

\* CancelOrder: the resting order with the id, else the armed stop with it.
CancelOrder(id) ==
    \/ /\ Removable(id)
       /\ LET o == order[orderIndex[id]]
              r == level[o.side][o.price].orderMap[id]
          IN  order' = [order EXCEPT ![r].status = "CANCELED"]
       /\ RemoveOrder(id)
       /\ UNCHANGED stopVars
    \/ /\ ~ Removable(id) /\ id \in DOMAIN stopIndex
       /\ order' = [order EXCEPT ![stopIndex[id]].status = "CANCELED"]
       /\ DisarmStop(id)
       /\ UNCHANGED <<level, orderIndex, userOrders, deltaBuffer>>

Cancelable(id) == Removable(id) \/ id \in DOMAIN stopIndex

\* A client cancels an order.
Cancel(id) ==
    /\ Idle /\ "cancel" \in Requests
    /\ CancelOrder(id)
    /\ UNCHANGED <<lastPrice, paused, stack, tradePrice>>

\* CancelAllOrders lists the user's resting orders first.
CancelAll(user) ==
    /\ Idle /\ "cancel_all" \in Requests
    /\ stack' = <<CancelFrame(user, "book",
                     IF user \in DOMAIN userOrders
                     THEN DOMAIN userOrders[user] ELSE {})>>
    /\ UNCHANGED <<order, bookVars, paused, stopVars, tradePrice>>

\* The next listed order.  One that is not found any more is passed over.
CancelNext ==
    /\ ~ Idle
    /\ LET f == Head(stack) IN
       /\ f.op = "cancel"
       /\ \E id \in f.todo :
             /\ stack' = <<CancelFrame(f.user, f.map, f.todo \ {id})>> \o Tail(stack)
             /\ \/ f.map = "book" /\ CancelOrder(id)
                \/ /\ f.map = "stops" /\ id \in DOMAIN stopIndex
                   /\ order' = [order EXCEPT ![stopIndex[id]].status = "CANCELED"]
                   /\ DisarmStop(id)
                   /\ UNCHANGED <<level, orderIndex, userOrders, deltaBuffer>>
                \/ /\ IF f.map = "book" THEN ~ Cancelable(id)
                                       ELSE id \notin DOMAIN stopIndex
                   /\ UNCHANGED <<order, level, orderIndex, userOrders,
                                  deltaBuffer, stopVars>>
    /\ UNCHANGED <<lastPrice, paused, tradePrice>>

\* Mutant: CancelAllOrders returns without looking at the stops.
MutEndCancel ==
    /\ ~ Idle
    /\ LET f == Head(stack) IN
       /\ f.op = "cancel" /\ f.todo = {}
       /\ stack' = Tail(stack)
    /\ UNCHANGED <<order, bookVars, paused, stopVars, tradePrice>>

\* The list is done: the user's armed stops are listed next, or the call ends.
EndCancel ==
    /\ ~ Idle
    /\ LET f == Head(stack) IN
       /\ f.op = "cancel" /\ f.todo = {}
       /\ stack' = IF f.map = "book"
                   THEN <<CancelFrame(f.user, "stops",
                             IF f.user \in DOMAIN stopUsers
                             THEN DOMAIN stopUsers[f.user] ELSE {})>>
                           \o Tail(stack)
                   ELSE Tail(stack)
    /\ UNCHANGED <<order, bookVars, paused, stopVars, tradePrice>>

-----------------------------------------------------------------------------

\* The admin's atomic store, at any moment.
Pause == "pause" \in Requests /\ ~ paused /\ paused' = TRUE
         /\ UNCHANGED <<order, bookVars, stopVars, stack, tradePrice>>

Resume == paused /\ paused' = FALSE
          /\ UNCHANGED <<order, bookVars, stopVars, stack, tradePrice>>

Init ==
    /\ BookInit
    /\ paused = FALSE
    /\ buyStops = EmptyMap /\ sellStops = EmptyMap
    /\ stopIndex = EmptyMap /\ stopUsers = EmptyMap
    /\ stack = <<>>
    /\ tradePrice = NoPrice

\* The steps of a call in progress.
Step ==
    \/ MatchStep \/ FinishMatch \/ FinishIceberg
    \/ VisitStop \/ EndRange
    \/ CancelNext \/ EndCancel

Next ==
    \/ \E f \in Forms, id \in {"client"} \X ClientIDs : Submit(f, id)
    \/ \E id \in DOMAIN orderIndex \cup DOMAIN stopIndex : Cancel(id)
    \/ \E user \in Users : CancelAll(user)
    \/ Step
    \/ Pause \/ Resume

\* A call runs in one goroutine that nothing stops.
Spec == Init /\ [][Next]_vars /\ WF_vars(Step)

-----------------------------------------------------------------------------
(* Properties.                                                              *)

\* Orders the engine holds: a limit or iceberg order names its price.
PricedOrder ==
    {o \in Order : o.type \in {"limit", "iceberg"} => o.price \in Prices}

\* Frames over a heap: what they refer to is in it, and a matching loop holds
\* no more than its order asked for.
Frame(heap) ==
    {f \in [op : {"match"}, taker : DOMAIN heap, rem : Nat,
            last : Prices \cup {NoPrice}] : f.rem <= heap[f.taker].qty}
    \cup [op : {"iceberg"}, parent : DOMAIN heap, visible : DOMAIN heap]
    \cup [op : {"triggers"}, price : Prices, map : {"rise", "fall"},
          todo : SUBSET OrderIDs]
    \cup [op : {"cancel"}, user : Users, map : {"book", "stops"},
          todo : SUBSET OrderIDs]

\* One side of the book over a heap: finitely many levels, none of them empty.
BookSide(levels, heap) ==
    /\ DOMAIN levels \subseteq Prices
    /\ IsFiniteSet(DOMAIN levels)
    /\ \A p \in DOMAIN levels :
          /\ DOMAIN levels[p] = {"orders", "orderMap", "volume"}
          /\ levels[p].orders \in Seq(DOMAIN heap) \ {<<>>}

\* A map from ids to orders of a heap.
Index(index, heap) ==
    \A id \in DOMAIN index : id \in OrderIDs /\ index[id] \in DOMAIN heap

TypeOK ==
    /\ order \in Seq(PricedOrder)
    /\ DOMAIN level = Sides
    /\ \A s \in Sides : BookSide(level[s], order)
    /\ Index(buyStops, order) /\ Index(sellStops, order)
    /\ \A u \in DOMAIN userOrders : DOMAIN userOrders[u] \subseteq OrderIDs
    /\ \A u \in DOMAIN stopUsers : DOMAIN stopUsers[u] \subseteq OrderIDs
    /\ lastPrice \in Prices \cup {NoPrice}
    /\ tradePrice \in Prices \cup {NoPrice}
    /\ paused \in BOOLEAN
    /\ stack \in Seq(Frame(order))

(* The best bid is below the best ask at every moment, also in the middle of *)
(* a call and of the calls nested in it: whoever reads the depth between two *)
(* steps sees an open spread.  (processLimitOrder, match_engine.go:169: an    *)
(* order rests only when the loop found nothing left to match it with.)      *)
BookNotCrossed ==
    \A b \in DOMAIN level["buy"], a \in DOMAIN level["sell"] : b < a

\* The inductive invariant of the proof.
IInv == TypeOK /\ BookNotCrossed

ArmedOrders == {stopIndex[id] : id \in DOMAIN stopIndex}

\* What a matching loop in progress still holds of a submission.
Pending(root) ==
    IF Idle THEN 0
    ELSE LET f == Head(stack)
         IN  IF f.op = "match" /\ order[f.taker].root = root THEN f.rem ELSE 0

\* What can still be executed for a submission.
Outstanding(root) ==
    Pending(root)
    + LeftOf({r \in Resting \cup ArmedOrders : order[r].root = root})

(* No order is executed for more than it asked, whatever objects stand for  *)
(* it on the way - the order itself, its clone in the book, its visible      *)
(* slice, the order its stop turned into - and none of these together could *)
(* still take it beyond.                                                     *)
NoOverfill ==
    \A r \in Submitted : order[r].done + Outstanding(r) <= order[r].qty

\* A submission that stays until it is filled: no IOC, FOK, market order,
\* iceberg, or stop that turns into a market order.
Stays(o) ==
    \/ o.type = "limit" /\ o.tif \in {"GTC", "POST_ONLY"}
    \/ o.type \in {"stop_loss", "take_profit"} /\ o.price # NoPrice

(* Between two calls nothing of an order is lost: unless it was canceled or *)
(* rejected, what was executed and what still rests or waits armed add up to *)
(* what was asked (README.md:11, the rest of a partial fill keeps resting).  *)
NothingLost ==
    Idle => \A r \in Submitted :
        \/ ~ Stays(order[r])
        \/ \E k \in DOMAIN order :
              order[k].root = r /\ order[k].status \in {"CANCELED", "REJECTED"}
        \/ order[r].done + Outstanding(r) = order[r].qty

(* An order that says FILLED ("completely filled", order.go:100) was *)
(* executed in full, be it the client's order, what a stop turned into, or   *)
(* the clone that rested after a partial fill.  (An iceberg's status is its   *)
(* slice's, match_engine.go:294, and speaks of the slice's quantity only.)   *)
FilledIsFilled ==
    \A r \in DOMAIN order :
        LET asked == order[order[r].root]
        IN  order[r].status = "FILLED" /\ asked.type # "iceberg" =>
                asked.done = asked.qty

(* No completed order stays in the book (README.md:13): every order that     *)
(* rests has something left, so that a taker's loop always gets on.          *)
NoFilledRests == \A r \in Resting : RemainingQty(order[r]) > 0

(* An order reported as rejected had no trade (match_engine_test.go:210, "no *)
(* trades should happen for rejected FOK order").                            *)
KilledUntouched ==
    \A r \in Submitted :
        order[r].tif = "FOK" /\ order[r].status = "CANCELED" => order[r].done = 0

(* Between two calls the book's last price is the price of the latest trade, *)
(* although a call sets it once, after its loop, and calls nest.             *)
LastPriceTrue == Idle => lastPrice = tradePrice

(* Every stop is known to the index that cancels it, to its user, and to     *)
(* exactly one of the two maps that trigger it.                              *)
StopsAgree ==
    /\ DOMAIN stopIndex = DOMAIN buyStops \cup DOMAIN sellStops
    /\ DOMAIN buyStops \cap DOMAIN sellStops = {}
    /\ \A id \in DOMAIN stopIndex :
          LET r == stopIndex[id]
          IN  /\ (IF WaitsForRise(order[r]) THEN buyStops ELSE sellStops)[id] = r
              /\ stopUsers[order[r].user][id] = r
    /\ \A u \in DOMAIN stopUsers : DOMAIN stopUsers[u] \subseteq DOMAIN stopIndex

\* A trade happens in this step.
Trades == /\ ~ Idle /\ stack' # <<>>
          /\ Head(stack).op = "match" /\ Head(stack').op = "match"
          /\ Len(stack') = Len(stack) /\ Head(stack').rem < Head(stack).rem

(* Price-time priority (README.md:8): a trade never bypasses a resting order *)
(* of the maker's side with a better price, nor one with the same price that *)
(* joined the book earlier; it is made at the maker's price, and never       *)
(* beyond the taker's limit.  (Addresses are handed out in the order in which *)
(* orders join the book.)                                                    *)
BestFirst ==
    [][Trades =>
         LET taker == order[Head(stack).taker]
             maker == CHOOSE r \in Resting : order'[r].filled # order[r].filled
             side == order[maker].side
         IN  /\ side # taker.side
             /\ tradePrice' = order[maker].price
             /\ taker.type = "limit" => ~ Better(side, taker.price, tradePrice')
                                        \/ taker.price = tradePrice'
             /\ \A r \in Resting \ {maker} :
                   order[r].side = side =>
                       \/ Better(side, order[maker].price, order[r].price)
                       \/ order[maker].price = order[r].price /\ maker < r]_vars

(* When a call that traded returns, no armed stop has its condition met by   *)
(* the last price - although the triggered orders moved that price while the *)
(* loops over the stops were still going on.                                 *)
NoMissedTrigger ==
    [][(~ Idle /\ Head(stack).op = "triggers" /\ stack' = <<>>) =>
         \A map \in {"rise", "fall"} : \A id \in Armed(map) :
             ~ Reached(map, order[StopMap(map)[id]], lastPrice)]_vars

(* When CancelAllOrders returns, the user has no order left in the book and  *)
(* none armed.                                                               *)
CancelAllComplete ==
    [][(~ Idle /\ Head(stack).op = "cancel" /\ stack' = <<>>) =>
         \A r \in Resting \cup ArmedOrders : order[r].user # Head(stack).user]_vars

(* Every call returns: the matching loop ends, and the recursion through the *)
(* stops does.                                                               *)
EngineReturns == []<>Idle
=============================================================================
