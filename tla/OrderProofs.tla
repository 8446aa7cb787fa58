---------------------------- MODULE OrderProofs -----------------------------
(***************************************************************************)
(* What an order is promised, for every message, every order and every flow *)
(* of orders.                                                               *)
(*                                                                         *)
(* The first part is about messages: the engine knows an order for what the *)
(* client asked, and tells it back as it is.  The rest is about the engine, *)
(* while no id is used twice (FreshIDs), one section for each thing a       *)
(* client relies on: ids name orders; a stop is known under its id; the     *)
(* indexes of the book find what rests in it; no order is filled beyond its *)
(* quantity, or loses a part of it; makers are met in price-time order; a   *)
(* cancel-all leaves nothing behind; and the depth of a price never         *)
(* understates what rests there.  Each rests on those before it.  The last  *)
(* section is about the book under its own methods, and a client that       *)
(* mirrors its depth.                                                       *)
(***************************************************************************)
EXTENDS OrderApi, BookFeed, MatchEngineProofs

-----------------------------------------------------------------------------
(* The messages of the order service.                                       *)

\* What the engine can do with a request: it asks for something, and the
\* numbers it gives are prices.
Sensible(req) ==
    /\ req.quantity.value > 0
    /\ ValueOf(req.visible) >= 0
    /\ ValueOf(req.price) \in Prices \cup {NoPrice}
    /\ ValueOf(req.stop) \in Prices \cup {NoPrice}

(* Whatever numbers a client puts into the enum fields, a request that       *)
(* CreateOrder does not refuse becomes an order the engine knows: no side,    *)
(* type or time in force outside its own (order_server.go:62-95, the defaults *)
(* of the tables; proto3 enums are open).                                    *)
THEOREM EveryRequestDecodes ==
    ASSUME NEW req \in CreateOrderRequest, ~ Refused(req), Sensible(req)
    PROVE  FormOf(req) \in Form
<1>1. req.user \in Users
  BY DEF Refused, CreateOrderRequest
<1>2. convertOrderSide(req.side) \in Sides
  BY DEF convertOrderSide, OrderSide, Sides
<1>3. convertOrderType(req.type) \in Types
  BY DEF convertOrderType, OrderType, Types
<1>4. convertTimeInForce(req.tif) \in TimesInForce
  BY DEF convertTimeInForce, TimeInForce, TimesInForce
<1>5. req.quantity.value \in Nat \ {0} /\ ValueOf(req.visible) \in Nat
  <2>1. req.quantity \in Text /\ req.visible \in Text
    BY DEF CreateOrderRequest
  <2>2. req.quantity.value \in Int /\ ValueOf(req.visible) \in Int
    BY <2>1 DEF Text, ValueOf
  <2>3. req.quantity.value > 0 /\ ValueOf(req.visible) >= 0
    BY DEF Sensible
  <2> QED
    BY <2>2, <2>3
<1>6. /\ ValueOf(req.price) \in Prices \cup {NoPrice}
      /\ ValueOf(req.stop) \in Prices \cup {NoPrice}
  BY DEF Sensible
<1> QED
  BY <1>1, <1>2, <1>3, <1>4, <1>5, <1>6 DEF FormOf, Form

\* A price or a quantity is read from the text it was written to.
LEMMA TextRead ==
    ASSUME NEW n
    PROVE  ValueOf(TextOf(n)) = n
BY DEF ValueOf, TextOf

\* The two tables of each enum are inverse on the engine's side.
LEMMA TablesAgree ==
    /\ \A side \in Sides : convertOrderSide(convertOrderSideToProto(side)) = side
    /\ \A type \in Types : convertOrderType(convertOrderTypeToProto(type)) = type
    /\ \A tif \in TimesInForce :
          convertTimeInForce(convertTimeInForceToProto(tif)) = tif
<1>1. \A side \in Sides : convertOrderSide(convertOrderSideToProto(side)) = side
  BY DEF Sides, OrderSide, convertOrderSide, convertOrderSideToProto
<1>2. \A type \in Types : convertOrderType(convertOrderTypeToProto(type)) = type
  BY DEF Types, OrderType, convertOrderType, convertOrderTypeToProto
<1>3. \A tif \in TimesInForce :
          convertTimeInForce(convertTimeInForceToProto(tif)) = tif
  BY DEF TimesInForce, TimeInForce, convertTimeInForce, convertTimeInForceToProto
<1> QED
  BY <1>1, <1>2, <1>3

(* What a client is told of an order is the order: read back with the tables *)
(* requests are read with, every field is the engine's (order_server.go:     *)
(* 227-372, two tables of each enum, written separately).                    *)
THEOREM OrdersToldTrue ==
    ASSUME NEW symbol, NEW o \in Order
    PROVE  Read(convertOrderToProto(symbol, o)) = FormFields(o)
<1>1. o.side \in Sides /\ o.type \in Types /\ o.tif \in TimesInForce
  BY DEF Order
<1> QED
  BY <1>1, TextRead, TablesAgree DEF Read, convertOrderToProto, FormFields

(* A client can tell every status from every other, and from a status that   *)
(* was not set (order_server.go:355-372).                                    *)
THEOREM StatusesTold ==
    ASSUME NEW s \in Statuses, NEW t \in Statuses
    PROVE  StatusTold(s, t)
BY DEF Statuses, StatusTold, convertOrderStatusToProto, OrderStatus

\* The numbers of an order are numbers.
LEMMA OrderNumbers ==
    ASSUME NEW o \in Order
    PROVE  /\ o.price \in Int /\ o.stop \in Int /\ o.qty \in Int
           /\ o.visible \in Int /\ o.filled \in Int
<1>1. o.price \in Prices \cup {NoPrice} /\ o.stop \in Prices \cup {NoPrice}
  BY DEF Order
<1>2. o.qty \in Nat /\ o.visible \in Nat /\ o.filled \in Nat
  BY DEF Order
<1>3. \A p \in Prices \cup {NoPrice} : p \in Int
  BY PricesAssumption DEF NoPrice
<1> QED
  BY <1>1, <1>2, <1>3

\* A number has a text.
LEMMA NumberHasText ==
    ASSUME NEW n \in Int
    PROVE  TextOf(n) \in Text
BY DEF TextOf, Text

\* An order is reported by a message of the wire.
LEMMA OrderIsMessage ==
    ASSUME NEW symbol \in STRING, NEW o \in Order
    PROVE  convertOrderToProto(symbol, o) \in OrderMessage
<1>1. /\ TextOf(o.price) \in Text /\ TextOf(o.stop) \in Text
      /\ TextOf(o.qty) \in Text /\ TextOf(o.visible) \in Text
      /\ TextOf(o.filled) \in Text
  BY OrderNumbers, NumberHasText
<1>2. o.id \in OrderIDs /\ o.user \in Users
  BY DEF Order
<1>3. /\ convertOrderSideToProto(o.side) \in Int
      /\ convertOrderTypeToProto(o.type) \in Int
      /\ convertTimeInForceToProto(o.tif) \in Int
      /\ convertOrderStatusToProto(o.status) \in Int
  BY DEF convertOrderSideToProto, OrderSide, convertOrderTypeToProto, OrderType,
         convertTimeInForceToProto, TimeInForce, convertOrderStatusToProto,
         OrderStatus
<1> QED
  BY <1>1, <1>2, <1>3 DEF convertOrderToProto, OrderMessage

(* A trade between two orders on opposite sides is told with the maker's id,  *)
(* user and price, and with sides that read back as theirs, so that a client  *)
(* who finds its own id in it knows which side it was on (match_engine.go:    *)
(* 328-341, order_server.go:293-310).                                        *)
THEOREM TradesToldTrue ==
    ASSUME NEW symbol \in STRING, NEW taker \in Order, NEW maker \in Order,
           NEW q \in Nat, maker.side = OppositeSide[taker.side]
    PROVE  LET m == convertTradeToProto(symbol, TradeOf(taker, maker, q))
           IN  /\ m \in TradeMessage
               /\ m.maker = maker.id /\ m.makerUser = maker.user
               /\ ValueOf(m.price) = maker.price /\ ValueOf(m.quantity) = q
               /\ convertOrderSide(m.makerSide) = maker.side
               /\ convertOrderSide(m.takerSide) = taker.side
               /\ m.makerSide # m.takerSide
<1>1. taker.side \in Sides /\ maker.side \in Sides
  BY DEF Order
<1>2. maker.side # taker.side
  BY <1>1 DEF OppositeSide, Sides
<1>3. /\ convertOrderSideToProto(maker.side) \in Int
      /\ convertOrderSideToProto(taker.side) \in Int
      /\ convertOrderSideToProto(maker.side) # convertOrderSideToProto(taker.side)
  BY <1>1, <1>2 DEF convertOrderSideToProto, OrderSide, Sides
<1>4. TextOf(maker.price) \in Text /\ TextOf(q) \in Text
  BY OrderNumbers, NumberHasText
<1>5. /\ maker.id \in OrderIDs /\ taker.id \in OrderIDs
      /\ maker.user \in Users /\ taker.user \in Users
  BY DEF Order
<1>6. convertTradeToProto(symbol, TradeOf(taker, maker, q)) \in TradeMessage
  BY <1>3, <1>4, <1>5 DEF convertTradeToProto, TradeOf, TradeMessage
<1> QED
  BY <1>1, <1>3, <1>6, TextRead, TablesAgree DEF convertTradeToProto, TradeOf

(* Whatever orders the engine finds, a cancel's or a query's answer is a      *)
(* message that carries an order exactly when it says it succeeded           *)
(* (order_server.go:116-171).                                                *)
THEOREM AnswersAreMessages ==
    ASSUME NEW symbol \in STRING, NEW held \in Seq(Order)
    PROVE  /\ Len(held) <= 1 =>
                  FoundAnswer(symbol, held) \in GetOrderResponse
           /\ UserOrdersAnswer(symbol, held) \in GetUserOrdersResponse
<1> DEFINE told == [i \in DOMAIN held |-> convertOrderToProto(symbol, held[i])]
<1>1. DOMAIN held = 1 .. Len(held) /\ Len(held) \in Nat
  OBVIOUS
<1>2. ASSUME NEW i \in 1 .. Len(held)
      PROVE  convertOrderToProto(symbol, held[i]) \in OrderMessage
  <2>1. held[i] \in Order
    OBVIOUS
  <2> QED
    BY <2>1, OrderIsMessage
<1>3. told \in Seq(OrderMessage) /\ Len(told) = Len(held)
  <2>1. told \in [1 .. Len(held) -> OrderMessage]
    BY <1>1, <1>2
  <2> HIDE DEF told
  <2> QED
    BY <1>1, <2>1
<1>4. held # <<>> <=> Len(held) # 0
  OBVIOUS
<1> HIDE DEF told
<1>5. UserOrdersAnswer(symbol, held) \in GetUserOrdersResponse
  BY <1>3 DEF UserOrdersAnswer, GetUserOrdersResponse, told
<1>6. ASSUME Len(held) <= 1
      PROVE  FoundAnswer(symbol, held) \in GetOrderResponse
  <2>1. Len(told) = IF held # <<>> THEN 1 ELSE 0
    BY <1>1, <1>3, <1>4, <1>6
  <2>2. FoundAnswer(symbol, held) = [success |-> held # <<>>, orders |-> told]
    BY DEF FoundAnswer, told
  <2>3. FoundAnswer(symbol, held)
           \in [success : BOOLEAN, orders : Seq(OrderMessage)]
    BY <1>3, <2>2
  <2>4. /\ FoundAnswer(symbol, held).orders = told
        /\ FoundAnswer(symbol, held).success = (held # <<>>)
    BY <2>2
  <2> QED
    BY <2>1, <2>3, <2>4 DEF GetOrderResponse, CancelOrderResponse
<1> QED
  BY <1>5, <1>6

-----------------------------------------------------------------------------
(* The objects that stand for an order.                                     *)

USE PricesAssumption, FormsAssumption, BoundsAssumption

\* What object k is, when this step makes it: a client's order, the slice of an
\* iceberg, what an armed stop turns into, or the clone that rests.
Submission(k) == order'[k].root = k /\ order'[k].id \in {"client"} \X ClientIDs

SliceOf(r, k) ==
    /\ order'[r].root = r /\ order'[r].type = "iceberg" /\ order'[k].root = r
    /\ order'[r].id \in {"client"} \X ClientIDs
    /\ order'[k].id = <<"visible", order'[r].id[2]>>
    /\ order'[k].type = "limit"

TriggeredBy(r, k) ==
    /\ order'[k].id = <<"uuid", k>> /\ order'[k].root = order[r].root
    /\ order'[k].type = IF order[r].price > 0 THEN "limit" ELSE "market"
    /\ order'[k].tif = IF order[r].price > 0 THEN "GTC" ELSE "IOC"

CloneOf(r, k) ==
    /\ order[r].type = "limit"
    /\ SameTerms([order[r] EXCEPT !.qty = order'[k].qty], order'[k])

Newcomer(k) ==
    \/ Submission(k)
    \/ \E r \in DOMAIN order' \ DOMAIN order : SliceOf(r, k)
    \/ /\ VisitStop
       /\ \E id \in Armed(Head(stack).map) :
             LET r == StopMap(Head(stack).map)[id]
             IN  r \in DOMAIN order /\ TriggeredBy(r, k)
    \/ \E r \in DOMAIN order : CloneOf(r, k)

LEMMA Newcomers ==
    ASSUME IInv, [Next]_vars, NEW k \in DOMAIN order', k \notin DOMAIN order
    PROVE  Newcomer(k)
<1>1. order \in Seq(PricedOrder) /\ order' \in Seq(PricedOrder)
  BY NextIInv, TypeParts, TypePartsAfter DEF Keeps, IInv
<1> DEFINE n == Len(order) + 1
<1>3. n \in Nat \ {0} /\ n \notin DOMAIN order /\ n + 1 \notin DOMAIN order
  BY <1>1, Len(order) \in Nat
<1>4. ASSUME NEW f \in Forms, NEW id \in {"client"} \X ClientIDs, Submit(f, id)
      PROVE  Newcomer(k)
  <2> DEFINE o == NewOrder(f, id)
             v == VisibleOrder(o)
             sliced == o.type = "iceberg" /\ ~ paused
             last == IF sliced THEN n + 1 ELSE n
  <2>1. /\ o \in PricedOrder
        /\ o.type = "iceberg" => v \in PricedOrder
        /\ Enters(o, <<>>) \/ order' = Append(order, o)
    BY <1>4, SubmitEffect DEF NewOrder
  <2>2. o.id = id /\ o.root = n
    BY DEF NewOrder
  <2>3. v.id = <<"visible", o.id[2]>> /\ v.type = "limit" /\ v.root = o.root
    BY <2>1 DEF VisibleOrder, PricedOrder, Order
  <2> HIDE DEF o, v
  <2>4. CASE order' = Append(order, o)
    <3>1. k = n /\ order'[n] = o
      BY <1>1, <2>1, <2>4, AppendProperties
    <3>2. QED
      BY <2>2, <3>1 DEF Submission, Newcomer
  <2>5. CASE Enters(o, <<>>)
    <3>1. /\ DOMAIN order' = 1 .. last /\ Renewed(o, order'[n])
          /\ sliced => Renewed(v, order'[last])
      BY <1>1, <2>1, <2>5, EntersView DEF v
    <3>2. n \in DOMAIN order' /\ (k = n \/ (sliced /\ k = n + 1))
      <4>1. k \in 1 .. last /\ k \notin 1 .. Len(order) /\ n \in 1 .. last
        BY <1>1, <1>3, <3>1
      <4>2. QED
        BY <1>1, <3>1, <4>1
    <3>3. Submission(n) /\ (sliced => order'[n].type = "iceberg")
      BY <2>2, <3>1 DEF Submission, Renewed, SameTerms
    <3>4. sliced => SliceOf(n, n + 1)
      BY <2>2, <2>3, <3>1, <3>3 DEF SliceOf, Submission, Renewed, SameTerms
    <3>5. QED
      BY <1>3, <3>2, <3>3, <3>4 DEF Newcomer
  <2>6. QED
    BY <2>1, <2>4, <2>5
<1>5. CASE VisitStop
  <2> DEFINE f == Head(stack)
  <2>1. PICK id \in Armed(f.map) :
           LET r == StopMap(f.map)[id]
               o == Triggered(order[r], n)
           IN  /\ r \in DOMAIN order
               /\ \/ /\ o \in PricedOrder /\ o.type \in {"limit", "market"}
                     /\ \E rest : Enters(o, rest)
                  \/ UNCHANGED order
    BY <1>5, VisitEffect
  <2> DEFINE r == StopMap(f.map)[id]
             o == Triggered(order[r], n)
  <2>2. order[r] \in PricedOrder
    BY <1>1, <2>1, ElementOfSeq
  <2>3. /\ o.id = <<"uuid", n>> /\ o.root = order[r].root
        /\ o.type = IF order[r].price > 0 THEN "limit" ELSE "market"
        /\ o.tif = IF order[r].price > 0 THEN "GTC" ELSE "IOC"
    BY <2>2 DEF Triggered, PricedOrder, Order
  <2> HIDE DEF o, r
  <2>4. o \in PricedOrder /\ o.type \in {"limit", "market"} /\ \E rest : Enters(o, rest)
    BY <2>1 DEF o, r
  <2>5. DOMAIN order' = 1 .. n /\ Renewed(o, order'[n])
    BY <1>1, <2>4, EntersView
  <2>6. k = n
    BY <1>1, <2>5, Len(order) \in Nat
  <2>7. TriggeredBy(r, k)
    BY <2>3, <2>5, <2>6 DEF TriggeredBy, Renewed, SameTerms
  <2>8. \E i \in Armed(f.map) :
           StopMap(f.map)[i] \in DOMAIN order /\ TriggeredBy(StopMap(f.map)[i], k)
    BY <2>1, <2>7 DEF r
  <2>9. QED
    BY <1>5, <2>8 DEF Newcomer
<1>6. CASE FinishMatch
  <2> DEFINE f == Head(stack)
             clone == [order[f.taker] EXCEPT !.qty = f.rem]
  <2>1. ~ Idle /\ f.op = "match" /\ SettleTaker(f.taker, f.rem)
    BY <1>6 DEF FinishMatch
  <2>2. f \in Frame(order)
    BY <2>1, HeadTyped
  <2>3. f.taker \in DOMAIN order /\ f.rem \in Nat /\ f.rem <= order[f.taker].qty
    BY <2>1, <2>2 DEF Frame
  <2>4. \/ DOMAIN order' = DOMAIN order
        \/ /\ DOMAIN order' = DOMAIN order \cup {n}
           /\ SameTerms(clone, order'[n]) /\ Rests(order[f.taker], f.rem)
    BY <1>1, <2>1, <2>3, SettleView
  <2>5. k = n /\ SameTerms(clone, order'[k]) /\ order[f.taker].type = "limit"
    BY <2>4 DEF Rests
  <2>6. order[f.taker] \in PricedOrder
    BY <1>1, <2>3, ElementOfSeq
  <2>7. order'[k].qty = f.rem
    BY <2>5, <2>6 DEF SameTerms, PricedOrder, Order
  <2>8. CloneOf(f.taker, k)
    BY <2>5, <2>7 DEF CloneOf
  <2> HIDE DEF f, clone
  <2>9. \E r \in DOMAIN order : CloneOf(r, k)
    BY <2>3, <2>8
  <2>10. QED
    BY <2>9 DEF Newcomer
<1>7. CASE MatchStep
  <2>1. \/ UNCHANGED order
        \/ \E taker, maker, q : order' = AfterTrade(taker, maker, q)
    BY <1>7 DEF MatchStep, vars
  <2>2. \A taker, maker, q : DOMAIN AfterTrade(taker, maker, q) = DOMAIN order
    BY DEF AfterTrade
  <2>3. QED
    BY <2>1, <2>2
<1>8. CASE FinishIceberg
  BY <1>8, IcebergView
<1>9. ASSUME NEW id, Cancel(id) PROVE Newcomer(k)
  BY <1>9 DEF Cancel, CancelOrder
<1>10. CASE CancelNext
  <2>1. \/ UNCHANGED order
        \/ \E r : order' = [order EXCEPT ![r].status = "CANCELED"]
    BY <1>10 DEF CancelNext, CancelOrder
  <2>2. \A r : DOMAIN [order EXCEPT ![r].status = "CANCELED"] = DOMAIN order
    OBVIOUS
  <2>3. QED
    BY <2>1, <2>2
<1>11. CASE UNCHANGED order
  BY <1>11
<1>12. QED
  BY <1>4, <1>5, <1>6, <1>7, <1>8, <1>9, <1>10, <1>11
     DEF Next, Step, CancelAll, EndRange, EndCancel, Pause, Resume, vars

LEMMA Longer ==
    ASSUME NEW S, NEW T, NEW s \in Seq(S), NEW t \in Seq(T), DOMAIN s \subseteq DOMAIN t
    PROVE  Len(s) <= Len(t)
<1>1. Len(s) \in Nat /\ Len(t) \in Nat /\ 1 .. Len(s) \subseteq 1 .. Len(t)
  OBVIOUS
<1>2. Len(s) = 0 \/ Len(s) \in 1 .. Len(t)
  BY <1>1
<1>3. QED
  BY <1>1, <1>2

\* The object a client's order came in with is its own root, and what stems
\* from an order that stays is a limit order that stays.
Lineage ==
    \A k \in DOMAIN order :
        LET r == order[k].root
        IN  /\ r \in DOMAIN order /\ order[r].root = r
            /\ order[k].type = "iceberg" => r = k
            /\ Stays(order[r]) /\ order[k].type \in {"limit", "market"} =>
                  order[k].type = "limit" /\ order[k].tif \in {"GTC", "POST_ONLY"}

\* Ids that are not the client's are made from the client's, or from the
\* number of objects so far.
Issued ==
    \A k \in DOMAIN order :
        /\ order[k].id[1] = "uuid" => order[k].id[2] <= Len(order)
        /\ order[k].id[1] = "visible" =>
              \E j \in DOMAIN order : order[j].id = <<"client", order[k].id[2]>>

\* A map of armed stops names stops as they came in.
ArmedAsSent ==
    \A map \in {"rise", "fall"} : \A id \in Armed(map) :
        LET r == StopMap(map)[id]
        IN  order[r].type \in {"stop_loss", "take_profit"} /\ order[r].root = r

LEMMA ArmedInHeap ==
    ASSUME IInv, NEW map \in {"rise", "fall"}, NEW id \in Armed(map)
    PROVE  StopMap(map)[id] \in DOMAIN order /\ id \in OrderIDs
<1>1. StopsTyped
  BY TypeParts DEF IInv
<1>2. QED
  BY <1>1 DEF StopsTyped, Index, Armed, StopMap

LEMMA ArmedAsSentKeeps == IInv /\ ArmedAsSent /\ [Next]_vars => ArmedAsSent'
<1> SUFFICES ASSUME IInv, ArmedAsSent, [Next]_vars PROVE ArmedAsSent'
  OBVIOUS
<1>1. Grows(order, order') /\ order \in Seq(PricedOrder)
  BY NextIInv, TypeParts DEF Keeps, IInv
\* An entry that was there before is as it was.
<1>2. ASSUME NEW map \in {"rise", "fall"}, NEW id \in Armed(map),
             NEW r, r = StopMap(map)[id]
      PROVE  order'[r].type \in {"stop_loss", "take_profit"} /\ order'[r].root = r
  BY <1>1, <1>2, ArmedInHeap DEF ArmedAsSent, Grows, SameTerms
<1>3. CASE UNCHANGED stopVars
  <2>1. \A map \in {"rise", "fall"} : Armed(map)' = Armed(map) /\ StopMap(map)' = StopMap(map)
    BY <1>3 DEF stopVars, Armed, StopMap
  <2>2. QED
    BY <1>2, <2>1 DEF ArmedAsSent
<1>4. ASSUME NEW id, DisarmStop(id) PROVE ArmedAsSent'
  <2>1. ASSUME NEW map \in {"rise", "fall"}, NEW i \in Armed(map)'
        PROVE  i \in Armed(map) /\ StopMap(map)'[i] = StopMap(map)[i]
    BY <1>4, <2>1 DEF DisarmStop, MapDelete, Armed, StopMap
  <2>2. QED
    BY <1>2, <2>1 DEF ArmedAsSent
<1>5. ASSUME NEW f \in Forms, NEW id \in {"client"} \X ClientIDs, Submit(f, id)
      PROVE  ArmedAsSent'
  <2> DEFINE o == NewOrder(f, id)
             r == Len(order) + 1
  <2>1. \/ UNCHANGED stopVars
        \/ /\ o \in PricedOrder /\ f.type \in {"stop_loss", "take_profit"}
           /\ order' = Append(order, o) /\ ArmStop(o, r)
    BY <1>5, SubmitEffect
  <2>2. o.root = r /\ o.type = f.type
    BY DEF NewOrder
  <2> HIDE DEF o
  <2>3. CASE /\ o \in PricedOrder /\ f.type \in {"stop_loss", "take_profit"}
             /\ order' = Append(order, o) /\ ArmStop(o, r)
    <3>1. order'[r].type \in {"stop_loss", "take_profit"} /\ order'[r].root = r
      BY <1>1, <2>2, <2>3, HeapAppend
    <3>2. ASSUME NEW map \in {"rise", "fall"}, NEW i \in Armed(map)'
          PROVE  \/ StopMap(map)'[i] = r
                 \/ i \in Armed(map) /\ StopMap(map)'[i] = StopMap(map)[i]
      BY <2>3, <3>2 DEF ArmStop, MapPut, Armed, StopMap
    <3>3. QED
      BY <1>2, <3>1, <3>2 DEF ArmedAsSent
  <2>4. QED
    BY <1>3, <2>1, <2>3
<1>6. CASE VisitStop
  BY <1>3, <1>4, <1>6, VisitEffect
<1>7. ASSUME NEW id, Cancel(id) PROVE ArmedAsSent'
  BY <1>3, <1>4, <1>7 DEF Cancel, CancelOrder
<1>8. CASE CancelNext
  <2>1. UNCHANGED stopVars \/ \E id : DisarmStop(id)
    BY <1>8 DEF CancelNext, CancelOrder, stopVars
  <2>2. QED
    BY <1>3, <1>4, <2>1
<1>9. CASE MatchStep
  BY <1>3, <1>9 DEF MatchStep, vars
<1>10. CASE FinishMatch
  BY <1>3, <1>10 DEF FinishMatch
<1>11. CASE FinishIceberg
  BY <1>3, <1>11 DEF FinishIceberg
<1>12. QED
  BY <1>3, <1>5, <1>6, <1>7, <1>8, <1>9, <1>10, <1>11
     DEF Next, Step, CancelAll, EndRange, EndCancel, Pause, Resume, vars

LEMMA StaysTerms ==
    ASSUME NEW a, NEW b, SameTerms(a, b)
    PROVE  Stays(a) <=> Stays(b)
BY DEF SameTerms, Stays

LEMMA LineageKeeps ==
    IInv /\ ArmedAsSent /\ Lineage /\ [Next]_vars => Lineage'
<1> SUFFICES ASSUME IInv, ArmedAsSent, Lineage, [Next]_vars,
                    NEW k \in DOMAIN order'
             PROVE  LET r == order'[k].root
                    IN  /\ r \in DOMAIN order' /\ order'[r].root = r
                        /\ order'[k].type = "iceberg" => r = k
                        /\ Stays(order'[r]) /\ order'[k].type \in {"limit", "market"} =>
                              order'[k].type = "limit"
                              /\ order'[k].tif \in {"GTC", "POST_ONLY"}
  BY DEF Lineage
<1>1. Grows(order, order') /\ order \in Seq(PricedOrder)
  BY NextIInv, TypeParts DEF Keeps, IInv
<1>2. ASSUME NEW j \in DOMAIN order, NEW r, r = order[j].root
      PROVE  /\ r \in DOMAIN order' /\ order'[r].root = r
             /\ order[j].type = "iceberg" => r = j
             /\ Stays(order'[r]) /\ order[j].type \in {"limit", "market"} =>
                   order[j].type = "limit" /\ order[j].tif \in {"GTC", "POST_ONLY"}
  <2>1. r \in DOMAIN order /\ order[r].root = r
    BY <1>2 DEF Lineage
  <2>2. SameTerms(order[r], order'[r]) /\ r \in DOMAIN order'
    BY <1>1, <2>1 DEF Grows
  <2>3. Stays(order'[r]) <=> Stays(order[r])
    BY <2>2, StaysTerms
  <2>4. order'[r].root = r
    BY <2>1, <2>2 DEF SameTerms
  <2>5. QED
    BY <1>2, <2>2, <2>3, <2>4 DEF Lineage
<1>3. CASE k \in DOMAIN order
  <2>1. SameTerms(order[k], order'[k])
    BY <1>1, <1>3 DEF Grows
  <2>2. /\ order'[k].root = order[k].root /\ order'[k].type = order[k].type
        /\ order'[k].tif = order[k].tif
    BY <2>1 DEF SameTerms
  <2>3. QED
    BY <1>2, <1>3, <2>2
<1>4. CASE k \notin DOMAIN order
  <2>1. Newcomer(k)
    BY <1>4, Newcomers
  <2>2. CASE Submission(k)
    BY <2>2 DEF Submission, Stays
  <2>3. ASSUME NEW r \in DOMAIN order', SliceOf(r, k)
        PROVE  /\ order'[k].root = r /\ order'[r].root = r
               /\ order'[k].type # "iceberg" /\ ~ Stays(order'[r])
    BY <2>3 DEF SliceOf, Stays
  <2>4. ASSUME VisitStop, NEW id \in Armed(Head(stack).map), NEW r \in DOMAIN order,
               r = StopMap(Head(stack).map)[id], TriggeredBy(r, k)
        PROVE  /\ order'[k].root = r /\ order'[r].root = r
               /\ order'[k].type # "iceberg"
               /\ Stays(order'[r]) => order'[k].type = "limit" /\ order'[k].tif = "GTC"
    <3>1. Head(stack).map \in {"rise", "fall"}
      <4>1. ~ Idle /\ Head(stack).op = "triggers"
        BY <2>4, VisitEffect
      <4>2. QED
        BY <4>1, HeadTyped DEF Frame
    <3>2. order[r].root = r /\ order[r].type \in {"stop_loss", "take_profit"}
      BY <2>4, <3>1 DEF ArmedAsSent
    <3>3. SameTerms(order[r], order'[r])
      BY <1>1 DEF Grows
    <3>4. order[r].price \in Prices \cup {NoPrice}
      <4>1. order[r] \in PricedOrder
        BY <1>1, ElementOfSeq
      <4>2. QED
        BY <4>1 DEF PricedOrder, Order
    <3>5. Stays(order[r]) => order[r].price > 0
      <4> \A p \in Prices \cup {NoPrice} : p # NoPrice => p > 0
        BY PricesAssumption DEF NoPrice
      <4>1. order[r].price # NoPrice => order[r].price > 0
        BY <3>4
      <4>2. Stays(order[r]) => order[r].price # NoPrice
        BY <3>2 DEF Stays
      <4>3. QED
        BY <4>1, <4>2
    <3>6. order'[r].root = r /\ (Stays(order'[r]) <=> Stays(order[r]))
      BY <3>2, <3>3, StaysTerms DEF SameTerms
    <3>7. QED
      BY <2>4, <3>2, <3>5, <3>6 DEF TriggeredBy
  <2>5. ASSUME NEW r \in DOMAIN order, CloneOf(r, k)
        PROVE  /\ order'[k].root = order[r].root /\ order'[k].type = order[r].type
               /\ order'[k].tif = order[r].tif /\ order'[k].type # "iceberg"
    <3>1. order[r] \in PricedOrder
      BY <1>1, ElementOfSeq
    <3>2. QED
      BY <2>5, <3>1 DEF CloneOf, SameTerms, PricedOrder, Order
  <2>6. ASSUME \E r \in DOMAIN order' : SliceOf(r, k)
        PROVE  LET r == order'[k].root
               IN  /\ r \in DOMAIN order' /\ order'[r].root = r
                   /\ order'[k].type # "iceberg" /\ ~ Stays(order'[r])
    BY <2>3, <2>6
  <2>7. ASSUME \E r \in DOMAIN order : CloneOf(r, k)
        PROVE  LET r == order'[k].root
               IN  /\ r \in DOMAIN order' /\ order'[r].root = r
                   /\ order'[k].type # "iceberg"
                   /\ Stays(order'[r]) /\ order'[k].type \in {"limit", "market"} =>
                         order'[k].type = "limit"
                         /\ order'[k].tif \in {"GTC", "POST_ONLY"}
    BY <1>2, <2>5, <2>7
  <2>8. ASSUME VisitStop,
               \E id \in Armed(Head(stack).map) :
                  LET r == StopMap(Head(stack).map)[id]
                  IN  r \in DOMAIN order /\ TriggeredBy(r, k)
        PROVE  LET r == order'[k].root
               IN  /\ r \in DOMAIN order' /\ order'[r].root = r
                   /\ order'[k].type # "iceberg"
                   /\ Stays(order'[r]) =>
                         order'[k].type = "limit" /\ order'[k].tif = "GTC"
    BY <1>1, <2>4, <2>8 DEF Grows
  <2>9. QED
    BY <2>1, <2>2, <2>6, <2>7, <2>8 DEF Newcomer, Submission, Stays
<1>5. QED
  BY <1>3, <1>4

LEMMA IssuedKeeps == IInv /\ Issued /\ [Next]_vars => Issued'
<1> SUFFICES ASSUME IInv, Issued, [Next]_vars, NEW k \in DOMAIN order'
             PROVE  /\ order'[k].id[1] = "uuid" => order'[k].id[2] <= Len(order')
                    /\ order'[k].id[1] = "visible" =>
                          \E j \in DOMAIN order' :
                              order'[j].id = <<"client", order'[k].id[2]>>
  BY DEF Issued
<1>1. /\ Grows(order, order') /\ order \in Seq(PricedOrder)
      /\ order' \in Seq(PricedOrder)
  BY NextIInv, TypeParts, TypePartsAfter DEF Keeps, IInv
<1>2. Len(order) <= Len(order')
  BY <1>1, Longer DEF Grows
<1>3. ASSUME NEW r \in DOMAIN order
      PROVE  /\ order[r].id[1] = "uuid" => order[r].id[2] <= Len(order')
             /\ order[r].id[1] = "visible" =>
                   \E j \in DOMAIN order' :
                       order'[j].id = <<"client", order[r].id[2]>>
  <2>1. ASSUME order[r].id[1] = "uuid" PROVE order[r].id[2] <= Len(order')
    <3>1. order[r].id[2] <= Len(order)
      BY <2>1 DEF Issued
    <3>2. order[r].id \in OrderIDs
      BY <1>1, ElementOfSeq DEF PricedOrder, Order
    <3>3. order[r].id[2] \in Nat
      BY <2>1, <3>2 DEF OrderIDs
    <3>4. QED
      BY <1>1, <1>2, <3>1, <3>3
  <2>2. ASSUME order[r].id[1] = "visible"
        PROVE  \E j \in DOMAIN order' : order'[j].id = <<"client", order[r].id[2]>>
    <3>1. PICK j \in DOMAIN order : order[j].id = <<"client", order[r].id[2]>>
      BY <2>2 DEF Issued
    <3>2. j \in DOMAIN order' /\ order'[j].id = order[j].id
      BY <1>1 DEF Grows, SameTerms
    <3>3. QED
      BY <3>1, <3>2
  <2>3. QED
    BY <2>1, <2>2
<1>4. CASE k \in DOMAIN order
  <2>1. order'[k].id = order[k].id
    BY <1>1, <1>4 DEF Grows, SameTerms
  <2>2. QED
    BY <1>3, <1>4, <2>1
<1>5. CASE k \notin DOMAIN order
  <2>1. Newcomer(k)
    BY <1>5, Newcomers
  <2>2. CASE Submission(k)
    BY <2>2 DEF Submission
  <2>3. CASE \E r \in DOMAIN order' \ DOMAIN order : SliceOf(r, k)
    <3>1. PICK r \in DOMAIN order' : SliceOf(r, k)
      BY <2>3
    <3>2. order'[r].id = <<"client", order'[k].id[2]>> /\ order'[k].id[1] = "visible"
      BY <3>1 DEF SliceOf
    <3>3. QED
      BY <3>2
  <2>4. CASE \E r : TriggeredBy(r, k)
    BY <1>1, <2>4 DEF TriggeredBy
  <2>5. CASE \E r \in DOMAIN order : CloneOf(r, k)
    <3>1. PICK r \in DOMAIN order : CloneOf(r, k)
      BY <2>5
    <3>2. order[r] \in PricedOrder
      BY <1>1, ElementOfSeq
    <3>3. order'[k].id = order[r].id
      BY <3>1, <3>2 DEF CloneOf, SameTerms, PricedOrder, Order
    <3>4. QED
      BY <1>3, <3>3
  <2>6. QED
    BY <2>1, <2>2, <2>3, <2>4, <2>5 DEF Newcomer
<1>6. QED
  BY <1>4, <1>5

-----------------------------------------------------------------------------
(* The maps of armed stops.                                                 *)

\* One armed stop: the map that triggers it, the index and its user's map
\* hold the same object under its id, and the other map does not.
StopKept(id) ==
    LET r == stopIndex[id]
        o == order[r]
        rising == WaitsForRise(o)
        own == IF rising THEN buyStops ELSE sellStops
        other == IF rising THEN sellStops ELSE buyStops
    IN  /\ r \in DOMAIN order /\ o.id = id
        /\ id \in DOMAIN own /\ own[id] = r /\ id \notin DOMAIN other
        /\ o.user \in DOMAIN stopUsers
        /\ id \in DOMAIN stopUsers[o.user] /\ stopUsers[o.user][id] = r

\* The inductive invariant behind StopsAgree.
StopsKept ==
    /\ \A id \in DOMAIN stopIndex : StopKept(id)
    /\ DOMAIN buyStops \cup DOMAIN sellStops \subseteq DOMAIN stopIndex
    /\ \A u \in DOMAIN stopUsers : \A id \in DOMAIN stopUsers[u] :
          id \in DOMAIN stopIndex /\ order[stopIndex[id]].user = u

LEMMA KeptAgrees == StopsKept => StopsAgree
<1> SUFFICES ASSUME StopsKept PROVE StopsAgree
  OBVIOUS
<1>1. ASSUME NEW id \in DOMAIN stopIndex
      PROVE  LET r == stopIndex[id]
             IN  /\ (IF WaitsForRise(order[r]) THEN buyStops ELSE sellStops)[id] = r
                 /\ stopUsers[order[r].user][id] = r
                 /\ id \in DOMAIN buyStops \cup DOMAIN sellStops
                 /\ id \notin DOMAIN buyStops \cap DOMAIN sellStops
  BY DEF StopsKept, StopKept
<1>2. DOMAIN stopIndex = DOMAIN buyStops \cup DOMAIN sellStops
  BY <1>1 DEF StopsKept
<1>3. DOMAIN buyStops \cap DOMAIN sellStops = {}
  BY <1>1, <1>2
<1>4. \A u \in DOMAIN stopUsers : DOMAIN stopUsers[u] \subseteq DOMAIN stopIndex
  BY DEF StopsKept
<1>5. QED
  BY <1>1, <1>2, <1>3, <1>4 DEF StopsAgree

LEMMA StopsUntouched ==
    ASSUME StopsKept, Grows(order, order'), UNCHANGED stopVars
    PROVE  StopsKept'
<1>1. ASSUME NEW id \in DOMAIN stopIndex PROVE StopKept(id)'
  BY <1>1 DEF StopsKept, StopKept, Grows, SameTerms, WaitsForRise, stopVars
<1>2. \A u \in DOMAIN stopUsers : \A id \in DOMAIN stopUsers[u] :
          id \in DOMAIN stopIndex /\ order'[stopIndex[id]].user = u
  BY DEF StopsKept, StopKept, Grows, SameTerms
<1>3. QED
  BY <1>1, <1>2 DEF StopsKept, stopVars

LEMMA ArmKeeps ==
    ASSUME StopsKept, Grows(order, order'), NEW r \in DOMAIN order',
           NEW o, order'[r] = o, o.id \notin DOMAIN stopIndex, ArmStop(o, r)
    PROVE  StopsKept'
<1> DEFINE mine == IF o.user \in DOMAIN stopUsers
                   THEN stopUsers[o.user] ELSE EmptyMap
           new == MapPut(mine, o.id, r)
<1>1. /\ DOMAIN stopIndex' = DOMAIN stopIndex \cup {o.id}
      /\ \A id \in DOMAIN stopIndex : stopIndex'[id] = stopIndex[id]
      /\ stopIndex'[o.id] = r
  BY DEF ArmStop, MapPut
<1>2. /\ DOMAIN new = DOMAIN mine \cup {o.id} /\ new[o.id] = r
      /\ \A id \in DOMAIN mine : id # o.id => new[id] = mine[id]
  BY DEF MapPut
<1>3. /\ DOMAIN stopUsers' = DOMAIN stopUsers \cup {o.user}
      /\ stopUsers'[o.user] = new
      /\ \A u \in DOMAIN stopUsers : u # o.user => stopUsers'[u] = stopUsers[u]
  BY DEF ArmStop, MapPut
<1>4. /\ DOMAIN mine \subseteq DOMAIN stopIndex
      /\ \A id \in DOMAIN mine :
            o.user \in DOMAIN stopUsers /\ id \in DOMAIN stopUsers[o.user]
  BY DEF StopsKept, EmptyMap
<1>5. o.user \in DOMAIN stopUsers => mine = stopUsers[o.user]
  OBVIOUS
<1> HIDE DEF new, mine
<1>6. ASSUME NEW id \in DOMAIN stopIndex PROVE StopKept(id)'
  <2> DEFINE k == stopIndex[id]
             a == order[k]
             b == order'[k]
  <2>1. StopKept(id) /\ id # o.id /\ stopIndex'[id] = k
    BY <1>1 DEF StopsKept
  <2>2. k \in DOMAIN order' /\ SameTerms(a, b)
    BY <2>1 DEF StopKept, Grows
  <2>3. b.id = id /\ b.user = a.user /\ (WaitsForRise(b) <=> WaitsForRise(a))
    BY <2>1, <2>2 DEF StopKept, SameTerms, WaitsForRise
  <2>4. /\ DOMAIN buyStops' \subseteq DOMAIN buyStops \cup {o.id}
        /\ DOMAIN sellStops' \subseteq DOMAIN sellStops \cup {o.id}
        /\ id \in DOMAIN buyStops => id \in DOMAIN buyStops' /\ buyStops'[id] = buyStops[id]
        /\ id \in DOMAIN sellStops => id \in DOMAIN sellStops' /\ sellStops'[id] = sellStops[id]
    BY <2>1 DEF ArmStop, MapPut
  <2>5. /\ a.user \in DOMAIN stopUsers'
        /\ id \in DOMAIN stopUsers'[a.user] /\ stopUsers'[a.user][id] = k
    <3>1. /\ a.user \in DOMAIN stopUsers /\ id \in DOMAIN stopUsers[a.user]
          /\ stopUsers[a.user][id] = k
      BY <2>1 DEF StopKept
    <3>2. CASE a.user = o.user
      BY <1>2, <1>3, <1>5, <2>1, <3>1, <3>2
    <3>3. CASE a.user # o.user
      BY <1>3, <3>1, <3>3
    <3>4. QED
      BY <3>2, <3>3
  <2>6. /\ id \in DOMAIN (IF WaitsForRise(a) THEN buyStops ELSE sellStops)
        /\ (IF WaitsForRise(a) THEN buyStops ELSE sellStops)[id] = k
        /\ id \notin DOMAIN (IF WaitsForRise(a) THEN sellStops ELSE buyStops)
    BY <2>1 DEF StopKept
  <2> HIDE DEF a, b, k
  <2>7. QED
    BY <2>1, <2>2, <2>3, <2>4, <2>5, <2>6 DEF StopKept, b
<1>7. StopKept(o.id)'
  <2>1. o.id \notin DOMAIN buyStops /\ o.id \notin DOMAIN sellStops
    BY DEF StopsKept
  <2>2. IF WaitsForRise(o)
        THEN o.id \in DOMAIN buyStops' /\ buyStops'[o.id] = r /\ o.id \notin DOMAIN sellStops'
        ELSE o.id \in DOMAIN sellStops' /\ sellStops'[o.id] = r /\ o.id \notin DOMAIN buyStops'
    BY <2>1 DEF ArmStop, MapPut
  <2>3. /\ o.user \in DOMAIN stopUsers' /\ o.id \in DOMAIN stopUsers'[o.user]
        /\ stopUsers'[o.user][o.id] = r
    BY <1>2, <1>3
  <2>4. QED
    BY <1>1, <2>2, <2>3 DEF StopKept
<1>8. DOMAIN buyStops' \cup DOMAIN sellStops' \subseteq DOMAIN stopIndex'
  BY <1>1 DEF ArmStop, MapPut, StopsKept
<1>9. ASSUME NEW u \in DOMAIN stopUsers', NEW id \in DOMAIN stopUsers'[u]
      PROVE  id \in DOMAIN stopIndex' /\ order'[stopIndex'[id]].user = u
  <2>1. CASE u \in DOMAIN stopUsers /\ id \in DOMAIN stopUsers[u]
    <3>1. id \in DOMAIN stopIndex /\ order[stopIndex[id]].user = u
      BY <2>1 DEF StopsKept
    <3>2. stopIndex[id] \in DOMAIN order
      BY <3>1 DEF StopsKept, StopKept
    <3>3. QED
      BY <1>1, <3>1, <3>2 DEF Grows, SameTerms
  <2>2. CASE u = o.user /\ id = o.id
    BY <1>1, <2>2
  <2>3. QED
    BY <1>2, <1>3, <1>4, <1>5, <2>1, <2>2
<1>10. QED
  BY <1>1, <1>6, <1>7, <1>8, <1>9 DEF StopsKept

LEMMA DisarmKeeps ==
    ASSUME StopsKept, Grows(order, order'), NEW id \in DOMAIN stopIndex,
           DisarmStop(id)
    PROVE  StopsKept'
<1> DEFINE user == order[stopIndex[id]].user
<1>1. /\ DOMAIN stopIndex' = DOMAIN stopIndex \ {id}
      /\ \A i \in DOMAIN stopIndex' : stopIndex'[i] = stopIndex[i]
      /\ DOMAIN buyStops' = DOMAIN buyStops \ {id}
      /\ \A i \in DOMAIN buyStops' : buyStops'[i] = buyStops[i]
      /\ DOMAIN sellStops' = DOMAIN sellStops \ {id}
      /\ \A i \in DOMAIN sellStops' : sellStops'[i] = sellStops[i]
  BY DEF DisarmStop, MapDelete
<1>2. user \in DOMAIN stopUsers
  BY DEF StopsKept, StopKept
<1>3. /\ DOMAIN stopUsers' = DOMAIN stopUsers
      /\ stopUsers'[user] = MapDelete(stopUsers[user], id)
      /\ \A u \in DOMAIN stopUsers : u # user => stopUsers'[u] = stopUsers[u]
  BY <1>2 DEF DisarmStop
<1>4. /\ DOMAIN stopUsers'[user] = DOMAIN stopUsers[user] \ {id}
      /\ \A i \in DOMAIN stopUsers'[user] : stopUsers'[user][i] = stopUsers[user][i]
  BY <1>3 DEF MapDelete
<1> HIDE DEF user
<1>5. ASSUME NEW i \in DOMAIN stopIndex' PROVE StopKept(i)'
  <2> DEFINE k == stopIndex[i]
             a == order[k]
             b == order'[k]
  <2>1. i \in DOMAIN stopIndex /\ i # id /\ stopIndex'[i] = k /\ StopKept(i)
    BY <1>1 DEF StopsKept
  <2>2. k \in DOMAIN order' /\ SameTerms(a, b)
    BY <2>1 DEF StopKept, Grows
  <2>3. b.id = i /\ b.user = a.user /\ (WaitsForRise(b) <=> WaitsForRise(a))
    BY <2>1, <2>2 DEF StopKept, SameTerms, WaitsForRise
  <2>4. /\ i \in DOMAIN (IF WaitsForRise(a) THEN buyStops ELSE sellStops)
        /\ (IF WaitsForRise(a) THEN buyStops ELSE sellStops)[i] = k
        /\ i \notin DOMAIN (IF WaitsForRise(a) THEN sellStops ELSE buyStops)
        /\ a.user \in DOMAIN stopUsers /\ i \in DOMAIN stopUsers[a.user]
        /\ stopUsers[a.user][i] = k
    BY <2>1 DEF StopKept
  <2>5. /\ a.user \in DOMAIN stopUsers' /\ i \in DOMAIN stopUsers'[a.user]
        /\ stopUsers'[a.user][i] = k
    BY <1>3, <1>4, <2>1, <2>4
  <2>6. /\ i \in DOMAIN (IF WaitsForRise(a) THEN buyStops' ELSE sellStops')
        /\ (IF WaitsForRise(a) THEN buyStops' ELSE sellStops')[i] = k
        /\ i \notin DOMAIN (IF WaitsForRise(a) THEN sellStops' ELSE buyStops')
    BY <1>1, <2>1, <2>4
  <2> HIDE DEF a, b, k
  <2>7. QED
    BY <2>1, <2>2, <2>3, <2>5, <2>6 DEF StopKept, b
<1>6. DOMAIN buyStops' \cup DOMAIN sellStops' \subseteq DOMAIN stopIndex'
  BY <1>1 DEF StopsKept
<1>7. ASSUME NEW u \in DOMAIN stopUsers', NEW i \in DOMAIN stopUsers'[u]
      PROVE  i \in DOMAIN stopIndex' /\ order'[stopIndex'[i]].user = u
  <2>1. u \in DOMAIN stopUsers /\ i \in DOMAIN stopUsers[u]
    BY <1>3, <1>4
  <2>2. i \in DOMAIN stopIndex /\ order[stopIndex[i]].user = u
    BY <2>1 DEF StopsKept
  <2>3. i # id
    BY <1>3, <1>4, <2>2 DEF user
  <2>4. stopIndex[i] \in DOMAIN order
    BY <2>2 DEF StopsKept, StopKept
  <2>5. QED
    BY <1>1, <2>2, <2>3, <2>4 DEF Grows, SameTerms
<1>8. QED
  BY <1>5, <1>6, <1>7 DEF StopsKept

LEMMA StopsKeptKeeps ==
    ASSUME FreshIDs, IInv, StopsKept, [Next]_vars
    PROVE  StopsKept'
<1>1. Grows(order, order') /\ order \in Seq(PricedOrder)
  BY NextIInv, TypeParts DEF Keeps, IInv
<1>2. CASE UNCHANGED stopVars
  BY <1>1, <1>2, StopsUntouched
<1>3. ASSUME NEW id \in DOMAIN stopIndex, DisarmStop(id) PROVE StopsKept'
  BY <1>1, <1>3, DisarmKeeps
<1>4. ASSUME NEW f \in Forms, NEW id \in {"client"} \X ClientIDs, Submit(f, id)
      PROVE  StopsKept'
  <2> DEFINE o == NewOrder(f, id)
             r == Len(order) + 1
  <2>1. /\ \A k \in DOMAIN order : order[k].id # id
        /\ o \in PricedOrder
        /\ \/ UNCHANGED stopVars
           \/ order' = Append(order, o) /\ ArmStop(o, r)
    BY <1>4, SubmitEffect
  <2>2. o.id = id
    BY DEF NewOrder
  <2> HIDE DEF o, r
  <2>3. o.id \notin DOMAIN stopIndex
    BY <2>1, <2>2 DEF StopsKept, StopKept
  <2>4. CASE order' = Append(order, o) /\ ArmStop(o, r)
    <3>1. r \in DOMAIN order' /\ order'[r] = o
      BY <1>1, <2>1, <2>4, HeapAppend DEF r
    <3>2. QED
      BY <1>1, <2>3, <2>4, <3>1, ArmKeeps
  <2>5. QED
    BY <1>2, <2>1, <2>4
<1>5. CASE VisitStop
  <2> DEFINE f == Head(stack)
  <2>1. /\ ~ Idle /\ f.op = "triggers"
        /\ UNCHANGED stopVars \/ \E id \in Armed(f.map) : DisarmStop(id)
    BY <1>5, VisitEffect
  <2>2. f.map \in {"rise", "fall"}
    BY <2>1, HeadTyped DEF Frame
  <2>3. Armed(f.map) \subseteq DOMAIN stopIndex
    BY <2>2 DEF Armed, StopMap, StopsKept
  <2>4. QED
    BY <1>2, <1>3, <2>1, <2>3
<1>6. ASSUME NEW id, Cancel(id) PROVE StopsKept'
  BY <1>2, <1>3, <1>6 DEF Cancel, CancelOrder
<1>7. CASE CancelNext
  <2>1. UNCHANGED stopVars \/ \E id \in DOMAIN stopIndex : DisarmStop(id)
    BY <1>7 DEF CancelNext, CancelOrder, stopVars
  <2>2. QED
    BY <1>2, <1>3, <2>1
<1>8. CASE MatchStep
  BY <1>2, <1>8 DEF MatchStep, vars
<1>9. CASE FinishMatch
  BY <1>2, <1>9 DEF FinishMatch
<1>10. CASE FinishIceberg
  BY <1>2, <1>10 DEF FinishIceberg
<1>11. QED
  BY <1>2, <1>4, <1>5, <1>6, <1>7, <1>8, <1>9, <1>10
     DEF Next, Step, CancelAll, EndRange, EndCancel, Pause, Resume, vars

LEMMA StopsKeptAlways ==
    ASSUME FreshIDs
    PROVE  Spec => []StopsKept
<1>1. Init => StopsKept
  BY DEF Init, StopsKept, EmptyMap
<1>2. IInv /\ StopsKept /\ [Next]_vars => StopsKept'
  BY StopsKeptKeeps
<1>3. QED
  BY <1>1, <1>2, EngineInvariant, PTL DEF Spec

(* Property StopsAgree, as long as no id is used twice (AddOrder and         *)
(* RemoveOrder of the StopOrderManager move four maps by the id alone).     *)
THEOREM StopsAgreeAlways == FreshIDs => (Spec => []StopsAgree)
<1> SUFFICES ASSUME FreshIDs PROVE Spec => []StopsAgree
  OBVIOUS
<1>1. Spec => []StopsKept
  BY StopsKeptAlways
<1>2. QED
  BY <1>1, KeptAgrees, PTL

-----------------------------------------------------------------------------
(* The book's queues and indexes.                                           *)

\* The order an index names rests where its side and price say, and its user
\* knows it.
RestsAt(id) ==
    LET r == orderIndex[id]
        o == order[r]
    IN  /\ r \in DOMAIN order /\ o.id = id
        /\ o.price \in DOMAIN level[o.side]
        /\ r \in Queued(o.side, o.price)
        /\ id \in DOMAIN level[o.side][o.price].orderMap
        /\ level[o.side][o.price].orderMap[id] = r
        /\ o.user \in DOMAIN userOrders
        /\ id \in DOMAIN userOrders[o.user]

\* A queue holds orders of its side and price that the index names, in the
\* order in which they were made.
LevelKept(s, p) ==
    /\ Increasing(level[s][p].orders)
    /\ \A r \in Queued(s, p) :
          /\ order[r].side = s /\ order[r].price = p
          /\ order[r].id \in DOMAIN orderIndex /\ orderIndex[order[r].id] = r

\* A user's map names orders of the user that rest.
UserKept(u) ==
    /\ DOMAIN userOrders[u] # {}
    /\ \A id \in DOMAIN userOrders[u] :
          /\ id \in DOMAIN orderIndex
          /\ orderIndex[id] = userOrders[u][id]
          /\ order[orderIndex[id]].user = u

\* The inductive invariant behind IndexAgrees.
BookKept ==
    /\ \A id \in DOMAIN orderIndex : RestsAt(id)
    /\ \A s \in Sides : \A p \in DOMAIN level[s] : LevelKept(s, p)
    /\ \A u \in DOMAIN userOrders : UserKept(u)

LEMMA QueueTyped ==
    ASSUME IInv, NEW s \in Sides, NEW p \in DOMAIN level[s]
    PROVE  /\ level[s][p].orders \in Seq(Nat) /\ level[s][p].orders # <<>>
           /\ Queued(s, p) \subseteq DOMAIN order
           /\ p \in Prices
<1>1. BookSide(level[s], order) /\ order \in Seq(PricedOrder)
  BY TypeParts DEF IInv, BookTyped
<1>2. level[s][p].orders \in Seq(DOMAIN order) \ {<<>>} /\ p \in Prices
  BY <1>1 DEF BookSide
<1>3. DOMAIN order \subseteq Nat
  BY <1>1
<1>4. Seq(DOMAIN order) \subseteq Seq(Nat)
  BY <1>3, SeqMonotonic
<1>5. QED
  BY <1>2, <1>4 DEF Queued, ToSet

\* Side, price and user of an order in the heap are known.
LEMMA OrderTyped ==
    ASSUME IInv, NEW r \in DOMAIN order
    PROVE  /\ order[r] \in PricedOrder /\ order[r].side \in Sides
           /\ order[r].qty \in Nat /\ order[r].filled \in Nat
           /\ order[r].done \in Nat /\ r \in Nat
<1>1. order \in Seq(PricedOrder)
  BY TypeParts DEF IInv
<1>2. order[r] \in PricedOrder
  BY <1>1, ElementOfSeq
<1>3. QED
  BY <1>1, <1>2 DEF PricedOrder, Order

LEMMA RestingMember ==
    ASSUME NEW r
    PROVE  r \in Resting <=> \/ \E p \in DOMAIN level["buy"] : r \in Queued("buy", p)
                             \/ \E p \in DOMAIN level["sell"] : r \in Queued("sell", p)
BY Zenon DEF Resting

LEMMA RestingIsHeld ==
    ASSUME IInv, BookKept
    PROVE  Resting = {orderIndex[id] : id \in DOMAIN orderIndex}
<1>1. ASSUME NEW id \in DOMAIN orderIndex PROVE orderIndex[id] \in Resting
  <2> DEFINE o == order[orderIndex[id]]
  <2>1. /\ o.price \in DOMAIN level[o.side]
        /\ orderIndex[id] \in Queued(o.side, o.price)
        /\ orderIndex[id] \in DOMAIN order
    BY DEF BookKept, RestsAt
  <2> DEFINE r == orderIndex[id]
             s == o.side
             p == o.price
  <2>2. s = "buy" \/ s = "sell"
    BY <2>1, OrderTyped DEF Sides
  <2> HIDE DEF o, r, s, p
  <2>3. p \in DOMAIN level[s] /\ r \in Queued(s, p)
    BY <2>1 DEF r, s, p
  <2>4. CASE s = "buy"
    BY <2>3, <2>4, RestingMember DEF r
  <2>5. CASE s = "sell"
    BY <2>3, <2>5, RestingMember DEF r
  <2>6. QED
    BY <2>2, <2>4, <2>5
<1>2. ASSUME NEW r \in Resting PROVE \E id \in DOMAIN orderIndex : orderIndex[id] = r
  <2>1. \/ \E p \in DOMAIN level["buy"] : r \in Queued("buy", p)
        \/ \E p \in DOMAIN level["sell"] : r \in Queued("sell", p)
    BY <1>2, RestingMember
  <2>2. \E s \in Sides : \E p \in DOMAIN level[s] : r \in Queued(s, p)
    BY <2>1 DEF Sides
  <2>3. PICK s \in Sides : \E p \in DOMAIN level[s] : r \in Queued(s, p)
    BY <2>2
  <2>4. QED
    BY <2>3 DEF BookKept, LevelKept
<1>3. QED
  BY <1>1, <1>2

LEMMA BookAgrees == IInv /\ BookKept => IndexAgrees
<1> SUFFICES ASSUME IInv, BookKept PROVE IndexAgrees
  OBVIOUS
<1>1. \A id \in DOMAIN orderIndex :
          LET r == orderIndex[id]
              o == order[r]
          IN  /\ o.id = id
              /\ o.price \in DOMAIN level[o.side]
              /\ r \in Queued(o.side, o.price)
              /\ id \in DOMAIN level[o.side][o.price].orderMap
              /\ level[o.side][o.price].orderMap[id] = r
              /\ id \in DOMAIN userOrders[o.user]
  BY DEF BookKept, RestsAt
<1>2. \A s \in Sides : \A p \in DOMAIN level[s] : level[s][p].orders # <<>>
  BY QueueTyped
<1>3. \A u \in DOMAIN userOrders :
          /\ userOrders[u] # EmptyMap
          /\ \A id \in DOMAIN userOrders[u] :
                id \in DOMAIN orderIndex /\ orderIndex[id] = userOrders[u][id]
  BY DEF BookKept, UserKept, EmptyMap
<1>4. QED
  BY <1>1, <1>2, <1>3, RestingIsHeld DEF IndexAgrees

\* A step that changes no queue and no index.
LEMMA QueuesUntouched ==
    ASSUME IInv, BookKept, Grows(order, order'),
           UNCHANGED <<orderIndex, userOrders>>,
           \A s \in Sides :
              /\ DOMAIN level'[s] = DOMAIN level[s]
              /\ \A p \in DOMAIN level[s] :
                    /\ level'[s][p].orders = level[s][p].orders
                    /\ level'[s][p].orderMap = level[s][p].orderMap
    PROVE  BookKept'
<1>1. ASSUME NEW r \in DOMAIN order
      PROVE  /\ r \in DOMAIN order' /\ order'[r].id = order[r].id
             /\ order'[r].side = order[r].side /\ order'[r].price = order[r].price
             /\ order'[r].user = order[r].user /\ order[r].side \in Sides
  BY OrderTyped DEF Grows, SameTerms
<1>2. ASSUME NEW id \in DOMAIN orderIndex PROVE RestsAt(id)'
  BY <1>1 DEF BookKept, RestsAt, Queued
<1>3. ASSUME NEW s \in Sides, NEW p \in DOMAIN level[s] PROVE LevelKept(s, p)'
  BY <1>1, QueueTyped DEF BookKept, LevelKept, Queued
<1>4. ASSUME NEW u \in DOMAIN userOrders PROVE UserKept(u)'
  <2>1. ASSUME NEW id \in DOMAIN userOrders[u]
        PROVE  /\ id \in DOMAIN orderIndex
               /\ orderIndex[id] = userOrders[u][id]
               /\ order'[orderIndex[id]].user = u
    BY <1>1 DEF BookKept, UserKept, RestsAt
  <2>2. QED
    BY <2>1 DEF BookKept, UserKept
<1>5. QED
  BY <1>2, <1>3, <1>4 DEF BookKept

LEMMA VolumeKeeps ==
    ASSUME IInv, BookKept, Grows(order, order'),
           UNCHANGED <<orderIndex, userOrders>>,
           NEW side \in Sides, NEW p \in DOMAIN level[side], NEW q,
           UpdateVolume(side, p, q)
    PROVE  BookKept'
<1>1. DOMAIN level = Sides /\ BookSide(level[side], order)
  BY TypeParts DEF IInv, BookTyped
<1>2. DOMAIN level[side][p] = {"orders", "orderMap", "volume"}
  BY <1>1 DEF BookSide
<1>3. level' = [level EXCEPT ![side] =
                  [level[side] EXCEPT ![p] =
                     [level[side][p] EXCEPT !.volume = level[side][p].volume - q]]]
  BY DEF UpdateVolume
<1> DEFINE new == [level[side][p] EXCEPT !.volume = level[side][p].volume - q]
<1>4. new.orders = level[side][p].orders /\ new.orderMap = level[side][p].orderMap
  BY <1>2
<1>5. level' = [level EXCEPT ![side] = [level[side] EXCEPT ![p] = new]]
  BY <1>3
<1> HIDE DEF new
<1>6. ASSUME NEW s \in Sides
      PROVE  /\ DOMAIN level'[s] = DOMAIN level[s]
             /\ \A x \in DOMAIN level[s] :
                   /\ level'[s][x].orders = level[s][x].orders
                   /\ level'[s][x].orderMap = level[s][x].orderMap
  BY <1>1, <1>4, <1>5
<1>7. QED
  BY <1>6, QueuesUntouched

\* Terms an order in the heap keeps.
LEMMA TermsStay ==
    ASSUME IInv, Grows(order, order'), NEW r \in DOMAIN order
    PROVE  /\ r \in DOMAIN order' /\ order'[r].id = order[r].id
           /\ order'[r].side = order[r].side /\ order'[r].price = order[r].price
           /\ order'[r].user = order[r].user /\ order[r].side \in Sides
BY OrderTyped DEF Grows, SameTerms

LEMMA RemoveKeeps ==
    ASSUME IInv, BookKept, Grows(order, order'), NEW id \in DOMAIN orderIndex,
           RemoveOrder(id)
    PROVE  BookKept' /\ orderIndex' = MapDelete(orderIndex, id)
<1> DEFINE r == orderIndex[id]
           o == order[r]
           s == o.side
           p == o.price
           u == o.user
           old == level[s][p]
           rest == RemoveFirst(old.orders, r)
           left == LevelRemoveOrder(old, order', id)
           mine == userOrders[u]
<1>1. /\ r \in DOMAIN order /\ o.id = id /\ s \in Sides /\ p \in DOMAIN level[s]
      /\ r \in ToSet(old.orders) /\ r \in Queued(s, p)
      /\ id \in DOMAIN old.orderMap /\ old.orderMap[id] = r
      /\ u \in DOMAIN userOrders /\ id \in DOMAIN mine
  BY OrderTyped DEF BookKept, RestsAt, Queued
<1>2. old.orders \in Seq(Nat) /\ Increasing(old.orders)
  BY <1>1, QueueTyped DEF BookKept, LevelKept
<1>3. Increasing(rest) /\ ToSet(rest) = ToSet(old.orders) \ {r}
  BY <1>1, <1>2, RemoveFirstIncreasing
<1>4. Removable(id) /\ RemoveOrderInternal(id)
  BY <1>1 DEF RemoveOrder, Removable
<1>5. left.orders = rest /\ left.orderMap = MapDelete(old.orderMap, id)
  BY <1>1 DEF LevelRemoveOrder
<1>6. /\ level' = [level EXCEPT ![s] = IF rest = <<>> THEN MapDelete(@, p)
                                       ELSE MapPut(@, p, left)]
      /\ orderIndex' = MapDelete(orderIndex, id)
      /\ userOrders' = WithoutUserOrder(u, id)
  BY <1>4, <1>5 DEF RemoveOrderInternal
<1>7. DOMAIN level = Sides
  BY TypeParts DEF IInv, BookTyped
<1> HIDE DEF rest, left
<1>8. \A k \in DOMAIN orderIndex : k # id => orderIndex[k] # r
  BY <1>1 DEF BookKept, RestsAt
<1> HIDE DEF o, s, p, u, r, old, mine
<1>9. /\ \A x \in Sides \ {s} : level'[x] = level[x]
      /\ \A q \in DOMAIN level[s] \ {p} :
            q \in DOMAIN level'[s] /\ level'[s][q] = level[s][q]
      /\ DOMAIN level'[s] \subseteq DOMAIN level[s]
      /\ rest # <<>> => p \in DOMAIN level'[s]
      /\ p \in DOMAIN level'[s] => level'[s][p] = left
  BY <1>1, <1>6, <1>7 DEF MapDelete, MapPut
<1>10. /\ DOMAIN orderIndex' = DOMAIN orderIndex \ {id}
       /\ \A i \in DOMAIN orderIndex' : orderIndex'[i] = orderIndex[i]
  BY <1>6 DEF MapDelete
<1>11. /\ DOMAIN userOrders' \subseteq DOMAIN userOrders
       /\ \A v \in DOMAIN userOrders \ {u} :
             v \in DOMAIN userOrders' /\ userOrders'[v] = userOrders[v]
       /\ DOMAIN mine \ {id} # {} => u \in DOMAIN userOrders'
       /\ u \in DOMAIN userOrders' =>
             /\ DOMAIN userOrders'[u] = DOMAIN mine \ {id} /\ DOMAIN mine \ {id} # {}
             /\ \A i \in DOMAIN mine \ {id} : userOrders'[u][i] = mine[i]
  <2> DEFINE fewer == MapDelete(mine, id)
  <2>1. /\ DOMAIN fewer = DOMAIN mine \ {id}
        /\ \A i \in DOMAIN mine \ {id} : fewer[i] = mine[i]
    BY DEF MapDelete
  <2>2. userOrders' = IF DOMAIN fewer = {} THEN MapDelete(userOrders, u)
                      ELSE [userOrders EXCEPT ![u] = fewer]
    BY <1>1, <1>6 DEF WithoutUserOrder, mine
  <2> HIDE DEF fewer
  <2>3. QED
    BY <1>1, <2>1, <2>2 DEF MapDelete
<1>12. ASSUME NEW i \in DOMAIN orderIndex' PROVE RestsAt(i)'
  <2> DEFINE k == orderIndex[i]
             a == order[k]
  <2>1. i \in DOMAIN orderIndex /\ i # id /\ orderIndex'[i] = k /\ k # r
    BY <1>8, <1>10
  <2>2. /\ k \in DOMAIN order /\ a.id = i /\ a.price \in DOMAIN level[a.side]
        /\ k \in Queued(a.side, a.price)
        /\ i \in DOMAIN level[a.side][a.price].orderMap
        /\ level[a.side][a.price].orderMap[i] = k
        /\ a.user \in DOMAIN userOrders /\ i \in DOMAIN userOrders[a.user]
    BY <2>1 DEF BookKept, RestsAt
  <2>3. /\ k \in DOMAIN order' /\ order'[k].id = i /\ order'[k].side = a.side
        /\ order'[k].price = a.price /\ order'[k].user = a.user /\ a.side \in Sides
    BY <2>2, TermsStay
  <2> HIDE DEF k, a
  <2>4. /\ a.price \in DOMAIN level'[a.side] /\ k \in ToSet(level'[a.side][a.price].orders)
        /\ i \in DOMAIN level'[a.side][a.price].orderMap
        /\ level'[a.side][a.price].orderMap[i] = k
    <3>1. CASE a.side = s /\ a.price = p
      <4>1. k \in ToSet(rest) /\ rest # <<>>
        <5>1. k \in ToSet(rest)
          BY <1>3, <2>1, <2>2, <3>1 DEF Queued, old
        <5>2. QED
          BY <5>1 DEF ToSet
      <4>2. level'[s][p] = left
        BY <1>9, <4>1
      <4>3. i \in DOMAIN left.orderMap /\ left.orderMap[i] = k
        BY <1>5, <2>1, <2>2, <3>1 DEF MapDelete, old
      <4>4. QED
        BY <1>5, <1>9, <3>1, <4>1, <4>2, <4>3
    <3>2. CASE a.side # s \/ a.price # p
      <4>1. a.price \in DOMAIN level'[a.side]
            /\ level'[a.side][a.price] = level[a.side][a.price]
        BY <1>9, <2>2, <2>3, <3>2
      <4>2. QED
        BY <2>2, <4>1 DEF Queued
    <3>3. QED
      BY <3>1, <3>2
  <2>5. a.user \in DOMAIN userOrders' /\ i \in DOMAIN userOrders'[a.user]
    <3>1. CASE a.user = u
      BY <1>11, <2>1, <2>2, <3>1 DEF mine
    <3>2. CASE a.user # u
      BY <1>11, <2>2, <3>2
    <3>3. QED
      BY <3>1, <3>2
  <2>6. QED
    BY <2>1, <2>3, <2>4, <2>5 DEF RestsAt, Queued
<1>13. ASSUME NEW x \in Sides, NEW q \in DOMAIN level'[x] PROVE LevelKept(x, q)'
  <2>1. q \in DOMAIN level[x] /\ Queued(x, q) \subseteq DOMAIN order
    BY <1>9, QueueTyped
  <2>2. /\ Increasing(level'[x][q].orders)
        /\ ToSet(level'[x][q].orders) \subseteq Queued(x, q) \ {r}
    <3>1. CASE x = s /\ q = p
      BY <1>3, <1>5, <1>9, <3>1 DEF Queued, old
    <3>2. CASE x # s \/ q # p
      <4>1. level'[x][q] = level[x][q]
        BY <1>9, <2>1, <3>2
      <4>2. r \notin Queued(x, q)
        BY <1>1, <2>1, <3>2 DEF BookKept, LevelKept, o, s, p
      <4>3. QED
        BY <2>1, <4>1, <4>2 DEF BookKept, LevelKept, Queued
    <3>3. QED
      BY <3>1, <3>2
  <2>3. ASSUME NEW k \in Queued(x, q) \ {r}
        PROVE  /\ order'[k].side = x /\ order'[k].price = q
               /\ order'[k].id \in DOMAIN orderIndex' /\ orderIndex'[order'[k].id] = k
    <3>1. /\ order[k].side = x /\ order[k].price = q
          /\ order[k].id \in DOMAIN orderIndex /\ orderIndex[order[k].id] = k
      BY <2>1 DEF BookKept, LevelKept
    <3>2. order[k].id # id
      BY <3>1 DEF r
    <3>3. QED
      BY <1>10, <2>1, <3>1, <3>2, TermsStay
  <2>4. QED
    BY <2>2, <2>3 DEF LevelKept, Queued
<1>14. ASSUME NEW v \in DOMAIN userOrders' PROVE UserKept(v)'
  <2>1. /\ v \in DOMAIN userOrders /\ DOMAIN userOrders'[v] # {}
        /\ \A i \in DOMAIN userOrders'[v] :
              i \in DOMAIN userOrders[v] /\ userOrders'[v][i] = userOrders[v][i]
    BY <1>11 DEF BookKept, UserKept, mine
  <2>2. ASSUME NEW i \in DOMAIN userOrders'[v]
        PROVE  /\ i \in DOMAIN orderIndex' /\ orderIndex'[i] = userOrders'[v][i]
               /\ order'[orderIndex'[i]].user = v
    <3>1. /\ i \in DOMAIN orderIndex /\ orderIndex[i] = userOrders'[v][i]
          /\ order[orderIndex[i]].user = v
      BY <2>1 DEF BookKept, UserKept
    <3>2. i # id
      BY <1>11, <3>1 DEF u, o, r, mine
    <3>3. orderIndex[i] \in DOMAIN order
      BY <3>1 DEF BookKept, RestsAt
    <3>4. QED
      BY <1>10, <3>1, <3>2, <3>3, TermsStay
  <2>3. QED
    BY <2>1, <2>2 DEF UserKept
<1>15. QED
  BY <1>6, <1>12, <1>13, <1>14 DEF BookKept

LEMMA AppendIncreasing ==
    ASSUME NEW s \in Seq(Nat), Increasing(s), NEW r \in Nat,
           \A x \in ToSet(s) : x < r
    PROVE  /\ Increasing(Append(s, r)) /\ Append(s, r) # <<>>
           /\ ToSet(Append(s, r)) = ToSet(s) \cup {r}
<1> DEFINE t == Append(s, r)
<1>1. /\ t \in Seq(Nat) /\ Len(t) = Len(s) + 1 /\ Len(s) \in Nat
      /\ \A i \in 1 .. Len(s) : t[i] = s[i]
      /\ t[Len(s) + 1] = r
  BY AppendProperties
<1>2. DOMAIN t = 1 .. Len(s) + 1 /\ DOMAIN s = 1 .. Len(s)
  BY <1>1
<1> HIDE DEF t
<1>3. ToSet(t) = ToSet(s) \cup {r}
  BY AppendSet DEF t
<1>4. Increasing(t)
  <2>1. ASSUME NEW i \in DOMAIN t, NEW j \in DOMAIN t, i < j PROVE t[i] < t[j]
    <3>1. i \in 1 .. Len(s) /\ t[i] = s[i] /\ s[i] \in ToSet(s)
      <4>1. i \in 1 .. Len(s)
        BY <1>1, <1>2, <2>1
      <4>2. QED
        BY <1>1, <1>2, <4>1 DEF ToSet
    <3>2. CASE j = Len(s) + 1
      BY <1>1, <3>1, <3>2
    <3>3. CASE j \in 1 .. Len(s)
      BY <1>1, <1>2, <2>1, <3>1, <3>3 DEF Increasing
    <3>4. QED
      BY <1>1, <1>2, <3>2, <3>3
  <2>2. QED
    BY <2>1 DEF Increasing
<1>5. t # <<>>
  BY <1>1
<1>6. QED
  BY <1>3, <1>4, <1>5 DEF t

\* An order that no index names yet, the last one made, joins the book.
LEMMA AddKeeps ==
    ASSUME IInv, IInv', BookKept, Grows(order, order'), NEW r \in DOMAIN order',
           r = Len(order'), order'[r].id \notin DOMAIN orderIndex, AddOrder(r)
    PROVE  BookKept' /\ orderIndex' = MapPut(orderIndex, order'[r].id, r)
<1> DEFINE o == order'[r]
           id == o.id
           s == o.side
           p == o.price
           u == o.user
           old == GetOrCreate(s, p)
           new == LevelAddOrder(old, o, r)
           mine == IF u \in DOMAIN userOrders THEN userOrders[u] ELSE EmptyMap
<1>1. /\ order \in Seq(PricedOrder) /\ order' \in Seq(PricedOrder)
      /\ DOMAIN level = Sides
  BY TypeParts, TypePartsAfter DEF IInv, BookTyped
<1>2. s \in Sides
  <2>1. o \in PricedOrder
    BY <1>1, ElementOfSeq
  <2>2. QED
    BY <2>1 DEF PricedOrder, Order
<1>3. r \in Nat
  BY <1>1
\* The queues' orders are older.
<1>4. ASSUME NEW x \in Sides, NEW q \in DOMAIN level[x], NEW k \in Queued(x, q)
      PROVE  k \in DOMAIN order /\ k < r
  <2>1. /\ k \in DOMAIN order /\ order[k].id \in DOMAIN orderIndex
    BY QueueTyped DEF BookKept, LevelKept
  <2>2. k \in DOMAIN order' /\ order'[k].id = order[k].id
    BY <2>1, TermsStay
  <2>3. k # r
    BY <2>1, <2>2
  <2>4. k \in 1 .. r
    BY <1>1, <2>2
  <2>5. QED
    BY <1>3, <2>1, <2>3, <2>4
<1>5. /\ level' = [level EXCEPT ![s] = MapPut(@, p, new)]
      /\ orderIndex' = MapPut(orderIndex, id, r)
      /\ userOrders' = MapPut(userOrders, u, MapPut(mine, id, r))
  BY DEF AddOrder
<1>6. new.orders = Append(old.orders, r) /\ new.orderMap = MapPut(old.orderMap, id, r)
  BY DEF LevelAddOrder
<1>7. /\ old.orders \in Seq(Nat) /\ Increasing(old.orders)
      /\ \A k \in ToSet(old.orders) : k < r
      /\ p \in DOMAIN level[s] => old = level[s][p]
      /\ p \notin DOMAIN level[s] => ToSet(old.orders) = {}
  <2>1. CASE p \in DOMAIN level[s]
    BY <1>2, <1>4, <2>1, QueueTyped DEF GetOrCreate, BookKept, LevelKept, Queued
  <2>2. CASE p \notin DOMAIN level[s]
    <3>1. old.orders = <<>>
      BY <2>2 DEF GetOrCreate, NewPriceLevel
    <3>2. QED
      BY <2>2, <3>1 DEF Increasing, ToSet
  <2>3. QED
    BY <2>1, <2>2
<1>8. /\ Increasing(new.orders) /\ ToSet(new.orders) = ToSet(old.orders) \cup {r}
  BY <1>3, <1>6, <1>7, AppendIncreasing
<1>9. /\ DOMAIN new.orderMap = DOMAIN old.orderMap \cup {id}
      /\ new.orderMap[id] = r
      /\ \A i \in DOMAIN old.orderMap : i # id => new.orderMap[i] = old.orderMap[i]
  BY <1>6 DEF MapPut
<1> HIDE DEF new, old
<1>10. /\ \A x \in Sides \ {s} : level'[x] = level[x]
       /\ DOMAIN level'[s] = DOMAIN level[s] \cup {p}
       /\ level'[s][p] = new
       /\ \A q \in DOMAIN level[s] \ {p} : level'[s][q] = level[s][q]
  BY <1>1, <1>2, <1>5 DEF MapPut
<1>11. /\ DOMAIN orderIndex' = DOMAIN orderIndex \cup {id} /\ orderIndex'[id] = r
       /\ \A i \in DOMAIN orderIndex : i # id /\ orderIndex'[i] = orderIndex[i]
  BY <1>5 DEF MapPut
<1>12. /\ DOMAIN userOrders' = DOMAIN userOrders \cup {u}
       /\ \A v \in DOMAIN userOrders \ {u} : userOrders'[v] = userOrders[v]
       /\ DOMAIN userOrders'[u] = DOMAIN mine \cup {id} /\ userOrders'[u][id] = r
       /\ \A i \in DOMAIN mine : i # id => userOrders'[u][i] = mine[i]
  BY <1>5 DEF MapPut
<1>13. u \in DOMAIN userOrders => mine = userOrders[u]
  OBVIOUS
<1>14. u \notin DOMAIN userOrders => DOMAIN mine = {}
  BY DEF EmptyMap
<1> HIDE DEF mine, s, p, u, id, o
<1>15. ASSUME NEW i \in DOMAIN orderIndex' PROVE RestsAt(i)'
  <2>1. CASE i = id
    <3>1. r \in ToSet(level'[s][p].orders) /\ p \in DOMAIN level'[s]
      BY <1>8, <1>10
    <3>2. i \in DOMAIN level'[s][p].orderMap /\ level'[s][p].orderMap[i] = r
      BY <1>9, <1>10, <2>1
    <3>3. u \in DOMAIN userOrders' /\ i \in DOMAIN userOrders'[u]
      BY <1>12, <2>1
    <3>4. QED
      BY <1>11, <2>1, <3>1, <3>2, <3>3 DEF RestsAt, Queued, o, id, s, p, u
  <2>2. CASE i # id
    <3> DEFINE k == orderIndex[i]
               a == order[k]
    <3>1. i \in DOMAIN orderIndex /\ orderIndex'[i] = k
      BY <1>11, <2>2
    <3>2. /\ k \in DOMAIN order /\ a.id = i /\ a.price \in DOMAIN level[a.side]
          /\ k \in Queued(a.side, a.price)
          /\ i \in DOMAIN level[a.side][a.price].orderMap
          /\ level[a.side][a.price].orderMap[i] = k
          /\ a.user \in DOMAIN userOrders /\ i \in DOMAIN userOrders[a.user]
      BY <3>1 DEF BookKept, RestsAt
    <3>3. /\ k \in DOMAIN order' /\ order'[k].id = i /\ order'[k].side = a.side
          /\ order'[k].price = a.price /\ order'[k].user = a.user /\ a.side \in Sides
      BY <3>2, TermsStay
    <3> HIDE DEF k, a
    <3>4. /\ a.price \in DOMAIN level'[a.side]
          /\ k \in ToSet(level'[a.side][a.price].orders)
          /\ i \in DOMAIN level'[a.side][a.price].orderMap
          /\ level'[a.side][a.price].orderMap[i] = k
      <4>1. CASE a.side = s /\ a.price = p
        BY <1>7, <1>8, <1>9, <1>10, <2>2, <3>2, <4>1 DEF Queued
      <4>2. CASE a.side # s \/ a.price # p
        <5>1. a.price \in DOMAIN level'[a.side]
              /\ level'[a.side][a.price] = level[a.side][a.price]
          BY <1>10, <3>2, <3>3, <4>2
        <5>2. QED
          BY <3>2, <5>1 DEF Queued
      <4>3. QED
        BY <4>1, <4>2
    <3>5. a.user \in DOMAIN userOrders' /\ i \in DOMAIN userOrders'[a.user]
      <4>1. CASE a.user = u
        BY <1>12, <1>13, <3>2, <4>1
      <4>2. CASE a.user # u
        BY <1>12, <3>2, <4>2
      <4>3. QED
        BY <4>1, <4>2
    <3>6. QED
      BY <3>1, <3>3, <3>4, <3>5 DEF RestsAt, Queued
  <2>3. QED
    BY <2>1, <2>2
<1>16. ASSUME NEW x \in Sides, NEW q \in DOMAIN level'[x] PROVE LevelKept(x, q)'
  <2>1. ASSUME NEW k \in DOMAIN order, q \in DOMAIN level[x], k \in Queued(x, q)
        PROVE  /\ order'[k].side = x /\ order'[k].price = q
               /\ order'[k].id \in DOMAIN orderIndex' /\ orderIndex'[order'[k].id] = k
    <3>1. /\ order[k].side = x /\ order[k].price = q
          /\ order[k].id \in DOMAIN orderIndex /\ orderIndex[order[k].id] = k
      BY <2>1 DEF BookKept, LevelKept
    <3>2. QED
      BY <1>11, <3>1, TermsStay
  <2>2. CASE x = s /\ q = p
    <3>1. Increasing(level'[x][q].orders)
      BY <1>8, <1>10, <2>2
    <3>2. ASSUME NEW k \in ToSet(level'[x][q].orders)
          PROVE  /\ order'[k].side = x /\ order'[k].price = q
                 /\ order'[k].id \in DOMAIN orderIndex' /\ orderIndex'[order'[k].id] = k
      <4>1. k = r \/ k \in ToSet(old.orders)
        BY <1>8, <1>10, <2>2
      <4>2. CASE k = r
        BY <1>11, <2>2, <4>2 DEF o, id, s, p
      <4>3. CASE k \in ToSet(old.orders)
        <5>1. p \in DOMAIN level[s] /\ k \in Queued(s, p)
          BY <1>7, <4>3 DEF Queued
        <5>2. k \in DOMAIN order
          BY <1>2, <1>4, <5>1
        <5>3. QED
          BY <2>1, <2>2, <5>1, <5>2
      <4>4. QED
        BY <4>1, <4>2, <4>3
    <3>3. QED
      BY <3>1, <3>2 DEF LevelKept, Queued
  <2>3. CASE x # s \/ q # p
    <3>1. q \in DOMAIN level[x] /\ level'[x][q] = level[x][q]
      BY <1>10, <2>3
    <3>2. \A k \in Queued(x, q) : k \in DOMAIN order
      BY <1>4, <3>1
    <3>3. Increasing(level[x][q].orders)
      BY <3>1 DEF BookKept, LevelKept
    <3>4. QED
      BY <2>1, <3>1, <3>2, <3>3 DEF LevelKept, Queued
  <2>4. QED
    BY <2>2, <2>3
<1>17. ASSUME NEW v \in DOMAIN userOrders' PROVE UserKept(v)'
  <2>1. ASSUME NEW i \in DOMAIN userOrders'[v]
        PROVE  /\ i \in DOMAIN orderIndex' /\ orderIndex'[i] = userOrders'[v][i]
               /\ order'[orderIndex'[i]].user = v
    <3>1. CASE v = u /\ i = id
      BY <1>11, <1>12, <3>1 DEF u, o
    <3>2. CASE v \in DOMAIN userOrders /\ i \in DOMAIN userOrders[v] /\ i # id
      <4>1. userOrders'[v][i] = userOrders[v][i]
        BY <1>12, <1>13, <3>2
      <4>2. /\ i \in DOMAIN orderIndex /\ orderIndex[i] = userOrders[v][i]
            /\ order[orderIndex[i]].user = v
        BY <3>2 DEF BookKept, UserKept
      <4>3. orderIndex[i] \in DOMAIN order
        BY <4>2 DEF BookKept, RestsAt
      <4>4. QED
        BY <1>11, <4>1, <4>2, <4>3, TermsStay
    <3>3. CASE v \in DOMAIN userOrders /\ i \in DOMAIN userOrders[v] /\ i = id
      <4>1. i \in DOMAIN orderIndex
        BY <3>3 DEF BookKept, UserKept
      <4>2. QED
        BY <1>11, <3>3, <4>1
    <3>4. QED
      BY <1>12, <1>13, <1>14, <3>1, <3>2, <3>3
  <2>2. DOMAIN userOrders'[v] # {}
    <3>1. CASE v = u
      BY <1>12, <3>1
    <3>2. CASE v # u
      <4>1. v \in DOMAIN userOrders /\ userOrders'[v] = userOrders[v]
        BY <1>12, <3>2
      <4>2. QED
        BY <4>1 DEF BookKept, UserKept
    <3>3. QED
      BY <3>1, <3>2
  <2>3. QED
    BY <2>1, <2>2 DEF UserKept
<1>18. QED
  BY <1>5, <1>15, <1>16, <1>17 DEF BookKept, id, o

-----------------------------------------------------------------------------
(* A taker is new to the book.                                              *)

\* The order that is being matched is the last one made, no resting order has
\* its id, and it is a limit or a market order.
TakerNew ==
    Matches => LET r == Head(stack).taker
               IN  /\ r = Len(order) /\ order[r].id \notin DOMAIN orderIndex
                   /\ order[r].type \in {"limit", "market"}

\* An id that no order has is in no index.
LEMMA UnknownID ==
    ASSUME BookKept, NEW id, \A k \in DOMAIN order : order[k].id # id
    PROVE  id \notin DOMAIN orderIndex
BY DEF BookKept, RestsAt

LEMMA VisibleFresh ==
    ASSUME IInv, Issued, NEW id \in {"client"} \X ClientIDs,
           \A k \in DOMAIN order : order[k].id # id
    PROVE  \A k \in DOMAIN order : order[k].id # <<"visible", id[2]>>
<1> SUFFICES ASSUME NEW k \in DOMAIN order, order[k].id = <<"visible", id[2]>>
             PROVE  FALSE
  OBVIOUS
<1>1. order[k].id[1] = "visible" /\ order[k].id[2] = id[2]
  OBVIOUS
<1>2. PICK j \in DOMAIN order : order[j].id = <<"client", id[2]>>
  BY <1>1 DEF Issued
<1>3. id = <<"client", id[2]>>
  OBVIOUS
<1>4. QED
  BY <1>2, <1>3

LEMMA UuidFresh ==
    ASSUME IInv, Issued
    PROVE  \A k \in DOMAIN order : order[k].id # <<"uuid", Len(order) + 1>>
<1> SUFFICES ASSUME NEW k \in DOMAIN order, order[k].id = <<"uuid", Len(order) + 1>>
             PROVE  FALSE
  OBVIOUS
<1>1. order[k].id[1] = "uuid" /\ order[k].id[2] = Len(order) + 1
  OBVIOUS
<1>2. Len(order) + 1 <= Len(order)
  BY <1>1 DEF Issued
<1>3. Len(order) \in Nat
  BY TypeParts DEF IInv
<1>4. QED
  BY <1>2, <1>3

\* An order that enters with an id of its own is new to the book.
LEMMA EnteredNew ==
    ASSUME IInv, BookKept, Issued, NEW o \in PricedOrder, NEW S, NEW rest \in Seq(S),
           Nested(rest), o.type = "iceberg" => VisibleOrder(o) \in PricedOrder,
           o.type = "iceberg" => o.id \in {"client"} \X ClientIDs,
           \A k \in DOMAIN order : order[k].id # o.id,
           Enters(o, rest), UNCHANGED orderIndex
    PROVE  TakerNew'
<1> DEFINE n == Len(order) + 1
           sliced == o.type = "iceberg" /\ ~ paused
           last == IF sliced THEN n + 1 ELSE n
           frame == MatchFrame(last, order'[last].qty, NoPrice)
           wait == Waiting(o, rest)
<1>1. order \in Seq(PricedOrder)
  BY TypeParts DEF IInv
<1>2. /\ Len(order') = last
      /\ Renewed(o, order'[n]) /\ (sliced => Renewed(VisibleOrder(o), order'[last]))
      /\ \/ order'[last].type \in {"limit", "market"} /\ stack' = <<frame>> \o wait
         \/ stack' = wait
  BY <1>1, EntersView
<1>3. Nested(wait) /\ \E T : wait \in Seq(T)
  BY WaitingNested
<1>4. frame.taker = last
  BY DEF MatchFrame
<1>5. \A k \in DOMAIN order : order[k].id # order'[last].id
  <2>1. CASE sliced
    <3>1. o.id \in {"client"} \X ClientIDs
      BY <2>1
    <3>2. VisibleOrder(o).id = <<"visible", o.id[2]>>
      BY DEF VisibleOrder, PricedOrder, Order
    <3>3. order'[last].id = <<"visible", o.id[2]>>
      BY <1>2, <2>1, <3>2 DEF Renewed, SameTerms
    <3>4. QED
      BY <3>1, <3>3, VisibleFresh
  <2>2. CASE ~ sliced
    BY <1>2, <2>2 DEF Renewed, SameTerms
  <2>3. QED
    BY <2>1, <2>2
<1>6. order'[last].id \notin DOMAIN orderIndex'
  BY <1>5, UnknownID
<1> HIDE DEF frame, wait, last, sliced, n
<1>7. CASE stack' = wait
  BY <1>3, <1>7, TopPopped DEF TakerNew
<1>8. CASE order'[last].type \in {"limit", "market"} /\ stack' = <<frame>> \o wait
  <2>1. Head(stack') = frame
    BY <1>3, <1>8, TopPushed
  <2>2. QED
    BY <1>2, <1>4, <1>6, <1>8, <2>1 DEF TakerNew
<1>9. QED
  BY <1>2, <1>7, <1>8

-----------------------------------------------------------------------------
(* What the steps on the book do, when the book is kept.                    *)

\* A trade of q with the first order of the best level that can be taken from.
TradeWith(maker, q) ==
    LET f == Head(stack)
        side == OppositeSide[order[f.taker].side]
        p == order[maker].price
        left == RemainingQty(order[maker])
    IN  /\ f.taker \in DOMAIN order /\ maker \in DOMAIN order
        /\ order[maker].side = side /\ side \in Sides
        /\ p \in Target(order[f.taker]) /\ p \in DOMAIN level[side]
        /\ maker = Head(level[side][p].orders)
        /\ order[maker].id \in DOMAIN orderIndex /\ orderIndex[order[maker].id] = maker
        /\ maker # f.taker
        /\ q \in Nat /\ q > 0 /\ f.rem \in Nat /\ q <= f.rem /\ q <= left
        /\ order' = AfterTrade(f.taker, maker, q)
        /\ stack' = <<MatchFrame(f.taker, f.rem - q, p)>> \o Tail(stack)
        /\ tradePrice' = p
        /\ \/ q = left /\ RemoveOrder(order[maker].id)
           \/ /\ q < left /\ UpdateVolume(side, p, q)
              /\ UNCHANGED <<orderIndex, userOrders, deltaBuffer>>

LEMMA TradeEffect ==
    ASSUME IInv, BookKept, TakerNew, MatchStep
    PROVE  /\ Matches
           /\ \/ UNCHANGED vars
              \/ /\ \E maker, q : TradeWith(maker, q)
                 /\ UNCHANGED <<lastPrice, paused, stopVars>>
<1> DEFINE f == Head(stack)
           side == OppositeSide[order[f.taker].side]
<1>1. ~ Idle /\ f.op = "match" /\ Matching(f)
  BY DEF MatchStep
<1>2. Matches /\ f \in Frame(order) /\ order \in Seq(PricedOrder)
  BY <1>1, HeadTyped DEF Matches
<1>3. f.taker \in DOMAIN order /\ f.rem \in Nat
  BY <1>1, <1>2 DEF Frame
<1>4. side \in Sides
  BY <1>3, OrderTyped DEF OppositeSide, Sides
<1> HIDE DEF f, side
<1>5. PICK p \in Target(order[f.taker]) :
         LET maker == Head(level[side][p].orders)
             left == RemainingQty(order[maker])
             q == IF f.rem > left THEN left ELSE f.rem
         IN  \/ /\ q > 0
                /\ order' = AfterTrade(f.taker, maker, q)
                /\ stack' = <<MatchFrame(f.taker, f.rem - q, p)>> \o Tail(stack)
                /\ tradePrice' = p
                /\ \/ q = left /\ RemoveOrder(order[maker].id)
                   \/ /\ q < left
                      /\ UpdateVolume(side, p, q)
                      /\ UNCHANGED <<orderIndex, userOrders, deltaBuffer>>
                /\ UNCHANGED <<lastPrice, paused, stopVars>>
             \/ UNCHANGED vars
  BY DEF MatchStep, f, side
<1> DEFINE maker == Head(level[side][p].orders)
           left == RemainingQty(order[maker])
           q == IF f.rem > left THEN left ELSE f.rem
<1>6. p \in DOMAIN level[side]
  BY DEF Target, BestPrices, side
<1>7. maker \in Queued(side, p) /\ maker \in DOMAIN order
  <2>1. level[side][p].orders \in Seq(Nat) /\ level[side][p].orders # <<>>
        /\ Queued(side, p) \subseteq DOMAIN order
    BY <1>4, <1>6, QueueTyped
  <2>2. maker \in Queued(side, p)
    <3>1. 1 \in DOMAIN level[side][p].orders /\ maker = level[side][p].orders[1]
      BY <2>1
    <3>2. QED
      BY <3>1 DEF Queued, ToSet
  <2>3. QED
    BY <2>1, <2>2
<1>8. /\ order[maker].side = side /\ order[maker].price = p
      /\ order[maker].id \in DOMAIN orderIndex /\ orderIndex[order[maker].id] = maker
  BY <1>4, <1>6, <1>7 DEF BookKept, LevelKept
<1>9. maker # f.taker
  BY <1>2, <1>8 DEF TakerNew, f
<1>10. left \in Int
  BY <1>7, OrderTyped DEF RemainingQty
<1>11. q > 0 => q \in Nat /\ q <= f.rem /\ q <= left
  BY <1>3, <1>10
<1> HIDE DEF maker, left, q
<1>12. CASE UNCHANGED vars
  BY <1>2, <1>12
<1>13. CASE /\ q > 0
            /\ order' = AfterTrade(f.taker, maker, q)
            /\ stack' = <<MatchFrame(f.taker, f.rem - q, p)>> \o Tail(stack)
            /\ tradePrice' = p
            /\ \/ q = left /\ RemoveOrder(order[maker].id)
               \/ /\ q < left
                  /\ UpdateVolume(side, p, q)
                  /\ UNCHANGED <<orderIndex, userOrders, deltaBuffer>>
            /\ UNCHANGED <<lastPrice, paused, stopVars>>
  <2>1. TradeWith(maker, q)
    BY <1>3, <1>4, <1>6, <1>7, <1>8, <1>9, <1>11, <1>13
       DEF TradeWith, f, side, left, maker
  <2>2. QED
    BY <1>2, <1>13, <2>1
<1>14. QED
  BY <1>5, <1>12, <1>13 DEF maker, left, q

\* Canceling an order that rests, or else one that is armed.
Unbooks(id) ==
    /\ id \in DOMAIN orderIndex
    /\ order' = [order EXCEPT ![orderIndex[id]].status = "CANCELED"]
    /\ RemoveOrder(id)
    /\ UNCHANGED stopVars

Disarms(id) ==
    /\ id \in DOMAIN stopIndex
    /\ order' = [order EXCEPT ![stopIndex[id]].status = "CANCELED"]
    /\ DisarmStop(id)
    /\ UNCHANGED <<level, orderIndex, userOrders, deltaBuffer>>

LEMMA CancelEffect ==
    ASSUME BookKept, NEW id, CancelOrder(id)
    PROVE  Unbooks(id) \/ (id \notin DOMAIN orderIndex /\ Disarms(id))
<1>1. Removable(id) <=> id \in DOMAIN orderIndex
  BY DEF Removable, BookKept, RestsAt
<1>2. ASSUME Removable(id)
      PROVE  LET o == order[orderIndex[id]]
             IN  level[o.side][o.price].orderMap[id] = orderIndex[id]
  BY <1>1, <1>2 DEF BookKept, RestsAt
<1>3. QED
  BY <1>1, <1>2 DEF CancelOrder, Unbooks, Disarms

LEMMA CancelNextEffect ==
    ASSUME IInv, BookKept, CancelNext
    PROVE  LET f == Head(stack)
           IN  /\ ~ Idle /\ f.op = "cancel"
               /\ \E id \in f.todo :
                     /\ stack' = <<CancelFrame(f.user, f.map, f.todo \ {id})>> \o Tail(stack)
                     /\ \/ f.map = "book" /\ Unbooks(id)
                        \/ /\ f.map = "book" => id \notin DOMAIN orderIndex
                           /\ Disarms(id)
                        \/ /\ f.map = "book" => id \notin DOMAIN orderIndex
                           /\ id \notin DOMAIN stopIndex
                           /\ UNCHANGED <<order, level, orderIndex, userOrders,
                                          deltaBuffer, stopVars>>
               /\ UNCHANGED <<lastPrice, paused, tradePrice>>
<1> DEFINE f == Head(stack)
<1>1. /\ ~ Idle /\ f.op = "cancel" /\ f \in Frame(order)
      /\ UNCHANGED <<lastPrice, paused, tradePrice>>
  BY HeadTyped DEF CancelNext
<1>2. f.map \in {"book", "stops"}
  BY <1>1 DEF Frame
<1>3. PICK id \in f.todo :
         /\ stack' = <<CancelFrame(f.user, f.map, f.todo \ {id})>> \o Tail(stack)
         /\ \/ f.map = "book" /\ CancelOrder(id)
            \/ f.map = "stops" /\ Disarms(id)
            \/ /\ IF f.map = "book" THEN ~ Cancelable(id)
                                   ELSE id \notin DOMAIN stopIndex
               /\ UNCHANGED <<order, level, orderIndex, userOrders,
                              deltaBuffer, stopVars>>
  BY DEF CancelNext, Disarms
<1>4. Removable(id) <=> id \in DOMAIN orderIndex
  BY DEF Removable, BookKept, RestsAt
<1> HIDE DEF f
<1>5. \/ f.map = "book" /\ Unbooks(id)
      \/ (f.map = "book" => id \notin DOMAIN orderIndex) /\ Disarms(id)
      \/ /\ f.map = "book" => id \notin DOMAIN orderIndex
         /\ id \notin DOMAIN stopIndex
         /\ UNCHANGED <<order, level, orderIndex, userOrders, deltaBuffer, stopVars>>
  <2>1. CASE f.map = "book" /\ CancelOrder(id)
    BY <2>1, CancelEffect
  <2>2. CASE f.map = "stops" /\ Disarms(id)
    BY <2>2
  <2>3. CASE /\ IF f.map = "book" THEN ~ Cancelable(id) ELSE id \notin DOMAIN stopIndex
             /\ UNCHANGED <<order, level, orderIndex, userOrders, deltaBuffer, stopVars>>
    BY <1>4, <2>3 DEF Cancelable
  <2>4. QED
    BY <1>3, <2>1, <2>2, <2>3
<1>6. QED
  BY <1>1, <1>3, <1>5 DEF f

\* A canceled order leaves the book kept.
LEMMA UnbooksKeeps ==
    ASSUME IInv, BookKept, NEW id, Unbooks(id)
    PROVE  BookKept' /\ orderIndex' = MapDelete(orderIndex, id)
<1>1. orderIndex[id] \in DOMAIN order /\ order \in Seq(PricedOrder)
  BY TypeParts DEF IInv, Unbooks, BookKept, RestsAt
<1>2. Grows(order, order')
  BY <1>1, CancelView DEF Unbooks
<1>3. QED
  BY <1>2, RemoveKeeps DEF Unbooks

LEMMA DisarmsKeeps ==
    ASSUME IInv, BookKept, NEW id, StopsKept, Disarms(id)
    PROVE  BookKept'
<1>1. stopIndex[id] \in DOMAIN order /\ order \in Seq(PricedOrder)
  BY TypeParts DEF IInv, Disarms, StopsKept, StopKept
<1>2. Grows(order, order')
  BY <1>1, CancelView DEF Disarms
<1>3. UNCHANGED <<level, orderIndex, userOrders>>
  BY DEF Disarms
<1>4. QED
  BY <1>2, <1>3, QueuesUntouched

LEMMA TriggersPush ==
    ASSUME NEW g, g.op = "triggers", NEW S, NEW rest \in Seq(S), Nested(rest)
    PROVE  Nested(<<g>> \o rest) /\ \E T : <<g>> \o rest \in Seq(T)
<1>1. Nested(<<g>> \o rest)
  BY NestedPush
<1>2. <<g>> \o rest \in Seq({g} \cup S)
  <2> DEFINE T == {g} \cup S
  <2>1. rest \in Seq(T) /\ <<g>> \in Seq(T)
    BY SeqMonotonic
  <2> HIDE DEF T
  <2>2. <<g>> \o rest \in Seq(T)
    BY <2>1
  <2>3. QED
    BY <2>2 DEF T
<1>3. QED
  BY <1>1, <1>2

LEMMA FinishEffect ==
    ASSUME IInv, FinishMatch
    PROVE  LET f == Head(stack)
           IN  /\ Matches /\ f.taker \in DOMAIN order /\ f.rem \in Nat
               /\ f.rem <= order[f.taker].qty
               /\ f.rem > 0 => Target(order[f.taker]) = {}
               /\ SettleTaker(f.taker, f.rem)
               /\ \/ stack' = Tail(stack)
                  \/ \E g : g.op = "triggers" /\ stack' = <<g>> \o Tail(stack)
               /\ UNCHANGED <<paused, stopVars, tradePrice>>
<1> DEFINE f == Head(stack)
           g == TriggerFrame(f.last, "rise", Armed("rise"))
<1>1. /\ ~ Idle /\ f.op = "match" /\ ~ Matching(f) /\ SettleTaker(f.taker, f.rem)
      /\ UNCHANGED <<paused, stopVars, tradePrice>>
      /\ stack' = Tail(stack) \/ stack' = <<g>> \o Tail(stack)
  BY DEF FinishMatch
<1>2. f \in Frame(order)
  BY <1>1, HeadTyped
<1>3. f.taker \in DOMAIN order /\ f.rem \in Nat /\ f.rem <= order[f.taker].qty
  BY <1>1, <1>2 DEF Frame
<1>4. g.op = "triggers"
  BY DEF TriggerFrame
<1>5. f.rem > 0 => Target(order[f.taker]) = {}
  BY <1>1 DEF Matching
<1>6. QED
  BY <1>1, <1>3, <1>4, <1>5 DEF Matches

\* The frames under a step's are not a matching loop's.
LEMMA PoppedQuiet ==
    ASSUME IInv, Shape, ~ Idle, stack' = Tail(stack)
    PROVE  ~ Matches'
<1>1. Tail(stack) \in Seq(Frame(order)) /\ Nested(Tail(stack))
  BY HeadTyped DEF Shape
<1>2. QED
  BY <1>1, TopPopped

LEMMA PushedTop ==
    ASSUME IInv, ~ Idle, NEW g, stack' = <<g>> \o Tail(stack)
    PROVE  Head(stack') = g /\ Tail(stack') = Tail(stack) /\ ~ Idle'
<1>1. Tail(stack) \in Seq(Frame(order))
  BY HeadTyped
<1>2. QED
  BY <1>1, TopPushed

LEMMA BookTogether ==
    ASSUME FreshIDs, IInv, Shape, Issued, StopsKept, BookKept, TakerNew, [Next]_vars
    PROVE  BookKept' /\ TakerNew'
<1>1. /\ Grows(order, order') /\ order \in Seq(PricedOrder)
      /\ order' \in Seq(PricedOrder) /\ IInv'
  BY NextIInv, TypeParts, TypePartsAfter DEF Keeps, IInv
<1>2. UNCHANGED <<level, orderIndex, userOrders>> => BookKept'
  BY <1>1, QueuesUntouched
<1>3. ~ Matches' => TakerNew'
  BY DEF TakerNew
<1>4. CASE UNCHANGED <<order, level, orderIndex, userOrders>> /\ UNCHANGED stack
  <2>1. TakerNew'
    BY <1>4 DEF TakerNew, Matches, Idle
  <2>2. QED
    BY <1>2, <1>4, <2>1
<1>5. ASSUME NEW f \in Forms, NEW id \in {"client"} \X ClientIDs, Submit(f, id)
      PROVE  BookKept' /\ TakerNew'
  <2> DEFINE o == NewOrder(f, id)
  <2>1. /\ o \in PricedOrder /\ \A k \in DOMAIN order : order[k].id # id
        /\ o.type = "iceberg" => VisibleOrder(o) \in PricedOrder
        /\ Enters(o, <<>>) \/ stack' = <<>>
        /\ UNCHANGED <<level, orderIndex, userOrders>>
    BY <1>5, SubmitEffect DEF NewOrder, bookVars
  <2>2. o.id = id
    BY DEF NewOrder
  <2> HIDE DEF o
  <2>3. CASE stack' = <<>>
    BY <1>2, <1>3, <2>1, <2>3 DEF Matches, Idle
  <2>4. CASE Enters(o, <<>>)
    <3>1. <<>> \in Seq(Nat) /\ Nested(<<>>)
      BY DEF Nested
    <3>2. TakerNew'
      BY <2>1, <2>2, <2>4, <3>1, EnteredNew
    <3>3. QED
      BY <1>2, <2>1, <3>2
  <2>5. QED
    BY <2>1, <2>3, <2>4
<1>6. CASE VisitStop
  <2> DEFINE f == Head(stack)
             n == Len(order) + 1
  <2>1. PICK id :
           LET o == Triggered(order[StopMap(f.map)[id]], n)
           IN  /\ ~ Idle /\ f.op = "triggers"
               /\ StopMap(f.map)[id] \in DOMAIN order
               /\ \/ /\ o \in PricedOrder /\ o.type \in {"limit", "market"}
                     /\ Enters(o, <<Visited(id)>> \o Tail(stack))
                  \/ stack' = <<Visited(id)>> \o Tail(stack)
               /\ UNCHANGED <<level, orderIndex, userOrders>>
    BY <1>6, VisitEffect DEF bookVars
  <2> DEFINE a == order[StopMap(f.map)[id]]
             o == Triggered(a, n)
             rest == <<Visited(id)>> \o Tail(stack)
  <2>2. Visited(id).op = "triggers"
    BY DEF Visited, TriggerFrame
  <2>3. Tail(stack) \in Seq(Frame(order)) /\ Nested(Tail(stack))
    BY <2>1, HeadTyped DEF Shape
  <2>4. a \in PricedOrder
    BY <1>1, <2>1, ElementOfSeq
  <2>5. o.id = <<"uuid", n>>
    BY <2>4 DEF Triggered, PricedOrder, Order
  <2> HIDE DEF a, o
  <2>6. CASE stack' = rest
    <3>1. Head(stack').op # "match"
      BY <2>1, <2>2, <2>6, PushedTop
    <3>2. QED
      BY <1>2, <1>3, <2>1, <3>1 DEF Matches
  <2>7. CASE /\ o \in PricedOrder /\ o.type \in {"limit", "market"}
             /\ Enters(o, rest)
    <3>1. Nested(rest) /\ \E T : rest \in Seq(T)
      <4> DEFINE g == Visited(id)
                 below == Tail(stack)
                 S == Frame(order)
      <4>1. g.op = "triggers" /\ below \in Seq(S) /\ Nested(below)
        BY <2>2, <2>3
      <4> HIDE DEF g, below, S
      <4>2. Nested(<<g>> \o below) /\ \E T : <<g>> \o below \in Seq(T)
        BY <4>1, TriggersPush
      <4>3. QED
        BY <4>2 DEF g, below
    <3>2. PICK T : rest \in Seq(T)
      BY <3>1
    <3>3. \A k \in DOMAIN order : order[k].id # o.id
      BY <2>5, UuidFresh
    <3>4. o.type # "iceberg" /\ UNCHANGED orderIndex
      BY <2>1, <2>7
    <3> HIDE DEF rest
    <3>5. o \in PricedOrder /\ Enters(o, rest)
      BY <2>7
    <3>6. TakerNew'
      BY <3>1, <3>2, <3>3, <3>4, <3>5, EnteredNew
    <3>7. QED
      BY <1>2, <2>1, <3>6
  <2>8. QED
    BY <2>1, <2>6, <2>7 DEF o, a
<1>7. CASE MatchStep
  <2>1. CASE UNCHANGED vars
    BY <1>4, <2>1 DEF vars, bookVars
  <2>2. ASSUME NEW maker, NEW q, TradeWith(maker, q) PROVE BookKept' /\ TakerNew'
    <3> DEFINE f == Head(stack)
               frame == MatchFrame(f.taker, f.rem - q, order[maker].price)
    <3>1. Matches /\ ~ Idle
      BY <1>7, TradeEffect DEF Matches
    <3>2. BookKept' /\ DOMAIN orderIndex' \subseteq DOMAIN orderIndex
      <4>1. CASE RemoveOrder(order[maker].id)
        <5>1. BookKept' /\ orderIndex' = MapDelete(orderIndex, order[maker].id)
          BY <1>1, <2>2, <4>1, RemoveKeeps DEF TradeWith
        <5>2. QED
          BY <5>1 DEF MapDelete
      <4>2. CASE /\ UpdateVolume(OppositeSide[order[f.taker].side], order[maker].price, q)
                 /\ UNCHANGED <<orderIndex, userOrders>>
        BY <1>1, <2>2, <4>2, VolumeKeeps DEF TradeWith
      <4>3. QED
        BY <2>2, <4>1, <4>2 DEF TradeWith
    <3>3. Head(stack') = frame
      BY <2>2, <3>1, PushedTop DEF TradeWith
    <3>4. frame.taker = f.taker
      BY DEF MatchFrame
    <3>5. Len(order') = Len(order)
      <4>1. DOMAIN order' = DOMAIN order
        BY <2>2 DEF TradeWith, AfterTrade
      <4>2. QED
        BY <1>1, <4>1, SameLength
    <3>6. f.taker \in DOMAIN order
      BY <2>2 DEF TradeWith
    <3>7. SameTerms(order[f.taker], order'[f.taker])
      BY <1>1, <3>6 DEF Grows
    <3> HIDE DEF frame
    <3>8. TakerNew'
      BY <3>1, <3>2, <3>3, <3>4, <3>5, <3>7 DEF TakerNew, SameTerms
    <3>9. QED
      BY <3>2, <3>8
  <2>3. QED
    BY <1>7, <2>1, <2>2, TradeEffect
<1>8. CASE FinishMatch
  <2> DEFINE f == Head(stack)
             n == Len(order) + 1
  <2>1. /\ Matches /\ ~ Idle /\ f.taker \in DOMAIN order /\ f.rem \in Nat
        /\ f.rem <= order[f.taker].qty /\ SettleTaker(f.taker, f.rem)
        /\ stack' = Tail(stack) \/ \E g : g.op = "triggers" /\ stack' = <<g>> \o Tail(stack)
    BY <1>8, FinishEffect DEF Matches
  <2>2. ~ Matches'
    <3>1. CASE stack' = Tail(stack)
      BY <2>1, <3>1, PoppedQuiet
    <3>2. ASSUME NEW g, g.op = "triggers", stack' = <<g>> \o Tail(stack)
          PROVE  ~ Matches'
      BY <2>1, <3>2, PushedTop DEF Matches
    <3>3. QED
      BY <2>1, <3>1, <3>2
  <2>3. f.taker = Len(order) /\ order[f.taker].id \notin DOMAIN orderIndex
    BY <2>1 DEF TakerNew
  <2>4. \/ /\ Len(order') = n /\ n \in DOMAIN order'
           /\ SameTerms([order[f.taker] EXCEPT !.qty = f.rem], order'[n])
           /\ AddOrder(n)
        \/ Len(order') = Len(order) /\ AddOrder(f.taker)
        \/ UNCHANGED <<level, orderIndex, userOrders>>
    BY <1>1, <2>1, SettleView
  <2>5. CASE /\ Len(order') = n /\ n \in DOMAIN order'
             /\ SameTerms([order[f.taker] EXCEPT !.qty = f.rem], order'[n])
             /\ AddOrder(n)
    <3>1. order[f.taker] \in PricedOrder
      BY <1>1, <2>1, ElementOfSeq
    <3>2. order'[n].id = order[f.taker].id
      BY <2>5, <3>1 DEF SameTerms, PricedOrder, Order
    <3>3. BookKept'
      BY <1>1, <2>3, <2>5, <3>2, AddKeeps
    <3>4. QED
      BY <1>3, <2>2, <3>3
  <2>6. CASE Len(order') = Len(order) /\ AddOrder(f.taker)
    <3>1. f.taker \in DOMAIN order' /\ order'[f.taker].id = order[f.taker].id
      BY <1>1, <2>1 DEF Grows, SameTerms
    <3>2. BookKept'
      BY <1>1, <2>3, <2>6, <3>1, AddKeeps
    <3>3. QED
      BY <1>3, <2>2, <3>2
  <2>7. QED
    BY <1>2, <1>3, <2>2, <2>4, <2>5, <2>6
<1>9. CASE FinishIceberg
  <2>1. /\ ~ Idle /\ stack' = Tail(stack)
        /\ UNCHANGED <<level, orderIndex, userOrders>>
    BY <1>9, IcebergView DEF bookVars
  <2>2. QED
    BY <1>2, <1>3, <2>1, PoppedQuiet
<1>10. CASE EndRange
  <2>1. /\ ~ Idle /\ UNCHANGED <<level, orderIndex, userOrders>>
        /\ \/ stack' = Tail(stack)
           \/ stack' = <<TriggerFrame(Head(stack).price, "fall", Armed("fall"))>>
                          \o Tail(stack)
    BY <1>10 DEF EndRange, bookVars
  <2>2. TriggerFrame(Head(stack).price, "fall", Armed("fall")).op # "match"
    BY DEF TriggerFrame
  <2>3. ~ Matches'
    BY <2>1, <2>2, PoppedQuiet, PushedTop DEF Matches
  <2>4. QED
    BY <1>2, <1>3, <2>1, <2>3
<1>11. ASSUME NEW id, Cancel(id) PROVE BookKept' /\ TakerNew'
  <2>1. Idle' /\ (Unbooks(id) \/ Disarms(id))
    BY <1>11, CancelEffect DEF Cancel, Idle
  <2>2. BookKept'
    BY <2>1, UnbooksKeeps, DisarmsKeeps
  <2>3. QED
    BY <1>3, <2>1, <2>2 DEF Matches
<1>12. ASSUME NEW user \in Users, CancelAll(user) PROVE BookKept' /\ TakerNew'
  <2>1. Head(stack').op = "cancel" /\ UNCHANGED <<level, orderIndex, userOrders>>
    BY <1>12 DEF CancelAll, CancelFrame, bookVars
  <2>2. QED
    BY <1>2, <1>3, <2>1 DEF Matches
<1>13. CASE CancelNext
  <2> DEFINE f == Head(stack)
  <2>1. PICK id \in f.todo :
           /\ ~ Idle
           /\ stack' = <<CancelFrame(f.user, f.map, f.todo \ {id})>> \o Tail(stack)
           /\ \/ Unbooks(id) \/ Disarms(id)
              \/ UNCHANGED <<order, level, orderIndex, userOrders>>
    BY <1>13, CancelNextEffect
  <2>2. CancelFrame(f.user, f.map, f.todo \ {id}).op = "cancel"
    BY DEF CancelFrame
  <2>3. ~ Matches'
    BY <2>1, <2>2, PushedTop DEF Matches
  <2>4. BookKept'
    BY <1>2, <2>1, UnbooksKeeps, DisarmsKeeps
  <2>5. QED
    BY <1>3, <2>3, <2>4
<1>14. CASE EndCancel
  <2>1. PICK g : /\ ~ Idle /\ UNCHANGED <<level, orderIndex, userOrders>>
                 /\ g.op = "cancel"
                 /\ stack' = Tail(stack) \/ stack' = <<g>> \o Tail(stack)
    <3> DEFINE u == Head(stack).user
               g == CancelFrame(u, "stops", IF u \in DOMAIN stopUsers
                                            THEN DOMAIN stopUsers[u] ELSE {})
    <3>1. g.op = "cancel"
      BY DEF CancelFrame
    <3>2. /\ ~ Idle /\ UNCHANGED <<level, orderIndex, userOrders>>
          /\ stack' = Tail(stack) \/ stack' = <<g>> \o Tail(stack)
      BY <1>14 DEF EndCancel, bookVars
    <3> HIDE DEF g
    <3>3. QED
      BY <3>1, <3>2
  <2>2. ~ Matches'
    BY <2>1, PoppedQuiet, PushedTop DEF Matches
  <2>3. QED
    BY <1>2, <1>3, <2>1, <2>2
<1>15. CASE UNCHANGED vars
  BY <1>4, <1>15 DEF vars, bookVars
<1>16. CASE Pause \/ Resume
  BY <1>4, <1>16 DEF Pause, Resume, bookVars
<1>17. QED
  BY <1>5, <1>6, <1>7, <1>8, <1>9, <1>10, <1>11, <1>12, <1>13, <1>14, <1>15, <1>16
     DEF Next, Step

\* All that keeps orders, stops and book together.
Orderly ==
    /\ IInv /\ Shape
    /\ ArmedAsSent /\ Lineage /\ Issued
    /\ StopsKept /\ BookKept /\ TakerNew

LEMMA OrderlyKeeps == FreshIDs /\ Orderly /\ [Next]_vars => Orderly'
BY NextIInv, ShapeKeeps, ArmedAsSentKeeps, LineageKeeps, IssuedKeeps, StopsKeptKeeps,
   BookTogether DEF Keeps, Orderly

LEMMA InitOrderly == Init => Orderly
<1> SUFFICES ASSUME Init PROVE Orderly
  OBVIOUS
<1>1. /\ order = <<>> /\ orderIndex = EmptyMap /\ userOrders = EmptyMap
      /\ level = [s \in Sides |-> EmptyMap] /\ stack = <<>>
      /\ buyStops = EmptyMap /\ sellStops = EmptyMap
      /\ stopIndex = EmptyMap /\ stopUsers = EmptyMap
  BY DEF Init, BookInit
<1>2. IInv /\ Shape
  BY <1>1, InitIInv DEF Shape, Idle
<1>3. ArmedAsSent /\ StopsKept
  BY <1>1 DEF ArmedAsSent, Armed, StopMap, StopsKept, EmptyMap
<1>4. Lineage /\ Issued
  BY <1>1 DEF Lineage, Issued
<1>5. BookKept /\ TakerNew
  BY <1>1 DEF BookKept, TakerNew, Matches, Idle, EmptyMap
<1>6. QED
  BY <1>2, <1>3, <1>4, <1>5 DEF Orderly

LEMMA OrderlyAlways ==
    ASSUME FreshIDs
    PROVE  Spec => []Orderly
BY InitOrderly, OrderlyKeeps, PTL DEF Spec

(* Property IndexAgrees of the engine's book, as long as no id is used twice  *)
(* (AddOrder and removeOrderInternal move five maps and a list, each found by *)
(* another key; a second order with a resting one's id would take over its    *)
(* entries).                                                                 *)
THEOREM IndexAgreesAlways == FreshIDs => (Spec => []IndexAgrees)
<1> SUFFICES ASSUME FreshIDs PROVE Spec => []IndexAgrees
  OBVIOUS
<1>1. Spec => []Orderly
  BY OrderlyAlways
<1>2. Orderly => IndexAgrees
  BY BookAgrees DEF Orderly
<1>3. QED
  BY <1>1, <1>2, PTL

-----------------------------------------------------------------------------
(* The kinds of step.                                                       *)

\* What happens to the frames, but for an order that enters: nothing, or the
\* innermost one ends or is replaced, or a call starts.  None is an iceberg's.
StackMoves ==
    \/ UNCHANGED stack
    \/ ~ Idle /\ stack' = Tail(stack)
    \/ \E g : g.op # "iceberg" /\ ~ Idle /\ stack' = <<g>> \o Tail(stack)
    \/ \E g : g.op # "iceberg" /\ Idle /\ stack' = <<g>>

\* An order comes in: it enters the engine, or is armed.
Comer(o) ==
    /\ o \in PricedOrder /\ o.root = Len(order) + 1
    /\ o.done = 0 /\ o.filled = 0 /\ o.status = "NEW"
    /\ \A k \in DOMAIN order : order[k].id # o.id
    /\ o.type = "iceberg" => VisibleOrder(o) \in PricedOrder

SubmitKind ==
    \E o : /\ Comer(o) /\ Idle /\ UNCHANGED bookVars
           /\ \/ Enters(o, <<>>) /\ UNCHANGED stopVars
              \/ /\ o.type \in {"stop_loss", "take_profit"}
                 /\ order' = Append(order, o) /\ ArmStop(o, Len(order) + 1)
                 /\ stack' = <<>>

\* An armed stop is triggered: what it turns into enters.
TriggerKind ==
    \E id \in DOMAIN stopIndex : \E g :
        LET o == Triggered(order[stopIndex[id]], Len(order) + 1)
        IN  /\ stopIndex[id] \in DOMAIN order /\ order[stopIndex[id]].id = id
            /\ o \in PricedOrder /\ o.type \in {"limit", "market"}
            /\ ~ Idle /\ ~ Matches /\ g.op = "triggers"
            /\ DisarmStop(id) /\ Enters(o, <<g>> \o Tail(stack))
            /\ UNCHANGED bookVars

TradeKind ==
    /\ Matches /\ UNCHANGED <<lastPrice, paused, stopVars>>
    /\ \E maker, q : TradeWith(maker, q)

SettleKind ==
    LET f == Head(stack)
    IN  /\ Matches /\ ~ Matches' /\ f.taker \in DOMAIN order /\ f.rem \in Nat
        /\ f.rem <= order[f.taker].qty
        /\ SettleTaker(f.taker, f.rem) /\ StackMoves /\ UNCHANGED stopVars

IcebergKind ==
    /\ FinishIceberg /\ ~ Matches /\ ~ Matches' /\ StackMoves

CancelKind ==
    /\ ~ Matches /\ ~ Matches' /\ StackMoves
    /\ \E id : Unbooks(id) \/ Disarms(id)

PassKind ==
    /\ UNCHANGED <<order, level, orderIndex, userOrders, stopVars>> /\ StackMoves
    /\ UNCHANGED stack \/ (~ Matches /\ ~ Matches')

StepKind ==
    \/ SubmitKind \/ TriggerKind \/ TradeKind \/ SettleKind
    \/ IcebergKind \/ CancelKind \/ PassKind

LEMMA Popped ==
    ASSUME IInv, Shape, ~ Idle, stack' = Tail(stack)
    PROVE  StackMoves /\ ~ Matches'
BY PoppedQuiet DEF StackMoves

LEMMA Replaced ==
    ASSUME IInv, ~ Idle, NEW g, g.op \notin {"iceberg", "match"},
           stack' = <<g>> \o Tail(stack)
    PROVE  StackMoves /\ ~ Matches'
<1>1. StackMoves
  BY DEF StackMoves
<1>2. Head(stack') = g
  BY PushedTop
<1>3. QED
  BY <1>1, <1>2 DEF Matches

LEMMA Kinds ==
    ASSUME FreshIDs, Orderly, [Next]_vars
    PROVE  StepKind
<1>1. /\ order \in Seq(PricedOrder) /\ IInv /\ Shape /\ BookKept /\ TakerNew /\ StopsKept
  BY TypeParts DEF Orderly, IInv
<1>2. UNCHANGED stack => StackMoves
  BY DEF StackMoves
<1>3. ASSUME NEW f \in Forms, NEW id \in {"client"} \X ClientIDs, Submit(f, id)
      PROVE  StepKind
  <2> DEFINE o == NewOrder(f, id)
  <2>1. /\ o \in PricedOrder /\ Idle /\ \A k \in DOMAIN order : order[k].id # id
        /\ f.type = "iceberg" => VisibleOrder(o) \in PricedOrder
        /\ \/ Enters(o, <<>>) /\ UNCHANGED stopVars
           \/ /\ f.type \in {"stop_loss", "take_profit"}
              /\ order' = Append(order, o) /\ ArmStop(o, Len(order) + 1)
              /\ stack' = <<>>
        /\ UNCHANGED bookVars
    BY <1>1, <1>3, SubmitEffect
  <2>2. /\ o.id = id /\ o.type = f.type /\ o.root = Len(order) + 1
        /\ o.done = 0 /\ o.filled = 0 /\ o.status = "NEW"
    BY DEF NewOrder
  <2> HIDE DEF o
  <2>3. Comer(o)
    BY <2>1, <2>2 DEF Comer
  <2>4. SubmitKind
    BY <2>1, <2>2, <2>3 DEF SubmitKind
  <2>5. QED
    BY <2>4 DEF StepKind
<1>4. CASE VisitStop
  <2> DEFINE f == Head(stack)
  <2>1. /\ ~ Idle /\ f.op = "triggers" /\ UNCHANGED bookVars
        /\ \E id \in f.todo \cap Armed(f.map) :
              LET r == StopMap(f.map)[id]
                  o == Triggered(order[r], Len(order) + 1)
              IN  \/ /\ DisarmStop(id)
                     /\ o \in PricedOrder /\ o.type \in {"limit", "market"}
                     /\ Enters(o, <<Visited(id)>> \o Tail(stack))
                  \/ /\ stack' = <<Visited(id)>> \o Tail(stack)
                     /\ UNCHANGED <<order, stopVars>>
    BY <1>1, <1>4, VisitEffect
  <2>2. f.map \in {"rise", "fall"}
    BY <1>1, <2>1, HeadTyped DEF Frame
  <2>3. PICK id \in f.todo \cap Armed(f.map) :
              LET r == StopMap(f.map)[id]
                  o == Triggered(order[r], Len(order) + 1)
              IN  \/ /\ DisarmStop(id)
                     /\ o \in PricedOrder /\ o.type \in {"limit", "market"}
                     /\ Enters(o, <<Visited(id)>> \o Tail(stack))
                  \/ /\ stack' = <<Visited(id)>> \o Tail(stack)
                     /\ UNCHANGED <<order, stopVars>>
    BY <2>1
  <2>4. Visited(id).op = "triggers"
    BY DEF Visited, TriggerFrame
  <2>5. /\ id \in DOMAIN stopIndex /\ StopMap(f.map)[id] = stopIndex[id]
        /\ stopIndex[id] \in DOMAIN order /\ order[stopIndex[id]].id = id
    <3>1. id \in DOMAIN stopIndex /\ StopKept(id)
      BY <1>1, <2>2, <2>3 DEF StopsKept, Armed, StopMap
    <3>2. QED
      BY <2>2, <2>3, <3>1 DEF StopKept, Armed, StopMap
  <2>6. ~ Matches
    BY <2>1 DEF Matches
  <2> DEFINE o == Triggered(order[stopIndex[id]], Len(order) + 1)
             g == Visited(id)
  <2>7. CASE /\ DisarmStop(id)
             /\ o \in PricedOrder /\ o.type \in {"limit", "market"}
             /\ Enters(o, <<g>> \o Tail(stack))
    <3>1. TriggerKind
      BY <2>1, <2>4, <2>5, <2>6, <2>7 DEF TriggerKind
    <3>2. QED
      BY <3>1 DEF StepKind
  <2>8. CASE stack' = <<g>> \o Tail(stack) /\ UNCHANGED <<order, stopVars>>
    <3>1. g.op \notin {"iceberg", "match"}
      BY <2>4
    <3> HIDE DEF g
    <3>2. StackMoves /\ ~ Matches'
      BY <1>1, <2>1, <2>8, <3>1, Replaced
    <3>3. PassKind
      BY <2>1, <2>6, <2>8, <3>2 DEF PassKind, bookVars
    <3>4. QED
      BY <3>3 DEF StepKind
  <2>9. QED
    BY <2>3, <2>5, <2>7, <2>8
<1>5. CASE MatchStep
  <2>1. CASE UNCHANGED vars
    BY <1>2, <2>1 DEF StepKind, PassKind, vars, bookVars
  <2>2. CASE TradeKind
    BY <2>2 DEF StepKind
  <2>3. QED
    BY <1>1, <1>5, <2>1, <2>2, TradeEffect DEF TradeKind
<1>6. CASE FinishMatch
  <2> DEFINE f == Head(stack)
  <2>1. /\ Matches /\ ~ Idle /\ f.taker \in DOMAIN order /\ f.rem \in Nat
        /\ f.rem <= order[f.taker].qty /\ SettleTaker(f.taker, f.rem)
        /\ stack' = Tail(stack) \/ \E g : g.op = "triggers" /\ stack' = <<g>> \o Tail(stack)
        /\ UNCHANGED stopVars
    BY <1>1, <1>6, FinishEffect DEF Matches
  <2>2. StackMoves /\ ~ Matches'
    <3>1. CASE stack' = Tail(stack)
      BY <1>1, <2>1, <3>1, Popped
    <3>2. ASSUME NEW g, g.op = "triggers", stack' = <<g>> \o Tail(stack)
          PROVE  StackMoves /\ ~ Matches'
      BY <1>1, <2>1, <3>2, Replaced
    <3>3. QED
      BY <2>1, <3>1, <3>2
  <2>3. SettleKind
    BY <2>1, <2>2 DEF SettleKind
  <2>4. QED
    BY <2>3 DEF StepKind
<1>7. CASE FinishIceberg
  <2>1. ~ Idle /\ stack' = Tail(stack) /\ ~ Matches
    BY <1>1, <1>7, IcebergView DEF Matches
  <2>2. IcebergKind
    BY <1>1, <1>7, <2>1, Popped DEF IcebergKind
  <2>3. QED
    BY <2>2 DEF StepKind
<1>8. CASE EndRange
  <2> DEFINE g == TriggerFrame(Head(stack).price, "fall", Armed("fall"))
  <2>1. /\ ~ Idle /\ ~ Matches
        /\ UNCHANGED <<order, level, orderIndex, userOrders, stopVars>>
        /\ stack' = Tail(stack) \/ stack' = <<g>> \o Tail(stack)
    BY <1>8 DEF EndRange, bookVars, Matches
  <2>2. g.op \notin {"iceberg", "match"}
    BY DEF TriggerFrame
  <2> HIDE DEF g
  <2>3. StackMoves /\ ~ Matches'
    BY <1>1, <2>1, <2>2, Popped, Replaced
  <2>4. QED
    BY <2>1, <2>3 DEF StepKind, PassKind
<1>9. ASSUME NEW id, Cancel(id) PROVE StepKind
  <2>1. /\ Unbooks(id) \/ Disarms(id)
        /\ ~ Matches /\ ~ Matches' /\ UNCHANGED stack
    BY <1>1, <1>9, CancelEffect DEF Cancel, Matches, Idle
  <2>2. QED
    BY <1>2, <2>1 DEF StepKind, CancelKind
<1>10. ASSUME NEW user \in Users, CancelAll(user) PROVE StepKind
  <2>1. /\ UNCHANGED <<order, level, orderIndex, userOrders, stopVars>> /\ Idle
        /\ \E g : g.op = "cancel" /\ stack' = <<g>>
    BY <1>10 DEF CancelAll, CancelFrame, bookVars
  <2>2. PICK g : g.op = "cancel" /\ stack' = <<g>>
    BY <2>1
  <2>3. StackMoves /\ ~ Matches /\ ~ Matches'
    BY <2>1, <2>2 DEF StackMoves, Matches
  <2>4. QED
    BY <2>1, <2>3 DEF StepKind, PassKind
<1>11. CASE CancelNext
  <2> DEFINE f == Head(stack)
  <2>1. PICK id \in f.todo :
           /\ ~ Idle /\ ~ Matches
           /\ stack' = <<CancelFrame(f.user, f.map, f.todo \ {id})>> \o Tail(stack)
           /\ \/ Unbooks(id) \/ Disarms(id)
              \/ UNCHANGED <<order, level, orderIndex, userOrders, stopVars>>
    BY <1>1, <1>11, CancelNextEffect DEF Matches
  <2> DEFINE g == CancelFrame(f.user, f.map, f.todo \ {id})
  <2>2. g.op \notin {"iceberg", "match"}
    BY DEF CancelFrame
  <2>3. stack' = <<g>> \o Tail(stack)
    BY <2>1
  <2> HIDE DEF g
  <2>4. StackMoves /\ ~ Matches'
    BY <1>1, <2>1, <2>2, <2>3, Replaced
  <2>5. QED
    BY <2>1, <2>4 DEF StepKind, PassKind, CancelKind
<1>12. CASE EndCancel
  <2> DEFINE u == Head(stack).user
             g == CancelFrame(u, "stops", IF u \in DOMAIN stopUsers
                                          THEN DOMAIN stopUsers[u] ELSE {})
  <2>1. g.op \notin {"iceberg", "match"}
    BY DEF CancelFrame
  <2>2. /\ ~ Idle /\ ~ Matches
        /\ UNCHANGED <<order, level, orderIndex, userOrders, stopVars>>
        /\ stack' = Tail(stack) \/ stack' = <<g>> \o Tail(stack)
    BY <1>12 DEF EndCancel, bookVars, Matches
  <2> HIDE DEF g
  <2>3. StackMoves /\ ~ Matches'
    BY <1>1, <2>1, <2>2, Popped, Replaced
  <2>4. QED
    BY <2>2, <2>3 DEF StepKind, PassKind
<1>13. CASE UNCHANGED vars \/ Pause \/ Resume
  BY <1>2, <1>13 DEF StepKind, PassKind, Pause, Resume, vars, bookVars
<1>14. QED
  BY <1>3, <1>4, <1>5, <1>6, <1>7, <1>8, <1>9, <1>10, <1>11, <1>12, <1>13
     DEF Next, Step

-----------------------------------------------------------------------------
(* What the objects in the book and among the stops are.                    *)

\* What waits for an iceberg's slice is an iceberg.
IcebergsIn(s, heap) ==
    \A i \in DOMAIN s : s[i].op = "iceberg" => heap[s[i].parent].type = "iceberg"

IcebergsWait == IcebergsIn(stack, order)

LEMMA IcebergsPush ==
    ASSUME NEW heap, NEW f, f.op = "iceberg" => heap[f.parent].type = "iceberg",
           NEW S, NEW rest \in Seq(S), IcebergsIn(rest, heap)
    PROVE  IcebergsIn(<<f>> \o rest, heap)
<1> DEFINE s == <<f>> \o rest
<1>1. Len(s) = Len(rest) + 1 /\ \A i \in 1 .. Len(rest) + 1 :
                s[i] = IF i = 1 THEN f ELSE rest[i - 1]
  BY PushParts
<1>2. DOMAIN s = 1 .. Len(rest) + 1 /\ Len(rest) \in Nat /\ DOMAIN rest = 1 .. Len(rest)
  BY <1>1
<1> HIDE DEF s
<1>3. ASSUME NEW i \in DOMAIN s, s[i].op = "iceberg"
      PROVE  heap[s[i].parent].type = "iceberg"
  <2>1. CASE i = 1
    BY <1>1, <1>2, <1>3, <2>1
  <2>2. CASE i # 1
    <3>1. i - 1 \in DOMAIN rest /\ s[i] = rest[i - 1]
      BY <1>1, <1>2, <2>2
    <3>2. QED
      BY <1>3, <3>1 DEF IcebergsIn
  <2>3. QED
    BY <2>1, <2>2
<1>4. QED
  BY <1>3 DEF IcebergsIn, s

LEMMA IcebergsPop ==
    ASSUME NEW heap, NEW S, NEW s \in Seq(S), s # <<>>, IcebergsIn(s, heap)
    PROVE  IcebergsIn(Tail(s), heap)
<1>1. \A i \in DOMAIN Tail(s) : i + 1 \in DOMAIN s /\ Tail(s)[i] = s[i + 1]
  OBVIOUS
<1>2. QED
  BY <1>1 DEF IcebergsIn

LEMMA IcebergsGrow ==
    ASSUME NEW s \in Seq(Frame(order)), Grows(order, order'), IcebergsIn(s, order)
    PROVE  IcebergsIn(s, order')
<1> SUFFICES ASSUME NEW i \in DOMAIN s, s[i].op = "iceberg"
             PROVE  order'[s[i].parent].type = "iceberg"
  BY DEF IcebergsIn
<1>1. s[i] \in Frame(order)
  BY ElementOfSeq
<1>2. s[i].parent \in DOMAIN order
  BY <1>1 DEF Frame
<1>3. QED
  BY <1>2 DEF IcebergsIn, Grows, SameTerms

LEMMA IcebergsWaitKeeps ==
    ASSUME FreshIDs, Orderly, IcebergsWait, [Next]_vars
    PROVE  IcebergsWait'
<1>1. /\ IInv /\ Grows(order, order') /\ order \in Seq(PricedOrder)
      /\ stack \in Seq(Frame(order))
  BY NextIInv, TypeParts DEF Keeps, Orderly, IInv
<1>2. IcebergsIn(stack, order')
  BY <1>1, IcebergsGrow DEF IcebergsWait
<1>3. ~ Idle => /\ Tail(stack) \in Seq(Frame(order))
                /\ IcebergsIn(Tail(stack), order')
  <2>1. ASSUME ~ Idle PROVE IcebergsIn(Tail(stack), order')
    BY <1>1, <1>2, <2>1, IcebergsPop DEF Idle
  <2>2. QED
    BY <1>1, <2>1, HeadTyped
<1>4. <<>> \in Seq(Frame(order)) /\ IcebergsIn(<<>>, order')
  BY DEF IcebergsIn
<1>5. ASSUME NEW S, NEW rest \in Seq(S), IcebergsIn(rest, order'), NEW g,
             g.op = "iceberg" => order'[g.parent].type = "iceberg"
      PROVE  IcebergsIn(<<g>> \o rest, order')
  BY <1>5, IcebergsPush
<1>6. CASE StackMoves
  <2>1. ASSUME NEW g, g.op # "iceberg", ~ Idle, stack' = <<g>> \o Tail(stack)
        PROVE  IcebergsIn(stack', order')
    BY <1>3, <1>5, <2>1
  <2>2. ASSUME NEW g, g.op # "iceberg", stack' = <<g>>
        PROVE  IcebergsIn(stack', order')
    <3>1. <<g>> \o <<>> = <<g>>
      OBVIOUS
    <3>2. IcebergsIn(<<g>> \o <<>>, order')
      BY <1>4, <1>5, <2>2
    <3>3. QED
      BY <2>2, <3>1, <3>2
  <2>3. QED
    BY <1>2, <1>3, <1>6, <2>1, <2>2 DEF StackMoves, IcebergsWait
<1>7. ASSUME NEW o, NEW S, NEW rest \in Seq(S), Enters(o, rest), o \in PricedOrder,
             o.type = "iceberg" => VisibleOrder(o) \in PricedOrder,
             IcebergsIn(rest, order')
      PROVE  IcebergsWait'
  <2> DEFINE n == Len(order) + 1
             wait == Waiting(o, rest)
             top == IcebergFrame(n, n + 1)
             T == S \cup {top}
  <2>1. /\ Renewed(o, order'[n])
        /\ \/ \E last : stack' = <<MatchFrame(last, order'[last].qty, NoPrice)>> \o wait
           \/ stack' = wait
    BY <1>1, <1>7, EntersView
  <2>2. top.op = "iceberg" /\ top.parent = n /\ Len(order) + 2 = n + 1
    BY <1>1 DEF IcebergFrame
  <2>3. IcebergsIn(wait, order') /\ wait \in Seq(T)
    <3>1. CASE o.type = "iceberg" /\ ~ paused
      <4>1. wait = <<top>> \o rest
        BY <2>2, <3>1 DEF Waiting
      <4>2. order'[top.parent].type = "iceberg"
        BY <2>1, <2>2, <3>1 DEF Renewed, SameTerms
      <4>3. rest \in Seq(T) /\ <<top>> \in Seq(T)
        BY <1>7, SeqMonotonic
      <4> HIDE DEF top, T, wait
      <4>4. IcebergsIn(<<top>> \o rest, order')
        BY <1>5, <1>7, <4>2
      <4>5. <<top>> \o rest \in Seq(T)
        BY <4>3
      <4>6. QED
        BY <4>1, <4>4, <4>5
    <3>2. CASE ~ (o.type = "iceberg" /\ ~ paused)
      <4>1. rest \in Seq(T)
        BY <1>7, SeqMonotonic
      <4>2. QED
        BY <1>7, <3>2, <4>1 DEF Waiting
    <3>3. QED
      BY <3>1, <3>2
  <2> HIDE DEF wait, T
  <2>4. ASSUME NEW last, stack' = <<MatchFrame(last, order'[last].qty, NoPrice)>> \o wait
        PROVE  IcebergsWait'
    <3> DEFINE g == MatchFrame(last, order'[last].qty, NoPrice)
    <3>1. g.op # "iceberg"
      BY DEF MatchFrame
    <3> HIDE DEF g
    <3>2. IcebergsIn(<<g>> \o wait, order')
      BY <1>5, <2>3, <3>1
    <3>3. QED
      BY <2>4, <3>2 DEF g, IcebergsWait
  <2>5. QED
    BY <2>1, <2>3, <2>4 DEF IcebergsWait
<1>8. CASE SubmitKind
  <2>1. PICK o : /\ Comer(o)
                 /\ Enters(o, <<>>) \/ stack' = <<>>
    BY <1>8 DEF SubmitKind
  <2>2. CASE stack' = <<>>
    BY <1>4, <2>2 DEF IcebergsWait
  <2>3. CASE Enters(o, <<>>)
    BY <1>4, <1>7, <2>1, <2>3 DEF Comer
  <2>4. QED
    BY <2>1, <2>2, <2>3
<1>9. CASE TriggerKind
  <2>1. PICK o, g : /\ o \in PricedOrder /\ o.type # "iceberg" /\ ~ Idle
                    /\ g.op = "triggers" /\ Enters(o, <<g>> \o Tail(stack))
    BY <1>9 DEF TriggerKind
  <2>2. IcebergsIn(<<g>> \o Tail(stack), order')
    BY <1>3, <1>5, <2>1
  <2>3. \E T : <<g>> \o Tail(stack) \in Seq(T)
    <3> DEFINE S == Frame(order)
               below == Tail(stack)
    <3>1. below \in Seq(S) /\ Nested(below) /\ Shape
      BY <1>3, <2>1 DEF Orderly, Shape
    <3> HIDE DEF S, below
    <3>2. \E T : <<g>> \o below \in Seq(T)
      BY <2>1, <3>1, TriggersPush
    <3>3. QED
      BY <3>2 DEF below
  <2> DEFINE rest == <<g>> \o Tail(stack)
  <2>4. Enters(o, rest) /\ IcebergsIn(rest, order') /\ \E T : rest \in Seq(T)
    BY <2>1, <2>2, <2>3
  <2> HIDE DEF rest
  <2>5. PICK T : rest \in Seq(T)
    BY <2>4
  <2>6. QED
    BY <1>7, <2>1, <2>4, <2>5
<1>10. CASE TradeKind
  <2>1. ~ Idle /\ \E g : g.op # "iceberg" /\ stack' = <<g>> \o Tail(stack)
    BY <1>10 DEF TradeKind, TradeWith, MatchFrame, Matches
  <2>2. StackMoves
    BY <2>1 DEF StackMoves
  <2>3. QED
    BY <1>6, <2>2
<1>11. QED
  BY <1>6, <1>8, <1>9, <1>10, Kinds DEF StepKind, SettleKind, IcebergKind, CancelKind, PassKind

\* What rests is a limit order with something left; what is armed is a client's
\* stop or take-profit order, untouched.
RestsOpen(r) == order[r].type = "limit" /\ order[r].filled < order[r].qty
WaitsWhole(r) ==
    /\ order[r].type \in {"stop_loss", "take_profit"} /\ order[r].root = r
    /\ order[r].filled = 0

Roles ==
    /\ \A id \in DOMAIN orderIndex : RestsOpen(orderIndex[id])
    /\ \A id \in DOMAIN stopIndex : WaitsWhole(stopIndex[id])

\* The indexes name different orders by different ids.
LEMMA IndexesTell ==
    ASSUME Orderly
    PROVE  /\ \A id \in DOMAIN orderIndex :
                 orderIndex[id] \in DOMAIN order /\ order[orderIndex[id]].id = id
           /\ \A id \in DOMAIN stopIndex :
                 stopIndex[id] \in DOMAIN order /\ order[stopIndex[id]].id = id
BY DEF Orderly, BookKept, RestsAt, StopsKept, StopKept

\* The iceberg that got its slice back.
LEMMA SliceBack ==
    ASSUME Orderly, IcebergsWait, FinishIceberg
    PROVE  order[Head(stack).parent].type = "iceberg"
<1>1. IInv /\ ~ Idle /\ Head(stack).op = "iceberg"
  BY DEF Orderly, FinishIceberg
<1>2. stack \in Seq(Frame(order)) /\ stack # <<>>
  BY <1>1, TypeParts DEF IInv, Idle
<1>3. 1 \in DOMAIN stack /\ Head(stack) = stack[1]
  BY <1>2
<1>4. QED
  BY <1>1, <1>3 DEF IcebergsWait, IcebergsIn

\* A trade, order by order.
LEMMA TradeTells ==
    ASSUME Orderly, NEW maker, NEW q, TradeWith(maker, q)
    PROVE  LET taker == Head(stack).taker IN
           /\ order' \in Seq(PricedOrder) /\ DOMAIN order' = DOMAIN order
           /\ Grows(order, order')
           /\ \A k \in DOMAIN order :
                 /\ order'[k].filled = IF k = maker THEN order[k].filled + q
                                       ELSE order[k].filled
                 /\ order'[k].status =
                       IF k = maker
                       THEN IF order[k].filled + q >= order[k].qty
                            THEN "FILLED" ELSE "PARTIALLY_FILLED"
                       ELSE order[k].status
                 /\ order'[k].done = order[k].done
                       + (IF k = order[maker].root THEN q ELSE 0)
                       + (IF k = order[taker].root THEN q ELSE 0)
           /\ \/ /\ q = RemainingQty(order[maker])
                 /\ orderIndex' = MapDelete(orderIndex, order[maker].id)
              \/ q < RemainingQty(order[maker]) /\ UNCHANGED orderIndex
<1> DEFINE taker == Head(stack).taker
<1>1. /\ taker \in DOMAIN order /\ maker \in DOMAIN order /\ q \in Nat
      /\ order' = AfterTrade(taker, maker, q)
      /\ order[maker].id \in DOMAIN orderIndex
  BY DEF TradeWith
<1>2. order \in Seq(PricedOrder)
  BY TypeParts DEF Orderly, IInv
<1>3. order[maker].root \in DOMAIN order /\ order[taker].root \in DOMAIN order
  BY <1>1 DEF Orderly, Lineage
<1> HIDE DEF taker
<1>4. /\ order' \in Seq(PricedOrder) /\ DOMAIN order' = DOMAIN order
      /\ Grows(order, order')
      /\ \A k \in DOMAIN order :
            /\ order'[k].filled = IF k = maker THEN order[k].filled + q
                                  ELSE order[k].filled
            /\ order'[k].status =
                  IF k = maker
                  THEN IF order[k].filled + q >= order[k].qty
                       THEN "FILLED" ELSE "PARTIALLY_FILLED"
                  ELSE order[k].status
            /\ order'[k].done = order[k].done
                  + (IF k = order[maker].root THEN q ELSE 0)
                  + (IF k = order[taker].root THEN q ELSE 0)
  BY <1>1, <1>2, <1>3, TradeView
<1>5. RemoveOrder(order[maker].id) =>
         orderIndex' = MapDelete(orderIndex, order[maker].id)
  BY <1>1, <1>4, RemoveKeeps DEF Orderly
<1>6. \/ q = RemainingQty(order[maker]) /\ RemoveOrder(order[maker].id)
      \/ q < RemainingQty(order[maker]) /\ UNCHANGED orderIndex
  BY DEF TradeWith
<1>7. QED
  BY <1>4, <1>5, <1>6 DEF taker

LEMMA RolesKeep ==
    ASSUME FreshIDs, Orderly, IcebergsWait, Roles, [Next]_vars
    PROVE  Roles'
<1>1. /\ IInv /\ Grows(order, order') /\ order \in Seq(PricedOrder)
      /\ order' \in Seq(PricedOrder)
  BY NextIInv, TypeParts, TypePartsAfter DEF Keeps, Orderly, IInv
<1>2. ASSUME NEW r \in DOMAIN order, order'[r].filled = order[r].filled
      PROVE  /\ RestsOpen(r) => RestsOpen(r)'
             /\ WaitsWhole(r) => WaitsWhole(r)'
  BY <1>1, <1>2 DEF RestsOpen, WaitsWhole, Grows, SameTerms
<1>3. ASSUME UNCHANGED stopIndex \/ \E id : DisarmStop(id),
             UNCHANGED orderIndex \/ \E id : orderIndex' = MapDelete(orderIndex, id),
             \A i \in DOMAIN orderIndex' : order'[orderIndex[i]].filled = order[orderIndex[i]].filled,
             \A i \in DOMAIN stopIndex' : order'[stopIndex[i]].filled = order[stopIndex[i]].filled
      PROVE  Roles'
  <2>1. \A i \in DOMAIN orderIndex' : i \in DOMAIN orderIndex /\ orderIndex'[i] = orderIndex[i]
    BY <1>3 DEF MapDelete
  <2>2. \A i \in DOMAIN stopIndex' : i \in DOMAIN stopIndex /\ stopIndex'[i] = stopIndex[i]
    BY <1>3 DEF MapDelete, DisarmStop
  <2>3. QED
    BY <1>2, <1>3, <2>1, <2>2, IndexesTell DEF Roles
<1>4. CASE SubmitKind
  <2>1. PICK o : /\ Comer(o) /\ UNCHANGED orderIndex
                 /\ \/ Enters(o, <<>>) /\ UNCHANGED stopIndex
                    \/ /\ o.type \in {"stop_loss", "take_profit"}
                       /\ order' = Append(order, o) /\ ArmStop(o, Len(order) + 1)
    BY <1>4 DEF SubmitKind, bookVars, stopVars
  <2>2. CASE Enters(o, <<>>) /\ UNCHANGED stopIndex
    <3>1. \A k \in DOMAIN order : order'[k] = order[k]
      BY <1>1, <2>1, <2>2, EntersView DEF Comer
    <3>2. QED
      BY <1>3, <2>1, <2>2, <3>1, IndexesTell
  <2>3. CASE /\ o.type \in {"stop_loss", "take_profit"}
             /\ order' = Append(order, o) /\ ArmStop(o, Len(order) + 1)
    <3> DEFINE n == Len(order) + 1
    <3>1. \A k \in DOMAIN order : order'[k] = order[k]
      BY <1>1, <2>1, <2>3, AppendProperties DEF Comer
    <3>2. /\ order'[n].type \in {"stop_loss", "take_profit"}
          /\ order'[n].root = n /\ order'[n].filled = 0
      BY <1>1, <2>1, <2>3, HeapAppend DEF Comer
    <3>3. \A i \in DOMAIN stopIndex' :
              stopIndex'[i] = n \/ (i \in DOMAIN stopIndex /\ stopIndex'[i] = stopIndex[i])
      BY <2>3 DEF ArmStop, MapPut
    <3> HIDE DEF n
    <3>4. ASSUME NEW i \in DOMAIN stopIndex' PROVE WaitsWhole(stopIndex[i])'
      <4>1. CASE stopIndex'[i] = n
        BY <3>2, <4>1 DEF WaitsWhole
      <4>2. CASE i \in DOMAIN stopIndex /\ stopIndex'[i] = stopIndex[i]
        BY <1>2, <3>1, <4>2, IndexesTell DEF Roles
      <4>3. QED
        BY <3>3, <4>1, <4>2
    <3>5. QED
      BY <1>2, <2>1, <3>1, <3>4, IndexesTell DEF Roles
  <2>4. QED
    BY <2>1, <2>2, <2>3
<1>5. CASE TriggerKind
  <2>1. PICK id, o, rest :
           /\ o \in PricedOrder /\ o.type \in {"limit", "market"}
           /\ Enters(o, rest) /\ DisarmStop(id) /\ UNCHANGED orderIndex
    BY <1>5 DEF TriggerKind, bookVars
  <2>2. \A k \in DOMAIN order : order'[k] = order[k]
    BY <1>1, <2>1, EntersView
  <2>3. \A i \in DOMAIN stopIndex' : i \in DOMAIN stopIndex
    BY <2>1 DEF DisarmStop, MapDelete
  <2>4. QED
    BY <1>3, <2>1, <2>2, <2>3, IndexesTell
<1>6. CASE TradeKind
  <2>1. PICK maker, q : TradeWith(maker, q) /\ UNCHANGED stopIndex
    BY <1>6 DEF TradeKind, stopVars
  <2>2. /\ maker \in DOMAIN order /\ order[maker].id \in DOMAIN orderIndex
        /\ orderIndex[order[maker].id] = maker
        /\ q \in Nat
    BY <2>1 DEF TradeWith
  <2>3. \A k \in DOMAIN order : k # maker => order'[k].filled = order[k].filled
    BY <2>1, TradeTells
  <2>4. order'[maker].filled = order[maker].filled + q
    BY <2>1, <2>2, TradeTells
  <2>5. \A i \in DOMAIN stopIndex : stopIndex[i] # maker
    BY <2>2 DEF Roles, RestsOpen, WaitsWhole
  <2>6. ASSUME q < RemainingQty(order[maker]) PROVE RestsOpen(maker)'
    <3>1. order[maker].filled \in Nat /\ order[maker].qty \in Nat
      BY <1>1, <2>2, OrderTyped
    <3>2. order[maker].filled + q < order[maker].qty
      BY <2>2, <2>6, <3>1 DEF RemainingQty
    <3>3. /\ order'[maker].qty = order[maker].qty /\ order'[maker].type = order[maker].type
      BY <1>1, <2>2 DEF Grows, SameTerms
    <3>4. order[maker].type = "limit"
      BY <2>2 DEF Roles, RestsOpen
    <3>5. QED
      BY <2>4, <3>2, <3>3, <3>4 DEF RestsOpen
  <2>7. CASE orderIndex' = MapDelete(orderIndex, order[maker].id)
    <3>1. \A i \in DOMAIN orderIndex' : i \in DOMAIN orderIndex /\ orderIndex[i] # maker
      BY <2>7, IndexesTell DEF MapDelete
    <3>2. QED
      BY <1>3, <2>1, <2>3, <2>5, <2>7, <3>1, IndexesTell
  <2>8. CASE q < RemainingQty(order[maker]) /\ UNCHANGED orderIndex
    BY <1>2, <2>1, <2>3, <2>5, <2>6, <2>8, IndexesTell DEF Roles
  <2>9. QED
    BY <2>1, <2>7, <2>8, TradeTells
<1>7. CASE SettleKind
  <2> DEFINE f == Head(stack)
             r == f.taker
             o == order[r]
             n == Len(order) + 1
  <2>1. /\ Matches /\ r \in DOMAIN order /\ f.rem \in Nat /\ f.rem <= o.qty
        /\ SettleTaker(r, f.rem) /\ UNCHANGED stopIndex
    BY <1>7 DEF SettleKind, stopVars
  <2>2. o.id \notin DOMAIN orderIndex /\ o.type \in {"limit", "market"}
    BY <2>1 DEF Orderly, TakerNew
  <2>3. /\ \A i \in DOMAIN orderIndex : orderIndex[i] # r
        /\ \A i \in DOMAIN stopIndex : stopIndex[i] # r
    BY <2>2, IndexesTell DEF Roles, WaitsWhole
  <2>4. o \in PricedOrder /\ o.qty \in Nat
    BY <1>1, <2>1, OrderTyped
  <2> HIDE DEF f
  <2>5. /\ \A k \in DOMAIN order : k # r => order'[k] = order[k]
        /\ SameTerms(o, order'[r]) /\ order'[r].filled = o.qty - f.rem
        /\ \/ /\ Rests(o, f.rem) /\ SameTerms([o EXCEPT !.qty = f.rem], order'[n])
              /\ order'[n].filled = 0 /\ AddOrder(n)
           \/ Rests(o, f.rem) /\ f.rem = o.qty /\ AddOrder(r)
           \/ UNCHANGED orderIndex
    BY <1>1, <2>1, SettleView
  <2> HIDE DEF r
  <2>6. ASSUME NEW k, order'[k].type = "limit", order'[k].filled < order'[k].qty,
               AddOrder(k)
        PROVE  Roles'
    <3>1. \A i \in DOMAIN orderIndex' :
              orderIndex'[i] = k \/ (i \in DOMAIN orderIndex /\ orderIndex'[i] = orderIndex[i])
      BY <2>6 DEF AddOrder, MapPut
    <3>2. ASSUME NEW i \in DOMAIN orderIndex' PROVE RestsOpen(orderIndex[i])'
      <4>1. CASE orderIndex'[i] = k
        BY <2>6, <4>1 DEF RestsOpen
      <4>2. CASE i \in DOMAIN orderIndex /\ orderIndex'[i] = orderIndex[i]
        BY <1>2, <2>3, <2>5, <4>2, IndexesTell DEF Roles
      <4>3. QED
        BY <3>1, <4>1, <4>2
    <3>3. QED
      BY <1>2, <2>1, <2>3, <2>5, <3>2, IndexesTell DEF Roles
  <2>7. CASE /\ Rests(o, f.rem) /\ SameTerms([o EXCEPT !.qty = f.rem], order'[n])
             /\ order'[n].filled = 0 /\ AddOrder(n)
    <3>1. order'[n].qty = f.rem /\ order'[n].type = o.type
      BY <2>4, <2>7 DEF SameTerms, PricedOrder, Order
    <3>2. order'[n].type = "limit" /\ order'[n].filled < order'[n].qty
      BY <2>1, <2>7, <3>1 DEF Rests
    <3>3. QED
      BY <2>6, <2>7, <3>2
  <2>8. CASE Rests(o, f.rem) /\ f.rem = o.qty /\ AddOrder(r)
    <3>1. order'[r].filled = 0 /\ order'[r].qty > 0 /\ order'[r].type = "limit"
      BY <2>1, <2>4, <2>5, <2>8 DEF SameTerms, Rests
    <3>2. QED
      BY <2>6, <2>8, <3>1
  <2>9. CASE UNCHANGED orderIndex
    BY <1>3, <2>1, <2>3, <2>5, <2>9, IndexesTell
  <2>10. QED
    BY <2>5, <2>7, <2>8, <2>9
<1>8. CASE IcebergKind
  <2> DEFINE r == Head(stack).parent
  <2>1. /\ UNCHANGED <<orderIndex, stopIndex>>
        /\ \A k \in DOMAIN order : k # r => order'[k] = order[k]
    BY <1>1, <1>8, IcebergView DEF IcebergKind, bookVars, stopVars
  <2>2. order[r].type = "iceberg"
    BY <1>8, SliceBack DEF IcebergKind
  <2>3. /\ \A i \in DOMAIN orderIndex : orderIndex[i] # r
        /\ \A i \in DOMAIN stopIndex : stopIndex[i] # r
    BY <2>2 DEF Roles, RestsOpen, WaitsWhole
  <2>4. QED
    BY <1>3, <2>1, <2>3, IndexesTell
<1>9. CASE CancelKind
  <2>1. PICK id : Unbooks(id) \/ Disarms(id)
    BY <1>9 DEF CancelKind
  <2>2. PICK r \in DOMAIN order : order' = [order EXCEPT ![r].status = "CANCELED"]
    BY <2>1, IndexesTell DEF Unbooks, Disarms
  <2>3. \A k \in DOMAIN order : order'[k].filled = order[k].filled
    BY <1>1, <2>2, CancelView DEF Renewed
  <2>4. CASE Unbooks(id)
    <3>1. orderIndex' = MapDelete(orderIndex, id)
      BY <2>4, UnbooksKeeps DEF Orderly
    <3>2. UNCHANGED stopIndex
      BY <2>4 DEF Unbooks, stopVars
    <3>3. DOMAIN orderIndex' \subseteq DOMAIN orderIndex
      BY <3>1 DEF MapDelete
    <3>4. QED
      BY <1>3, <2>3, <3>1, <3>2, <3>3, IndexesTell
  <2>5. CASE Disarms(id)
    <3>1. DisarmStop(id) /\ UNCHANGED orderIndex
      BY <2>5 DEF Disarms
    <3>2. DOMAIN stopIndex' \subseteq DOMAIN stopIndex
      BY <3>1 DEF DisarmStop, MapDelete
    <3>3. QED
      BY <1>3, <2>3, <3>1, <3>2, IndexesTell
  <2>6. QED
    BY <2>1, <2>4, <2>5
<1>10. CASE PassKind
  BY <1>3, <1>10, IndexesTell DEF PassKind, stopVars
<1>11. QED
  BY <1>4, <1>5, <1>6, <1>7, <1>8, <1>9, <1>10, Kinds DEF StepKind

-----------------------------------------------------------------------------
(* The accounts: what stands for a submission, and what is left of it.      *)

Held == {orderIndex[id] : id \in DOMAIN orderIndex}

Taker == IF Matches THEN {Head(stack).taker} ELSE {}

\* The objects that can still be executed.
Live == Held \cup ArmedOrders \cup Taker

\* How much of one of them.
Left(k) ==
    IF Matches /\ k = Head(stack).taker THEN Head(stack).rem
    ELSE RemainingQty(order[k])

LEMMA LiveFacts ==
    ASSUME Orderly, Roles
    PROVE  /\ Live \subseteq DOMAIN order
           /\ Held \cap ArmedOrders = {} /\ Held \cap Taker = {}
           /\ ArmedOrders \cap Taker = {}
           /\ \A k \in Live : Left(k) \in Nat
           /\ \A k \in Held \cup ArmedOrders : Left(k) = RemainingQty(order[k])
           /\ \A k \in Taker : Left(k) = Head(stack).rem
           /\ \A k \in ArmedOrders : Left(k) = order[k].qty
<1>1. \A k \in Held : k \in DOMAIN order /\ order[k].id \in DOMAIN orderIndex
                      /\ RestsOpen(k)
  BY IndexesTell DEF Held, Roles
<1>2. \A k \in ArmedOrders : k \in DOMAIN order /\ WaitsWhole(k)
  BY IndexesTell DEF ArmedOrders, Roles
<1>3. Matches => LET f == Head(stack)
                 IN  /\ f.taker \in DOMAIN order /\ f.rem \in Nat
                     /\ order[f.taker].id \notin DOMAIN orderIndex
                     /\ order[f.taker].type \in {"limit", "market"}
  <2>1. ASSUME Matches PROVE Head(stack) \in Frame(order)
    BY <2>1, HeadTyped DEF Matches, Orderly
  <2>2. ASSUME Matches
        PROVE  Head(stack).taker \in DOMAIN order /\ Head(stack).rem \in Nat
    BY <2>1, <2>2 DEF Matches, Frame
  <2>3. QED
    BY <2>2 DEF Orderly, TakerNew
<1>4. \A k \in Taker : Matches /\ k = Head(stack).taker
  BY DEF Taker
<1>5. /\ Held \cap ArmedOrders = {} /\ Held \cap Taker = {}
      /\ ArmedOrders \cap Taker = {}
  BY <1>1, <1>2, <1>3, <1>4 DEF RestsOpen, WaitsWhole
<1>6. \A k \in Held \cup ArmedOrders : Left(k) = RemainingQty(order[k])
  <2>1. Matches => Head(stack).taker \in Taker
    BY DEF Taker
  <2>2. QED
    BY <1>5, <2>1 DEF Left
<1>7. \A k \in Taker : Left(k) = Head(stack).rem
  BY <1>4 DEF Left
<1>8. IInv
  BY DEF Orderly
<1>9. \A k \in Held : Left(k) \in Nat
  <2>1. ASSUME NEW k \in Held PROVE RemainingQty(order[k]) \in Nat
    <3>1. order[k].qty \in Nat /\ order[k].filled \in Nat /\ order[k].filled < order[k].qty
      BY <1>1, <1>8, OrderTyped DEF RestsOpen
    <3>2. QED
      BY <3>1 DEF RemainingQty
  <2>2. QED
    BY <1>6, <2>1
<1>10. \A k \in ArmedOrders : Left(k) = order[k].qty /\ Left(k) \in Nat
  <2>1. ASSUME NEW k \in ArmedOrders
        PROVE  RemainingQty(order[k]) = order[k].qty /\ order[k].qty \in Nat
    <3>1. order[k].qty \in Nat /\ order[k].filled = 0
      BY <1>2, <1>8, OrderTyped DEF WaitsWhole
    <3>2. QED
      BY <3>1 DEF RemainingQty
  <2>2. QED
    BY <1>6, <2>1
<1>11. Live \subseteq DOMAIN order
  BY <1>1, <1>2, <1>3, <1>4 DEF Live
<1>12. \A k \in Live : Left(k) \in Nat
  BY <1>3, <1>4, <1>7, <1>9, <1>10 DEF Live
<1>13. QED
  BY <1>5, <1>6, <1>7, <1>10, <1>11, <1>12

LEMMA HeldDelete ==
    ASSUME Orderly, NEW id \in DOMAIN orderIndex, orderIndex' = MapDelete(orderIndex, id)
    PROVE  Held' = Held \ {orderIndex[id]}
<1>1. /\ DOMAIN orderIndex' = DOMAIN orderIndex \ {id}
      /\ \A i \in DOMAIN orderIndex' : orderIndex'[i] = orderIndex[i]
  BY DEF MapDelete
<1>2. \A i \in DOMAIN orderIndex : i # id => orderIndex[i] # orderIndex[id]
  BY IndexesTell
<1>3. QED
  BY <1>1, <1>2 DEF Held

LEMMA HeldPut ==
    ASSUME NEW id, id \notin DOMAIN orderIndex, NEW r,
           orderIndex' = MapPut(orderIndex, id, r)
    PROVE  Held' = Held \cup {r}
<1>1. /\ DOMAIN orderIndex' = DOMAIN orderIndex \cup {id} /\ orderIndex'[id] = r
      /\ \A i \in DOMAIN orderIndex : orderIndex'[i] = orderIndex[i]
  BY DEF MapPut
<1>2. QED
  BY <1>1 DEF Held

LEMMA ArmedDelete ==
    ASSUME Orderly, NEW id \in DOMAIN stopIndex, DisarmStop(id)
    PROVE  ArmedOrders' = ArmedOrders \ {stopIndex[id]}
<1>1. /\ DOMAIN stopIndex' = DOMAIN stopIndex \ {id}
      /\ \A i \in DOMAIN stopIndex' : stopIndex'[i] = stopIndex[i]
  BY DEF DisarmStop, MapDelete
<1>2. \A i \in DOMAIN stopIndex : i # id => stopIndex[i] # stopIndex[id]
  BY IndexesTell
<1>3. QED
  BY <1>1, <1>2 DEF ArmedOrders

LEMMA ArmedPut ==
    ASSUME NEW o, o.id \notin DOMAIN stopIndex, NEW r, ArmStop(o, r)
    PROVE  ArmedOrders' = ArmedOrders \cup {r}
<1>1. /\ DOMAIN stopIndex' = DOMAIN stopIndex \cup {o.id} /\ stopIndex'[o.id] = r
      /\ \A i \in DOMAIN stopIndex : stopIndex'[i] = stopIndex[i]
  BY DEF ArmStop, MapPut
<1>2. QED
  BY <1>1 DEF ArmedOrders

\* An order that enters, or its slice, becomes the taker or is rejected.
LEMMA EntersLive ==
    ASSUME order \in Seq(PricedOrder), NEW o \in PricedOrder, o.status = "NEW",
           NEW S, NEW rest \in Seq(S), Nested(rest),
           o.type = "iceberg" => VisibleOrder(o) \in PricedOrder,
           Enters(o, rest)
    PROVE  \E k \in DOMAIN order' \ DOMAIN order :
              /\ \A j \in DOMAIN order : j \in DOMAIN order' /\ order'[j] = order[j]
              /\ \A j \in DOMAIN order' \ DOMAIN order :
                    /\ order'[j].root = o.root /\ order'[j].done = o.done
                    /\ order'[j].status \in {"NEW", "REJECTED"}
              /\ Len(order) + 1 \in DOMAIN order' \ DOMAIN order
              /\ order'[Len(order) + 1].qty = o.qty
              /\ order'[Len(order) + 1].type = o.type
              /\ order'[k].qty \in Nat /\ order'[k].qty <= o.qty
              /\ o.type # "iceberg" =>
                    k = Len(order) + 1 /\ DOMAIN order' = DOMAIN order \cup {k}
              /\ \/ Matches' /\ Head(stack').taker = k /\ Head(stack').rem = order'[k].qty
                 \/ ~ Matches' /\ order'[k].status = "REJECTED"
<1> DEFINE n == Len(order) + 1
           sliced == o.type = "iceberg" /\ ~ paused
           last == IF sliced THEN n + 1 ELSE n
           frame == MatchFrame(last, order'[last].qty, NoPrice)
           wait == Waiting(o, rest)
           heap == Entered(o)
<1>1. /\ order' \in Seq(PricedOrder) /\ Len(order') = last
      /\ DOMAIN order' = 1 .. last
      /\ \A k \in DOMAIN order : order'[k] = order[k]
      /\ Renewed(o, order'[n])
      /\ sliced => Renewed(VisibleOrder(o), order'[last])
      /\ \/ stack' = <<frame>> \o wait
         \/ order'[last].status = "REJECTED" /\ stack' = wait
  BY EntersView
<1>2. Len(order) \in Nat /\ DOMAIN order = 1 .. Len(order)
  OBVIOUS
<1>3. Nested(wait) /\ \E T : wait \in Seq(T)
  BY WaitingNested
<1>4. frame.op = "match" /\ frame.taker = last /\ frame.rem = order'[last].qty
  BY DEF MatchFrame
<1>5. /\ sliced => VisibleOrder(o).root = o.root /\ VisibleOrder(o).done = o.done
                   /\ VisibleOrder(o).status = "NEW"
                   /\ VisibleOrder(o).qty = VisibleQty(o)
                   /\ VisibleOrder(o).qty \in Nat
      /\ o.qty \in Nat /\ o.filled \in Nat
  BY DEF VisibleOrder, PricedOrder, Order
\* The statuses, which Renewed does not speak of.
<1>6. \A j \in n .. last : order'[j].status \in {"NEW", "REJECTED"}
  <2>1. heap \in Seq(PricedOrder) /\ Len(heap) = last
        /\ \A j \in n .. last : j \in DOMAIN heap /\ heap[j].status = "NEW"
    <3>1. CASE ~ sliced
      <4>1. heap = Append(order, o) /\ last = n
        BY <3>1 DEF Entered
      <4>2. heap \in Seq(PricedOrder) /\ Len(heap) = n /\ heap[n] = o
        BY <4>1, HeapAppend
      <4>3. \A j \in n .. last : j = n
        BY <1>2, <4>1
      <4>4. QED
        BY <1>2, <4>1, <4>2, <4>3
    <3>2. CASE sliced
      <4> DEFINE one == Append(order, o)
                 v == VisibleOrder(o)
      <4>1. heap = Append(one, v) /\ last = n + 1 /\ v \in PricedOrder /\ v.status = "NEW"
        BY <1>5, <3>2 DEF Entered
      <4>2. one \in Seq(PricedOrder) /\ Len(one) = n /\ one[n] = o
        BY HeapAppend
      <4> HIDE DEF one, v
      <4>3. /\ Append(one, v) \in Seq(PricedOrder) /\ Len(Append(one, v)) = n + 1
            /\ Append(one, v)[n + 1] = v
        BY <4>1, <4>2, HeapAppend
      <4>4. Append(one, v)[n] = o
        BY <1>2, <4>1, <4>2, AppendProperties
      <4>5. \A j \in n .. last : j = n \/ j = n + 1
        BY <1>2, <4>1
      <4>6. QED
        BY <1>2, <4>1, <4>3, <4>4, <4>5
    <3>3. QED
      BY <3>1, <3>2
  <2> HIDE DEF heap
  <2>2. order' = heap \/ order' = [heap EXCEPT ![last].status = "REJECTED"]
    BY <2>1 DEF Enters, heap
  <2>3. CASE order' = heap
    BY <2>1, <2>3
  <2>4. CASE order' = [heap EXCEPT ![last].status = "REJECTED"]
    <3>1. last \in DOMAIN heap /\ "REJECTED" \in Statuses
      BY <1>2, <2>1 DEF Statuses
    <3>2. /\ \A k \in DOMAIN heap : k # last => order'[k] = heap[k]
          /\ order'[last].status = "REJECTED"
      BY <2>1, <2>4, <3>1, StatusView
    <3>3. QED
      BY <2>1, <3>2
  <2>5. QED
    BY <2>2, <2>3, <2>4
<1>7. last \in n .. last /\ n \in n .. last /\ (\A j \in n .. last : j = n \/ (sliced /\ j = last))
  BY <1>2
<1>8. DOMAIN order' \ DOMAIN order = n .. last /\ DOMAIN order \subseteq DOMAIN order'
  BY <1>1, <1>2
<1>9. ASSUME NEW j \in n .. last
      PROVE  order'[j].root = o.root /\ order'[j].done = o.done
  BY <1>1, <1>5, <1>7 DEF Renewed, SameTerms
<1>10. order'[last].qty \in Nat /\ order'[last].qty <= o.qty
  <2>1. CASE sliced
    <3>1. order'[last].qty = VisibleQty(o) /\ VisibleQty(o) \in Nat
      BY <1>1, <1>5, <2>1 DEF Renewed, SameTerms
    <3>2. VisibleQty(o) <= RemainingQty(o)
      <4> DEFINE asked == IF o.visible = 0 THEN o.qty \div 10 ELSE o.visible
      <4>1. asked \in Nat /\ RemainingQty(o) \in Int
        <5>1. o.visible \in Nat /\ o.qty \in Nat /\ o.filled \in Nat
          BY DEF PricedOrder, Order
        <5>2. o.qty \div 10 \in Nat
          BY <5>1
        <5>3. QED
          BY <5>1, <5>2 DEF RemainingQty
      <4>2. VisibleQty(o) = IF asked > RemainingQty(o) THEN RemainingQty(o) ELSE asked
        BY DEF VisibleQty
      <4> HIDE DEF asked
      <4>3. QED
        BY <4>1, <4>2
    <3>3. QED
      BY <1>5, <3>1, <3>2 DEF RemainingQty
  <2>2. CASE ~ sliced
    BY <1>1, <1>5, <2>2 DEF Renewed, SameTerms
  <2>3. QED
    BY <2>1, <2>2
<1>11. order'[n].qty = o.qty /\ order'[n].type = o.type
  BY <1>1 DEF Renewed, SameTerms
<1>12. o.type # "iceberg" => last = n /\ DOMAIN order' = DOMAIN order \cup {n}
  BY <1>1, <1>2
<1> HIDE DEF frame, wait
<1>13. \/ Matches' /\ Head(stack').taker = last /\ Head(stack').rem = order'[last].qty
       \/ ~ Matches' /\ order'[last].status = "REJECTED"
  <2>1. CASE stack' = <<frame>> \o wait
    <3>1. Head(stack') = frame /\ ~ Idle'
      BY <1>3, <2>1, TopPushed
    <3>2. QED
      BY <1>4, <3>1 DEF Matches
  <2>2. CASE order'[last].status = "REJECTED" /\ stack' = wait
    BY <1>3, <2>2, TopPopped
  <2>3. QED
    BY <1>1, <2>1, <2>2
<1>14. last \in DOMAIN order' \ DOMAIN order /\ n \in DOMAIN order' \ DOMAIN order
       /\ \A m \in DOMAIN order' \ DOMAIN order :
             /\ order'[m].root = o.root /\ order'[m].done = o.done
             /\ order'[m].status \in {"NEW", "REJECTED"}
       /\ \A i \in DOMAIN order : i \in DOMAIN order' /\ order'[i] = order[i]
  BY <1>1, <1>6, <1>7, <1>8, <1>9
<1> HIDE DEF last, sliced
<1>15. QED
  BY <1>10, <1>11, <1>12, <1>13, <1>14

-----------------------------------------------------------------------------

\* The objects and the calls in progress are what they should be.
Ready == Orderly /\ IcebergsWait /\ Roles

LEMMA ReadyKeeps == FreshIDs /\ Ready /\ [Next]_vars => Ready'
BY OrderlyKeeps, IcebergsWaitKeeps, RolesKeep DEF Ready

LEMMA InitReady == FreshIDs /\ Init => Ready
<1> SUFFICES ASSUME FreshIDs, Init PROVE Ready
  OBVIOUS
<1>1. stack = <<>> /\ orderIndex = EmptyMap /\ stopIndex = EmptyMap
  BY DEF Init, BookInit
<1>2. DOMAIN EmptyMap = {} /\ DOMAIN stack = {}
  BY <1>1 DEF EmptyMap
<1>3. IcebergsWait /\ Roles
  BY <1>1, <1>2 DEF IcebergsWait, IcebergsIn, Roles
<1>4. QED
  BY <1>3, InitOrderly DEF Ready

LEMMA ReadyAlways ==
    ASSUME FreshIDs
    PROVE  Spec => []Ready
BY InitReady, ReadyKeeps, PTL DEF Spec

(* Property NoFilledRests: while no id is used twice, an order leaves the    *)
(* book in the very step that fills it (a maker, match_engine.go:350) and *)
(* never comes in empty (what is left of a taker, :217).                  *)
THEOREM NoFilledRestsAlways == FreshIDs => (Spec => []NoFilledRests)
<1> SUFFICES ASSUME FreshIDs PROVE Spec => []NoFilledRests
  OBVIOUS
<1>1. Ready => NoFilledRests
  <2> SUFFICES ASSUME Ready, NEW r \in Resting PROVE RemainingQty(order[r]) > 0
    BY DEF NoFilledRests
  <2>1. Orderly /\ Roles /\ IInv /\ BookKept
    BY DEF Ready, Orderly
  <2>2. PICK id \in DOMAIN orderIndex : r = orderIndex[id]
    BY <2>1, RestingIsHeld
  <2>3. RestsOpen(r) /\ r \in DOMAIN order
    BY <2>1, <2>2, IndexesTell DEF Roles
  <2>4. order[r].qty \in Nat /\ order[r].filled \in Nat
    BY <2>1, <2>3, OrderTyped
  <2>5. QED
    BY <2>3, <2>4 DEF RestsOpen, RemainingQty
<1>2. Spec => []Ready
  BY ReadyAlways
<1>3. QED
  BY <1>1, <1>2, PTL

-----------------------------------------------------------------------------
(* What a step does to the accounts.                                        *)

\* Nothing is executed; what leaves was canceled.
QuietMove ==
    /\ DOMAIN order' = DOMAIN order
    /\ \A j \in DOMAIN order :
          /\ order'[j].done = order[j].done
          /\ \/ order'[j].status = order[j].status
             \/ order'[j].status = "CANCELED"
             \/ order[j].type = "iceberg"
    /\ Live' \subseteq Live
    /\ \A j \in Live' : Left(j)' = Left(j)
    /\ \A j \in Live \ Live' : order'[j].status = "CANCELED"

\* A submission n comes in; k stands for it, unless it was rejected.
EnterMove(n, k) ==
    /\ n \in DOMAIN order' \ DOMAIN order /\ k \in DOMAIN order' \ DOMAIN order
    /\ \A j \in DOMAIN order : j \in DOMAIN order' /\ order'[j] = order[j]
    /\ \A j \in DOMAIN order' \ DOMAIN order :
          /\ order'[j].root = n /\ order'[j].done = 0
          /\ order'[j].status \in {"NEW", "REJECTED"}
    /\ \/ /\ Live' = Live \cup {k} /\ Left(k)' <= order'[n].qty
          /\ order'[n].type # "iceberg" => Left(k)' = order'[n].qty
       \/ Live' = Live /\ order'[k].status = "REJECTED"
    /\ \A j \in Live : Left(j)' = Left(j)

\* The stop s turns into n, unless that was rejected.
TriggerMove(s, n) ==
    /\ s \in Live /\ n \notin DOMAIN order /\ DOMAIN order' = DOMAIN order \cup {n}
    /\ \A j \in DOMAIN order : order'[j] = order[j]
    /\ order'[n].root = order[s].root /\ order'[n].status \in {"NEW", "REJECTED"}
    /\ \/ Live' = (Live \ {s}) \cup {n} /\ Left(n)' = Left(s)
       \/ Live' = Live \ {s} /\ order'[n].status = "REJECTED"
    /\ \A j \in Live \ {s} : Left(j)' = Left(j)

\* Two orders trade q.
TradeMove(maker, taker, q) ==
    /\ maker \in Live /\ taker \in Live /\ maker # taker
    /\ q \in Nat /\ q <= Left(maker) /\ q <= Left(taker)
    /\ DOMAIN order' = DOMAIN order
    /\ \A j \in DOMAIN order :
          /\ order'[j].done = order[j].done
                + (IF j = order[maker].root THEN q ELSE 0)
                + (IF j = order[taker].root THEN q ELSE 0)
          /\ j # maker => order'[j].status = order[j].status
    /\ order'[maker].status = "FILLED" => q = Left(maker)
    /\ \/ q = Left(maker) /\ Live' = Live \ {maker}
       \/ q # Left(maker) /\ Live' = Live
    /\ \A j \in Live' :
          Left(j)' = Left(j) - (IF j \in {maker, taker} THEN q ELSE 0)

\* The taker t is through: k, itself or its clone, holds what is left of it, or
\* it is over.
SettleMove(t, k) ==
    /\ t \in Live /\ order[t].type \in {"limit", "market"}
    /\ k = t \/ k \notin DOMAIN order
    /\ DOMAIN order' = DOMAIN order \cup {k}
    /\ \A j \in DOMAIN order :
          /\ order'[j].done = order[j].done
          /\ j # t => order'[j].status = order[j].status
    /\ order'[k].root = order[t].root
    /\ \A j \in {t, k} : order'[j].status = "FILLED" => Left(t) = 0
    /\ \/ Live' = (Live \ {t}) \cup {k} /\ Left(k)' = Left(t)
       \/ /\ Live' = Live \ {t}
          /\ order[t].type = "limit" /\ order[t].tif \in {"GTC", "POST_ONLY"} =>
                Left(t) = 0
    /\ \A j \in Live \ {t} : Left(j)' = Left(j)

Moves ==
    \/ QuietMove
    \/ \E n, k : EnterMove(n, k)
    \/ \E s, n : TriggerMove(s, n)
    \/ \E maker, taker, q : TradeMove(maker, taker, q)
    \/ \E t, k : SettleMove(t, k)

LEMMA HeldStays == UNCHANGED orderIndex => Held' = Held
BY DEF Held

LEMMA ArmedStays == UNCHANGED stopIndex => ArmedOrders' = ArmedOrders
BY DEF ArmedOrders

\* What an order still has, when it is no taker and nobody trades with it.
LEMMA LeftStays ==
    ASSUME NEW j, order'[j].qty = order[j].qty, order'[j].filled = order[j].filled,
           ~ (Matches /\ j = Head(stack).taker),
           ~ (Matches' /\ j = Head(stack').taker)
    PROVE  Left(j)' = Left(j)
BY DEF Left, RemainingQty

LEMMA CancelMoves ==
    ASSUME FreshIDs, Ready, CancelKind
    PROVE  QuietMove
<1>1. /\ IInv /\ Orderly /\ BookKept /\ Roles /\ order \in Seq(PricedOrder)
  BY TypeParts DEF Ready, Orderly, IInv
<1>2. ~ Matches /\ ~ Matches' /\ \E id : Unbooks(id) \/ Disarms(id)
  BY DEF CancelKind
<1>3. Taker = {} /\ Taker' = {}
  BY <1>2 DEF Taker
<1>4. Live = Held \cup ArmedOrders /\ Live' = Held' \cup ArmedOrders'
      /\ Held \cap ArmedOrders = {} /\ Live \subseteq DOMAIN order
  BY <1>1, <1>3, LiveFacts DEF Live
<1>5. ASSUME NEW r \in DOMAIN order, order' = [order EXCEPT ![r].status = "CANCELED"],
             Live' = Live \ {r}
      PROVE  QuietMove
  <2>1. /\ DOMAIN order' = DOMAIN order
        /\ \A j \in DOMAIN order : j # r => order'[j] = order[j]
        /\ order'[r].qty = order[r].qty /\ order'[r].filled = order[r].filled
        /\ order'[r].done = order[r].done /\ order'[r].status = "CANCELED"
    BY <1>1, <1>5, CancelView DEF Renewed, SameTerms
  <2>2. ASSUME NEW j \in Live PROVE Left(j)' = Left(j)
    BY <1>2, <1>4, <2>1, LeftStays
  <2>3. QED
    BY <1>5, <2>1, <2>2 DEF QuietMove
<1>6. ASSUME NEW id, Unbooks(id) PROVE QuietMove
  <2> DEFINE r == orderIndex[id]
  <2>1. /\ id \in DOMAIN orderIndex /\ UNCHANGED stopIndex
        /\ order' = [order EXCEPT ![r].status = "CANCELED"]
    BY <1>6 DEF Unbooks, stopVars
  <2>2. r \in DOMAIN order /\ r \in Held
    BY <1>1, <2>1, IndexesTell DEF Held
  <2>3. orderIndex' = MapDelete(orderIndex, id)
    BY <1>1, <1>6, UnbooksKeeps
  <2>4. Held' = Held \ {r} /\ ArmedOrders' = ArmedOrders
    BY <1>1, <2>1, <2>3, HeldDelete, ArmedStays
  <2> HIDE DEF r
  <2>5. Live' = Live \ {r}
    BY <1>4, <2>2, <2>4
  <2>6. QED
    BY <1>5, <2>1, <2>2, <2>5
<1>7. ASSUME NEW id, Disarms(id) PROVE QuietMove
  <2> DEFINE r == stopIndex[id]
  <2>1. /\ id \in DOMAIN stopIndex /\ UNCHANGED orderIndex /\ DisarmStop(id)
        /\ order' = [order EXCEPT ![r].status = "CANCELED"]
    BY <1>7 DEF Disarms
  <2>2. r \in DOMAIN order /\ r \in ArmedOrders
    BY <1>1, <2>1, IndexesTell DEF ArmedOrders
  <2>3. ArmedOrders' = ArmedOrders \ {r} /\ Held' = Held
    BY <1>1, <2>1, ArmedDelete, HeldStays
  <2> HIDE DEF r
  <2>4. Live' = Live \ {r}
    BY <1>4, <2>2, <2>3
  <2>5. QED
    BY <1>5, <2>1, <2>2, <2>4
<1>8. QED
  BY <1>2, <1>6, <1>7

LEMMA PassMoves ==
    ASSUME FreshIDs, Ready, PassKind
    PROVE  QuietMove
<1>1. /\ UNCHANGED <<order, orderIndex, stopIndex>>
      /\ UNCHANGED stack \/ (~ Matches /\ ~ Matches')
  BY DEF PassKind, stopVars
<1>2. Held' = Held /\ ArmedOrders' = ArmedOrders /\ Taker' = Taker
  BY <1>1, HeldStays, ArmedStays DEF Taker, Matches, Idle
<1>3. \A j : Left(j)' = Left(j)
  BY <1>1 DEF Left, Matches, Idle
<1>4. QED
  BY <1>1, <1>2, <1>3 DEF QuietMove, Live

LEMMA IcebergMoves ==
    ASSUME FreshIDs, Ready, IcebergKind
    PROVE  QuietMove
<1> DEFINE r == Head(stack).parent
<1>1. /\ IInv /\ Orderly /\ Roles /\ IcebergsWait
      /\ FinishIceberg /\ ~ Matches /\ ~ Matches'
  BY DEF Ready, Orderly, IcebergKind
<1>2. /\ DOMAIN order' = DOMAIN order
      /\ \A j \in DOMAIN order : j # r => order'[j] = order[j]
      /\ r \in DOMAIN order /\ order'[r].done = order[r].done
      /\ UNCHANGED <<orderIndex, stopIndex>>
  BY <1>1, IcebergView DEF bookVars, stopVars
<1>3. order[r].type = "iceberg"
  BY <1>1, SliceBack
<1>4. Held' = Held /\ ArmedOrders' = ArmedOrders /\ Taker = {} /\ Taker' = {}
  BY <1>1, <1>2, HeldStays, ArmedStays DEF Taker
<1>5. \A j \in Held : order[j].type = "limit"
  BY <1>1 DEF Roles, RestsOpen, Held
<1>6. \A j \in ArmedOrders : order[j].type \in {"stop_loss", "take_profit"}
  BY <1>1 DEF Roles, WaitsWhole, ArmedOrders
<1> HIDE DEF r
<1>7. Live' = Live /\ Live \subseteq DOMAIN order /\ r \notin Live
  BY <1>1, <1>3, <1>4, <1>5, <1>6, LiveFacts DEF Live
<1>8. ASSUME NEW j \in Live PROVE Left(j)' = Left(j)
  BY <1>1, <1>2, <1>7, LeftStays
<1>9. QED
  BY <1>2, <1>3, <1>7, <1>8 DEF QuietMove

LEMMA SubmitMoves ==
    ASSUME FreshIDs, Ready, SubmitKind
    PROVE  \E n, k : EnterMove(n, k)
<1>1. /\ IInv /\ Orderly /\ Roles /\ order \in Seq(PricedOrder)
  BY TypeParts DEF Ready, Orderly, IInv
<1>2. PICK o : /\ Comer(o) /\ Idle /\ UNCHANGED orderIndex
               /\ \/ Enters(o, <<>>) /\ UNCHANGED stopIndex
                  \/ /\ o.type \in {"stop_loss", "take_profit"}
                     /\ order' = Append(order, o) /\ ArmStop(o, Len(order) + 1)
                     /\ stack' = <<>>
  BY DEF SubmitKind, bookVars, stopVars
<1>3. /\ o \in PricedOrder /\ o.root = Len(order) + 1
      /\ o.done = 0 /\ o.filled = 0 /\ o.status = "NEW"
      /\ \A j \in DOMAIN order : order[j].id # o.id
      /\ o.type = "iceberg" => VisibleOrder(o) \in PricedOrder
  BY <1>2 DEF Comer
<1>4. ~ Matches /\ Taker = {} /\ Held' = Held
  BY <1>2, HeldStays DEF Matches, Taker
<1>5. Live = Held \cup ArmedOrders /\ Live \subseteq DOMAIN order
  BY <1>1, <1>4, LiveFacts DEF Live
<1>6. ASSUME NEW j \in Live, order'[j] = order[j], ~ (Matches' /\ j = Head(stack').taker)
      PROVE  Left(j)' = Left(j)
  BY <1>4, <1>6, LeftStays
<1>7. CASE Enters(o, <<>>) /\ UNCHANGED stopIndex
  <2> DEFINE n == Len(order) + 1
  <2>1. <<>> \in Seq({}) /\ Nested(<<>>)
    BY DEF Nested
  <2>2. PICK k \in DOMAIN order' \ DOMAIN order :
           /\ \A j \in DOMAIN order : j \in DOMAIN order' /\ order'[j] = order[j]
           /\ \A j \in DOMAIN order' \ DOMAIN order :
                 /\ order'[j].root = o.root /\ order'[j].done = o.done
                 /\ order'[j].status \in {"NEW", "REJECTED"}
           /\ n \in DOMAIN order' \ DOMAIN order
           /\ order'[n].qty = o.qty /\ order'[n].type = o.type
           /\ order'[k].qty \in Nat /\ order'[k].qty <= o.qty
           /\ o.type # "iceberg" => k = n /\ DOMAIN order' = DOMAIN order \cup {k}
           /\ \/ Matches' /\ Head(stack').taker = k /\ Head(stack').rem = order'[k].qty
              \/ ~ Matches' /\ order'[k].status = "REJECTED"
    BY <1>1, <1>3, <1>7, <2>1, EntersLive
  <2>3. ArmedOrders' = ArmedOrders
    BY <1>7, ArmedStays
  <2> HIDE DEF n
  <2>4. ASSUME NEW j \in Live PROVE Left(j)' = Left(j)
    BY <1>5, <1>6, <2>2
  <2>5. CASE Matches' /\ Head(stack').taker = k /\ Head(stack').rem = order'[k].qty
    <3>1. Live' = Live \cup {k}
      BY <1>4, <1>5, <2>3, <2>5 DEF Live, Taker
    <3>2. Left(k)' = order'[k].qty
      BY <2>5 DEF Left
    <3>3. Left(k)' <= order'[n].qty
      BY <2>2, <3>2
    <3>4. order'[n].type # "iceberg" => Left(k)' = order'[n].qty
      BY <2>2, <3>2
    <3>5. EnterMove(n, k)
      BY <1>3, <2>2, <2>4, <3>1, <3>3, <3>4 DEF EnterMove, n
    <3>6. QED
      BY <3>5
  <2>6. CASE ~ Matches' /\ order'[k].status = "REJECTED"
    <3>1. Live' = Live
      BY <1>4, <1>5, <2>3, <2>6 DEF Live, Taker
    <3>2. EnterMove(n, k)
      BY <1>3, <2>2, <2>4, <2>6, <3>1 DEF EnterMove, n
    <3>3. QED
      BY <3>2
  <2>7. QED
    BY <2>2, <2>5, <2>6
<1>8. CASE /\ o.type \in {"stop_loss", "take_profit"}
           /\ order' = Append(order, o) /\ ArmStop(o, Len(order) + 1)
           /\ stack' = <<>>
  <2>0. PICK n : n = Len(order) + 1
    OBVIOUS
  <2>1. o.id \notin DOMAIN stopIndex
    BY <1>1, <1>3, IndexesTell
  <2>2. ArmedOrders' = ArmedOrders \cup {n}
    BY <1>8, <2>0, <2>1, ArmedPut
  <2>3. DOMAIN order' = DOMAIN order \cup {n} /\ n \notin DOMAIN order
        /\ order'[n] = o /\ \A j \in DOMAIN order : order'[j] = order[j]
    BY <1>1, <1>3, <1>8, <2>0, AppendProperties
  <2>4. ~ Matches' /\ Taker' = {}
    BY <1>8 DEF Matches, Taker, Idle
  <2>5. Live' = Live \cup {n}
    BY <1>4, <1>5, <2>2, <2>4 DEF Live
  <2>6. Left(n)' = order'[n].qty
    <3>1. o.qty \in Nat /\ o.filled = 0
      BY <1>3 DEF PricedOrder, Order
    <3>2. Left(n)' = RemainingQty(o)
      BY <2>3, <2>4 DEF Left
    <3>3. QED
      BY <2>3, <3>1, <3>2 DEF RemainingQty
  <2>7. order'[n].qty \in Nat
    BY <1>3, <2>3 DEF PricedOrder, Order
  <2>8. ASSUME NEW j \in Live PROVE Left(j)' = Left(j)
    BY <1>5, <1>6, <2>3, <2>4
  <2>9. Left(n)' <= order'[n].qty
    BY <2>6, <2>7
  <2>10. order'[n].root = n /\ order'[n].done = 0 /\ order'[n].status = "NEW"
    BY <1>3, <2>0, <2>3
  <2>11. EnterMove(n, n)
    BY <2>3, <2>5, <2>6, <2>8, <2>9, <2>10 DEF EnterMove
  <2>12. QED
    BY <2>11
<1>9. QED
  BY <1>2, <1>7, <1>8

LEMMA TriggerMoves ==
    ASSUME FreshIDs, Ready, TriggerKind
    PROVE  \E s, n : TriggerMove(s, n)
<1>1. /\ IInv /\ Orderly /\ Roles /\ Shape /\ order \in Seq(PricedOrder)
  BY TypeParts DEF Ready, Orderly, IInv
<1>2. PICK id, g :
        LET o == Triggered(order[stopIndex[id]], Len(order) + 1)
        IN  /\ id \in DOMAIN stopIndex
            /\ stopIndex[id] \in DOMAIN order /\ order[stopIndex[id]].id = id
            /\ o \in PricedOrder /\ o.type \in {"limit", "market"}
            /\ ~ Idle /\ ~ Matches /\ g.op = "triggers"
            /\ DisarmStop(id) /\ Enters(o, <<g>> \o Tail(stack))
            /\ UNCHANGED orderIndex
  BY DEF TriggerKind, bookVars
<1> DEFINE s == stopIndex[id]
           n == Len(order) + 1
           o == Triggered(order[s], n)
           rest == <<g>> \o Tail(stack)
<1>3. s \in ArmedOrders /\ WaitsWhole(s)
  BY <1>1, <1>2 DEF ArmedOrders, Roles
<1>4. /\ o.root = order[s].root /\ o.qty = order[s].qty /\ o.status = "NEW"
      /\ o \in PricedOrder /\ o.type \in {"limit", "market"}
  BY <1>2 DEF Triggered
<1>5. ArmedOrders' = ArmedOrders \ {s} /\ Held' = Held
  BY <1>1, <1>2, ArmedDelete, HeldStays
<1>6. Nested(rest) /\ \E T : rest \in Seq(T)
  <2> DEFINE S == Frame(order)
             below == Tail(stack)
  <2>1. below \in Seq(S) /\ Nested(below)
    BY <1>1, <1>2, HeadTyped DEF Shape
  <2> HIDE DEF S, below
  <2>2. Nested(<<g>> \o below) /\ \E T : <<g>> \o below \in Seq(T)
    BY <1>2, <2>1, TriggersPush
  <2>3. QED
    BY <2>2 DEF below
<1>7. Enters(o, rest) /\ Taker = {}
  BY <1>2 DEF Taker
<1> HIDE DEF s, o, rest
<1>8. PICK T : rest \in Seq(T)
  BY <1>6
<1>9. PICK k \in DOMAIN order' \ DOMAIN order :
           /\ \A j \in DOMAIN order : j \in DOMAIN order' /\ order'[j] = order[j]
           /\ order'[k].root = o.root /\ order'[k].status \in {"NEW", "REJECTED"}
           /\ order'[n].qty = o.qty
           /\ k = n /\ DOMAIN order' = DOMAIN order \cup {k}
           /\ \/ Matches' /\ Head(stack').taker = k /\ Head(stack').rem = order'[k].qty
              \/ ~ Matches' /\ order'[k].status = "REJECTED"
  BY <1>1, <1>4, <1>6, <1>7, <1>8, EntersLive
<1> HIDE DEF n
<1>10. /\ Live = Held \cup ArmedOrders /\ Held \cap ArmedOrders = {}
       /\ Live \subseteq DOMAIN order /\ s \in Live /\ Left(s) = order[s].qty
  BY <1>1, <1>3, <1>7, LiveFacts DEF Live
<1>11. Held' \cup ArmedOrders' = Live \ {s}
  BY <1>3, <1>5, <1>10
<1>12. ~ Matches
  BY <1>2
<1>13. ASSUME NEW j \in Live PROVE Left(j)' = Left(j)
  BY <1>9, <1>10, <1>12, LeftStays
<1>14. CASE Matches' /\ Head(stack').taker = k /\ Head(stack').rem = order'[k].qty
  <2>1. Live' = (Live \ {s}) \cup {k}
    BY <1>11, <1>14 DEF Live, Taker
  <2>2. Left(k)' = Left(s)
    <3>1. Left(k)' = order'[k].qty
      BY <1>14 DEF Left
    <3>2. QED
      BY <1>4, <1>9, <1>10, <3>1
  <2>3. TriggerMove(s, k)
    BY <1>4, <1>9, <1>10, <1>13, <2>1, <2>2 DEF TriggerMove
  <2>4. QED
    BY <2>3
<1>15. CASE ~ Matches' /\ order'[k].status = "REJECTED"
  <2>1. Live' = Live \ {s}
    BY <1>11, <1>15 DEF Live, Taker
  <2>2. TriggerMove(s, k)
    BY <1>4, <1>9, <1>10, <1>13, <1>15, <2>1 DEF TriggerMove
  <2>3. QED
    BY <2>2
<1>16. QED
  BY <1>9, <1>14, <1>15
LEMMA TradeMoves ==
    ASSUME FreshIDs, Ready, TradeKind
    PROVE  \E maker, taker, q : TradeMove(maker, taker, q)
<1>1. /\ IInv /\ Orderly /\ Roles /\ order \in Seq(PricedOrder)
  BY TypeParts DEF Ready, Orderly, IInv
<1>2. PICK maker, q : TradeWith(maker, q)
  BY DEF TradeKind
<1> DEFINE f == Head(stack)
           taker == f.taker
           id == order[maker].id
           g == MatchFrame(taker, f.rem - q, order[maker].price)
<1>3. /\ taker \in DOMAIN order /\ maker \in DOMAIN order /\ maker # taker
      /\ id \in DOMAIN orderIndex /\ orderIndex[id] = maker
      /\ q \in Nat /\ q > 0 /\ f.rem \in Nat /\ q <= f.rem
      /\ q <= RemainingQty(order[maker])
      /\ stack' = <<g>> \o Tail(stack)
      /\ Matches /\ UNCHANGED stopIndex
  BY <1>2 DEF TradeWith, TradeKind, stopVars
<1>4. ~ Idle /\ g.op = "match" /\ g.taker = taker /\ g.rem = f.rem - q
  BY <1>3 DEF Matches, MatchFrame
<1>5. /\ DOMAIN order' = DOMAIN order /\ Grows(order, order')
      /\ \A k \in DOMAIN order :
            /\ order'[k].filled = IF k = maker THEN order[k].filled + q
                                  ELSE order[k].filled
            /\ order'[k].status =
                  IF k = maker
                  THEN IF order[k].filled + q >= order[k].qty
                       THEN "FILLED" ELSE "PARTIALLY_FILLED"
                  ELSE order[k].status
            /\ order'[k].done = order[k].done
                  + (IF k = order[maker].root THEN q ELSE 0)
                  + (IF k = order[taker].root THEN q ELSE 0)
      /\ \/ q = RemainingQty(order[maker]) /\ orderIndex' = MapDelete(orderIndex, id)
         \/ q < RemainingQty(order[maker]) /\ UNCHANGED orderIndex
  BY <1>1, <1>2, TradeTells
<1> HIDE DEF g
<1>6. Head(stack') = g /\ ~ Idle'
  BY <1>1, <1>3, <1>4, PushedTop
<1>7. Matches' /\ Head(stack').taker = taker /\ Head(stack').rem = f.rem - q
  BY <1>4, <1>6 DEF Matches
<1>8. Taker = {taker} /\ Taker' = {taker} /\ ArmedOrders' = ArmedOrders
  BY <1>3, <1>7, ArmedStays DEF Taker
<1>9. maker \in Held
  BY <1>3 DEF Held
<1>10. /\ Held \cap Taker = {} /\ ArmedOrders \cap Held = {} /\ ArmedOrders \cap Taker = {}
       /\ Live \subseteq DOMAIN order
       /\ \A j \in Live : Left(j) \in Nat
       /\ \A j \in Held \cup ArmedOrders : Left(j) = RemainingQty(order[j])
       /\ Left(taker) = f.rem
  BY <1>1, <1>8, LiveFacts
<1>11. Left(maker) = RemainingQty(order[maker]) /\ Left(maker) \in Nat
  BY <1>9, <1>10 DEF Live
<1>12. \/ q = Left(maker) /\ Live' = Live \ {maker}
       \/ q # Left(maker) /\ Live' = Live
  <2>1. CASE q = RemainingQty(order[maker]) /\ orderIndex' = MapDelete(orderIndex, id)
    <3>1. Held' = Held \ {maker}
      BY <1>1, <1>3, <2>1, HeldDelete
    <3>2. Live' = Live \ {maker}
      BY <1>8, <1>9, <1>10, <3>1 DEF Live
    <3>3. QED
      BY <1>11, <2>1, <3>2
  <2>2. CASE q < RemainingQty(order[maker]) /\ UNCHANGED orderIndex
    <3>1. Held' = Held
      BY <2>2, HeldStays
    <3>2. Live' = Live
      BY <1>8, <3>1 DEF Live
    <3>3. QED
      BY <1>3, <1>11, <2>2, <3>2
  <2>3. QED
    BY <1>5, <2>1, <2>2
<1> HIDE DEF f, taker, id
<1>13. ASSUME NEW j \in Live
       PROVE  Left(j)' = Left(j) - (IF j \in {maker, taker} THEN q ELSE 0)
  <2>1. j \in DOMAIN order /\ order'[j].qty = order[j].qty /\ Left(j) \in Nat
    BY <1>5, <1>10 DEF Grows, SameTerms
  <2>2. CASE j = taker
    <3>1. Left(j)' = f.rem - q
      BY <1>7, <2>2 DEF Left
    <3>2. QED
      BY <1>10, <2>2, <3>1
  <2>3. CASE j = maker
    <3>1. order[j].qty \in Nat /\ order[j].filled \in Nat
      BY <1>1, <2>1, OrderTyped
    <3>2. Left(j)' = order[j].qty - (order[j].filled + q)
      BY <1>3, <1>5, <1>7, <2>1, <2>3 DEF Left, RemainingQty
    <3>3. Left(j) = order[j].qty - order[j].filled
      BY <1>11, <2>3 DEF RemainingQty
    <3>4. QED
      BY <1>3, <2>3, <3>1, <3>2, <3>3
  <2>4. CASE j # taker /\ j # maker
    <3>1. order'[j].filled = order[j].filled
      BY <1>5, <2>1, <2>4
    <3>2. Left(j)' = Left(j)
      BY <1>7, <2>1, <2>4, <3>1, LeftStays DEF f, taker
    <3>3. QED
      BY <2>1, <2>4, <3>2
  <2>5. QED
    BY <2>2, <2>3, <2>4
<1>14. order'[maker].status = "FILLED" => q = Left(maker)
  <2>1. order[maker].qty \in Nat /\ order[maker].filled \in Nat
    BY <1>1, <1>3, OrderTyped
  <2>2. order'[maker].status = "FILLED" => order[maker].filled + q >= order[maker].qty
    BY <1>3, <1>5
  <2>3. QED
    BY <1>3, <1>11, <2>1, <2>2 DEF RemainingQty
<1>15. /\ maker \in Live /\ taker \in Live /\ q <= Left(maker) /\ q <= Left(taker)
       /\ Live' \subseteq Live
  BY <1>3, <1>8, <1>9, <1>10, <1>11, <1>12 DEF Live
<1>16. \A j \in DOMAIN order :
          /\ order'[j].done = order[j].done
                + (IF j = order[maker].root THEN q ELSE 0)
                + (IF j = order[taker].root THEN q ELSE 0)
          /\ j # maker => order'[j].status = order[j].status
  BY <1>5
<1>17. TradeMove(maker, taker, q)
  BY <1>3, <1>5, <1>12, <1>13, <1>14, <1>15, <1>16 DEF TradeMove
<1>18. QED
  BY <1>17

LEMMA SettleMoves ==
    ASSUME FreshIDs, Ready, SettleKind
    PROVE  \E t, k : SettleMove(t, k)
<1>a. PICK t : t = Head(stack).taker
  OBVIOUS
<1>b. PICK n : n = Len(order) + 1
  OBVIOUS
<1> DEFINE o == order[t]
           rem == Head(stack).rem
<1>1. /\ IInv /\ Orderly /\ Roles /\ TakerNew /\ order \in Seq(PricedOrder)
  BY TypeParts DEF Ready, Orderly, IInv
<1>2. /\ Matches /\ ~ Matches' /\ t \in DOMAIN order /\ rem \in Nat /\ rem <= o.qty
      /\ SettleTaker(t, rem) /\ UNCHANGED stopIndex
  BY <1>a DEF SettleKind, stopVars
<1>3. o.id \notin DOMAIN orderIndex /\ o.type \in {"limit", "market"}
  BY <1>1, <1>2, <1>a DEF TakerNew
<1>4. Taker = {t} /\ Taker' = {} /\ ArmedOrders' = ArmedOrders
  BY <1>2, <1>a, ArmedStays DEF Taker
<1>5. /\ Held \cap Taker = {} /\ ArmedOrders \cap Held = {} /\ ArmedOrders \cap Taker = {}
      /\ Live \subseteq DOMAIN order
      /\ Left(t) = rem
  BY <1>1, <1>4, <1>a, LiveFacts
<1>6. n \notin DOMAIN order
  BY <1>1, <1>b
<1>7. /\ \A k \in DOMAIN order : k # t => order'[k] = order[k]
      /\ SameTerms(o, order'[t])
      /\ order'[t].filled = o.qty - rem /\ order'[t].status = Outcome(o, rem)
      /\ order'[t].done = o.done
      /\ \/ /\ Rests(o, rem) /\ rem < o.qty
            /\ DOMAIN order' = DOMAIN order \cup {n}
            /\ SameTerms([o EXCEPT !.qty = rem], order'[n])
            /\ order'[n].filled = 0 /\ order'[n].status = Outcome(o, rem)
            /\ AddOrder(n)
         \/ /\ Rests(o, rem) /\ rem = o.qty
            /\ DOMAIN order' = DOMAIN order /\ AddOrder(t)
         \/ /\ ~ Rests(o, rem)
            /\ DOMAIN order' = DOMAIN order /\ UNCHANGED orderIndex
  BY <1>1, <1>2, <1>b, SettleView
<1>8. o.qty \in Nat /\ o.root = order[t].root
  BY <1>1, <1>2, OrderTyped
<1>9. Live = Held \cup ArmedOrders \cup {t} /\ Live' = Held' \cup ArmedOrders
  BY <1>4 DEF Live
<1>10. ASSUME NEW j \in Live \ {t} PROVE Left(j)' = Left(j)
  BY <1>2, <1>5, <1>7, <1>10, <1>a, LeftStays
<1> HIDE DEF rem
<1>11. Outcome(o, rem) = "FILLED" => rem = 0
  BY <1>2 DEF Outcome
<1>12. ASSUME NEW k, AddOrder(k), order'[k].id = o.id
       PROVE  Held' = Held \cup {k}
  <2>1. orderIndex' = MapPut(orderIndex, o.id, k)
    BY <1>12 DEF AddOrder
  <2>2. QED
    BY <1>3, <2>1, HeldPut
<1>13. \A j \in DOMAIN order :
          /\ order'[j].done = order[j].done
          /\ j # t => order'[j].status = order[j].status
  BY <1>2, <1>7
<1>14. CASE /\ Rests(o, rem) /\ rem < o.qty
            /\ DOMAIN order' = DOMAIN order \cup {n}
            /\ SameTerms([o EXCEPT !.qty = rem], order'[n])
            /\ order'[n].filled = 0 /\ order'[n].status = Outcome(o, rem)
            /\ AddOrder(n)
  <2>1. /\ order'[n].id = o.id /\ order'[n].root = o.root /\ order'[n].qty = rem
    <3>1. o \in Order
      BY <1>1, <1>2, OrderTyped DEF PricedOrder
    <3> HIDE DEF o
    <3>2. QED
      BY <1>14, <3>1 DEF SameTerms, Order
  <2>2. Live' = (Live \ {t}) \cup {n}
    BY <1>4, <1>5, <1>9, <1>12, <1>14, <2>1
  <2>3. Left(n)' = Left(t)
    BY <1>2, <1>5, <1>14, <2>1 DEF Left, RemainingQty
  <2>4. SettleMove(t, n)
    BY <1>2, <1>3, <1>5, <1>6, <1>7, <1>9, <1>10, <1>11, <1>13, <1>14, <2>1, <2>2, <2>3 DEF SettleMove
  <2>5. QED
    BY <2>4
<1>15. CASE /\ Rests(o, rem) /\ rem = o.qty
            /\ DOMAIN order' = DOMAIN order /\ AddOrder(t)
  <2>1. order'[t].id = o.id /\ order'[t].root = o.root /\ order'[t].qty = rem
        /\ order'[t].filled = 0
    BY <1>2, <1>7, <1>8, <1>15 DEF SameTerms
  <2>2. Live' = (Live \ {t}) \cup {t}
    BY <1>4, <1>5, <1>9, <1>12, <1>15, <2>1
  <2>3. Left(t)' = Left(t)
    BY <1>2, <1>5, <2>1 DEF Left, RemainingQty
  <2>4. SettleMove(t, t)
    BY <1>2, <1>3, <1>5, <1>7, <1>9, <1>10, <1>11, <1>13, <1>15, <2>1, <2>2, <2>3 DEF SettleMove
  <2>5. QED
    BY <2>4
<1>16. CASE ~ Rests(o, rem) /\ DOMAIN order' = DOMAIN order /\ UNCHANGED orderIndex
  <2>1. Live' = Live \ {t}
    BY <1>4, <1>5, <1>9, <1>16, HeldStays
  <2>2. o.type = "limit" /\ o.tif \in {"GTC", "POST_ONLY"} => Left(t) = 0
    BY <1>2, <1>5, <1>16 DEF Rests
  <2>3. order'[t].root = o.root
    BY <1>7 DEF SameTerms
  <2>4. SettleMove(t, t)
    BY <1>2, <1>3, <1>5, <1>7, <1>9, <1>10, <1>11, <1>13, <1>16, <2>1, <2>2, <2>3 DEF SettleMove
  <2>5. QED
    BY <2>4
<1>17. QED
  BY <1>7, <1>14, <1>15, <1>16

\* Every step is one of the five moves.
LEMMA EveryMove ==
    ASSUME FreshIDs, Ready, [Next]_vars
    PROVE  Moves
<1>1. StepKind
  BY Kinds DEF Ready
<1>2. QED
  BY <1>1, SubmitMoves, TriggerMoves, TradeMoves, SettleMoves, IcebergMoves,
     CancelMoves, PassMoves DEF StepKind, Moves

-----------------------------------------------------------------------------
(* The accounts balance.                                                    *)

\* At most one object that can still be executed stands for a submission.
Alone == \A j, k \in Live : order[j].root = order[k].root => j = k

\* What was executed and what an object still has make up what was asked.  Of
\* an iceberg the objects hold one slice.
Balance(k) ==
    LET o == order[order[k].root]
    IN  /\ o.done + Left(k) <= o.qty
        /\ o.type # "iceberg" => o.done + Left(k) = o.qty

Balanced ==
    /\ \A k \in Live : Balance(k)
    /\ \A k \in DOMAIN order : order[k].root = k => order[k].done <= order[k].qty

\* Whatever says FILLED was executed in full.
Told ==
    \A k \in DOMAIN order :
        LET o == order[order[k].root]
        IN  order[k].status = "FILLED" /\ o.type # "iceberg" => o.done = o.qty

\* A submission that stays was called off, is still there, or is done.
Kept ==
    \A r \in DOMAIN order :
        order[r].root = r /\ Stays(order[r]) =>
            \/ \E k \in DOMAIN order :
                  order[k].root = r /\ order[k].status \in {"CANCELED", "REJECTED"}
            \/ \E k \in Live : order[k].root = r
            \/ order[r].done = order[r].qty

Accounts == Alone /\ Balanced /\ Told /\ Kept

\* What the accounts rely on.
Ground ==
    /\ \A k \in DOMAIN order :
          LET r == order[k].root
          IN  /\ order[k].qty \in Nat /\ order[k].done \in Nat
              /\ r \in DOMAIN order /\ order[r].root = r
              /\ order[k].type = "iceberg" => r = k
              /\ Stays(order[r]) /\ order[k].type \in {"limit", "market"} =>
                    order[k].type = "limit" /\ order[k].tif \in {"GTC", "POST_ONLY"}
    /\ Live \subseteq DOMAIN order
    /\ \A k \in Live : Left(k) \in Nat

LEMMA ReadyGround == Ready => Ground
<1> SUFFICES ASSUME Ready PROVE Ground
  OBVIOUS
<1>1. Orderly /\ Roles /\ IInv /\ Lineage
  BY DEF Ready, Orderly
<1>2. \A k \in DOMAIN order : order[k].qty \in Nat /\ order[k].done \in Nat
  BY <1>1, OrderTyped
<1>3. Live \subseteq DOMAIN order /\ \A k \in Live : Left(k) \in Nat
  BY <1>1, LiveFacts
<1>4. QED
  BY <1>1, <1>2, <1>3 DEF Ground, Lineage

LEMMA GroundAfter == Ready' => Ground'
BY ReadyGround, PTL

\* The terms of the orders that were there, and of what they stand for.
LEMMA SameStays ==
    ASSUME Grows(order, order'), NEW r \in DOMAIN order
    PROVE  /\ order'[r].root = order[r].root /\ order'[r].qty = order[r].qty
           /\ order'[r].type = order[r].type /\ r \in DOMAIN order'
           /\ Stays(order'[r]) <=> Stays(order[r])
BY DEF Grows, SameTerms, Stays

LEMMA QuietAccounts ==
    ASSUME Ground, Grows(order, order'), Accounts, QuietMove
    PROVE  Accounts'
<1>1. \A k \in DOMAIN order :
         /\ order[k].root \in DOMAIN order
         /\ order[k].type = "iceberg" => order[k].root = k
         /\ order'[k].root = order[k].root /\ order'[k].qty = order[k].qty
         /\ order'[k].type = order[k].type /\ order'[k].done = order[k].done
         /\ Stays(order'[k]) <=> Stays(order[k])
  BY SameStays DEF Ground, QuietMove
<1>2. /\ DOMAIN order' = DOMAIN order /\ Live \subseteq DOMAIN order
      /\ Live' \subseteq Live /\ \A j \in Live' : Left(j)' = Left(j)
      /\ \A j \in Live \ Live' : order'[j].status = "CANCELED"
      /\ \A j \in DOMAIN order : \/ order'[j].status = order[j].status
                                 \/ order'[j].status = "CANCELED"
                                 \/ order[j].type = "iceberg"
  BY DEF QuietMove, Ground
<1>3. Alone'
  BY <1>1, <1>2 DEF Accounts, Alone
<1>4. Balanced'
  <2>1. ASSUME NEW k \in Live' PROVE Balance(k)'
    BY <1>1, <1>2, <2>1 DEF Accounts, Balanced, Balance
  <2>2. QED
    BY <1>1, <1>2, <2>1 DEF Accounts, Balanced
<1>5. Told'
  BY <1>1, <1>2 DEF Accounts, Told
<1>6. Kept'
  <2> SUFFICES ASSUME NEW r \in DOMAIN order, order[r].root = r, Stays(order[r])
               PROVE  \/ \E k \in DOMAIN order : order[k].root = r /\
                            order'[k].status \in {"CANCELED", "REJECTED"}
                      \/ \E k \in Live' : order[k].root = r
                      \/ order[r].done = order[r].qty
    BY <1>1, <1>2 DEF Kept
  <2>1. CASE \E k \in DOMAIN order :
                order[k].root = r /\ order[k].status \in {"CANCELED", "REJECTED"}
    <3>1. order[r].type # "iceberg"
      BY DEF Stays
    <3>2. QED
      BY <1>1, <1>2, <2>1, <3>1
  <2>2. CASE \E k \in Live : order[k].root = r
    BY <1>2, <2>2
  <2>3. QED
    BY <2>1, <2>2 DEF Accounts, Kept
<1>7. QED
  BY <1>3, <1>4, <1>5, <1>6 DEF Accounts

LEMMA EnterAccounts ==
    ASSUME Ground, Ground', Grows(order, order'), Accounts, NEW n, NEW k,
           EnterMove(n, k)
    PROVE  Accounts'
<1>1. \A j \in DOMAIN order : j \in DOMAIN order' /\ order'[j] = order[j]
                              /\ order[j].root \in DOMAIN order
  BY DEF EnterMove, Ground
<1>2. /\ n \in DOMAIN order' \ DOMAIN order /\ k \in DOMAIN order' \ DOMAIN order
      /\ Live \subseteq DOMAIN order /\ Live' \subseteq DOMAIN order'
      /\ \A j \in DOMAIN order' \ DOMAIN order :
            /\ order'[j].root = n /\ order'[j].done = 0
            /\ order'[j].status \in {"NEW", "REJECTED"}
      /\ \A j \in Live : Left(j)' = Left(j)
      /\ \/ /\ Live' = Live \cup {k} /\ Left(k)' <= order'[n].qty
            /\ order'[n].type # "iceberg" => Left(k)' = order'[n].qty
         \/ Live' = Live /\ order'[k].status = "REJECTED"
      /\ \A j \in Live' : Left(j)' \in Nat
      /\ order'[n].qty \in Nat
  BY DEF EnterMove, Ground
<1>3. Live' \subseteq Live \cup {k}
  BY <1>2
<1>4. Alone'
  BY <1>1, <1>2, <1>3 DEF Accounts, Alone
<1>5. Balanced'
  <2>1. ASSUME NEW j \in Live' PROVE Balance(j)'
    <3>1. CASE j \in Live
      BY <1>1, <1>2, <3>1 DEF Accounts, Balanced, Balance
    <3>2. CASE j = k /\ j \notin Live
      <4>1. /\ order'[k].root = n /\ order'[n].done = 0 /\ order'[n].qty \in Nat
            /\ Left(k)' \in Nat /\ Left(k)' <= order'[n].qty
            /\ order'[n].type # "iceberg" => Left(k)' = order'[n].qty
        BY <1>2, <3>2
      <4>2. QED
        BY <3>2, <4>1 DEF Balance
    <3>3. QED
      BY <1>3, <3>1, <3>2
  <2>2. ASSUME NEW j \in DOMAIN order', order'[j].root = j
        PROVE  order'[j].done <= order'[j].qty
    <3>1. CASE j \in DOMAIN order
      BY <1>1, <2>2, <3>1 DEF Accounts, Balanced
    <3>2. CASE j \notin DOMAIN order
      BY <1>2, <2>2, <3>2
    <3>3. QED
      BY <3>1, <3>2
  <2>3. QED
    BY <2>1, <2>2 DEF Balanced
<1>6. Told'
  <2>1. ASSUME NEW j \in DOMAIN order', order'[j].status = "FILLED"
        PROVE  j \in DOMAIN order
    BY <1>2, <2>1
  <2>2. QED
    BY <1>1, <2>1 DEF Accounts, Told
<1>7. Kept'
  <2> SUFFICES ASSUME NEW r \in DOMAIN order', order'[r].root = r, Stays(order'[r])
               PROVE  \/ \E j \in DOMAIN order' : order'[j].root = r /\
                            order'[j].status \in {"CANCELED", "REJECTED"}
                      \/ \E j \in Live' : order'[j].root = r
                      \/ order'[r].done = order'[r].qty
    BY DEF Kept
  <2>1. CASE r \in DOMAIN order
    <3>1. \/ \E j \in DOMAIN order : order[j].root = r /\
                            order[j].status \in {"CANCELED", "REJECTED"}
          \/ \E j \in Live : order[j].root = r
          \/ order[r].done = order[r].qty
      BY <1>1, <2>1 DEF Accounts, Kept
    <3>2. QED
      BY <1>1, <1>2, <2>1, <3>1
  <2>2. CASE r \notin DOMAIN order
    BY <1>2, <2>2
  <2>3. QED
    BY <2>1, <2>2
<1>8. QED
  BY <1>4, <1>5, <1>6, <1>7 DEF Accounts

LEMMA TriggerAccounts ==
    ASSUME Ground, Ground', Grows(order, order'), Accounts, NEW s, NEW n,
           TriggerMove(s, n)
    PROVE  Accounts'
<1>1. \A j \in DOMAIN order : j \in DOMAIN order' /\ order'[j] = order[j]
                              /\ order[j].root \in DOMAIN order
  BY DEF TriggerMove, Ground
<1>2. /\ s \in Live /\ n \notin DOMAIN order /\ DOMAIN order' = DOMAIN order \cup {n}
      /\ Live \subseteq DOMAIN order
      /\ order'[n].root = order[s].root /\ order'[n].status \in {"NEW", "REJECTED"}
      /\ \/ Live' = (Live \ {s}) \cup {n} /\ Left(n)' = Left(s)
         \/ Live' = Live \ {s} /\ order'[n].status = "REJECTED"
      /\ \A j \in Live \ {s} : Left(j)' = Left(j)
  BY DEF TriggerMove, Ground
<1>3. /\ Live' \subseteq (Live \ {s}) \cup {n}
      /\ n \in Live' => Left(n)' = Left(s)
      /\ \A j \in Live' : j # n => j \in Live \ {s} /\ Left(j)' = Left(j)
  BY <1>2
<1>4. Alone'
  BY <1>1, <1>2, <1>3 DEF Accounts, Alone
<1>5. Balanced'
  <2>1. ASSUME NEW j \in Live' PROVE Balance(j)'
    <3>1. CASE j = n
      <4>1. order'[order'[n].root] = order[order[s].root] /\ Left(n)' = Left(s)
        BY <1>1, <1>2, <1>3, <3>1
      <4>2. Balance(s)
        BY <1>2 DEF Accounts, Balanced
      <4>3. QED
        BY <3>1, <4>1, <4>2 DEF Balance
    <3>2. CASE j # n
      <4>1. /\ j \in Live /\ Left(j)' = Left(j)
            /\ order'[order'[j].root] = order[order[j].root]
        BY <1>1, <1>2, <1>3, <3>2
      <4>2. Balance(j)
        BY <4>1 DEF Accounts, Balanced
      <4>3. QED
        BY <4>1, <4>2 DEF Balance
    <3>3. QED
      BY <3>1, <3>2
  <2>2. ASSUME NEW j \in DOMAIN order', order'[j].root = j
        PROVE  order'[j].done <= order'[j].qty
    BY <1>1, <1>2, <2>2 DEF Accounts, Balanced
  <2>3. QED
    BY <2>1, <2>2 DEF Balanced
<1>6. Told'
  <2>1. ASSUME NEW j \in DOMAIN order', order'[j].status = "FILLED"
        PROVE  j \in DOMAIN order
    BY <1>2, <2>1
  <2>2. QED
    BY <1>1, <2>1 DEF Accounts, Told
<1>7. Kept'
  <2> SUFFICES ASSUME NEW r \in DOMAIN order', order'[r].root = r, Stays(order'[r])
               PROVE  \/ \E j \in DOMAIN order' : order'[j].root = r /\
                            order'[j].status \in {"CANCELED", "REJECTED"}
                      \/ \E j \in Live' : order'[j].root = r
                      \/ order'[r].done = order'[r].qty
    BY DEF Kept
  <2>1. r \in DOMAIN order
    BY <1>1, <1>2
  <2>2. \/ \E j \in DOMAIN order : order[j].root = r /\
                            order[j].status \in {"CANCELED", "REJECTED"}
        \/ \E j \in Live : order[j].root = r
        \/ order[r].done = order[r].qty
    BY <1>1, <2>1 DEF Accounts, Kept
  <2>3. CASE \E j \in Live : order[j].root = r
    <3>1. PICK j \in Live : order[j].root = r
      BY <2>3
    <3>2. CASE j = s
      BY <1>2, <3>1, <3>2
    <3>3. CASE j # s
      BY <1>1, <1>2, <3>1, <3>3
    <3>4. QED
      BY <3>2, <3>3
  <2>4. QED
    BY <1>1, <2>1, <2>2, <2>3
<1>8. QED
  BY <1>4, <1>5, <1>6, <1>7 DEF Accounts

LEMMA TradeAccounts ==
    ASSUME Ground, Ground', Grows(order, order'), Accounts, NEW maker, NEW taker, NEW q,
           TradeMove(maker, taker, q)
    PROVE  Accounts'
<1> DEFINE m == order[maker].root
           t == order[taker].root
<1>1. \A k \in DOMAIN order :
         /\ order[k].root \in DOMAIN order /\ order[order[k].root].root = order[k].root
         /\ order[k].qty \in Nat /\ order[k].done \in Nat
         /\ order'[k].root = order[k].root /\ order'[k].qty = order[k].qty
         /\ order'[k].type = order[k].type
         /\ Stays(order'[k]) <=> Stays(order[k])
  BY SameStays DEF Ground
<1>2. /\ maker \in Live /\ taker \in Live /\ maker # taker /\ Live \subseteq DOMAIN order
      /\ q \in Nat /\ q <= Left(maker) /\ q <= Left(taker)
      /\ DOMAIN order' = DOMAIN order
      /\ \A j \in DOMAIN order :
            /\ order'[j].done = order[j].done
                  + (IF j = m THEN q ELSE 0) + (IF j = t THEN q ELSE 0)
            /\ j # maker => order'[j].status = order[j].status
      /\ order'[maker].status = "FILLED" => q = Left(maker)
      /\ \/ q = Left(maker) /\ Live' = Live \ {maker}
         \/ q # Left(maker) /\ Live' = Live
      /\ \A j \in Live' : Left(j)' = Left(j) - (IF j \in {maker, taker} THEN q ELSE 0)
      /\ \A j \in Live : Left(j) \in Nat
  BY DEF TradeMove, Ground
<1>3. \A j, k \in Live : order[j].root = order[k].root => j = k
  BY DEF Accounts, Alone
<1>4. m \in DOMAIN order /\ t \in DOMAIN order /\ m # t
  BY <1>1, <1>2, <1>3
<1>5. \A j \in Live : Balance(j)
  BY DEF Accounts, Balanced
<1>6. /\ order[m].done + Left(maker) <= order[m].qty
      /\ order[m].type # "iceberg" => order[m].done + Left(maker) = order[m].qty
      /\ order[t].done + Left(taker) <= order[t].qty
      /\ order[t].type # "iceberg" => order[t].done + Left(taker) = order[t].qty
  BY <1>2, <1>5 DEF Balance
<1>7. /\ order'[m].done = order[m].done + q /\ order'[t].done = order[t].done + q
      /\ \A j \in DOMAIN order : j # m /\ j # t => order'[j].done = order[j].done
      /\ \A j \in DOMAIN order : order'[j].done >= order[j].done
  <2>1. \A j \in DOMAIN order :
           /\ order[j].done \in Nat
           /\ order'[j].done = order[j].done
                  + (IF j = m THEN q ELSE 0) + (IF j = t THEN q ELSE 0)
    BY <1>1, <1>2
  <2> HIDE DEF m, t
  <2>2. ASSUME NEW j \in DOMAIN order, j # m, j # t PROVE order'[j].done = order[j].done
    BY <2>1, <2>2
  <2>3. ASSUME NEW j \in DOMAIN order PROVE order'[j].done >= order[j].done
    <3>1. order[j].done \in Nat /\ q \in Nat
          /\ order'[j].done = order[j].done
                  + (IF j = m THEN q ELSE 0) + (IF j = t THEN q ELSE 0)
      BY <1>2, <2>1
    <3>2. QED
      BY <3>1
  <2>4. order'[m].done = order[m].done + q
    BY <1>2, <1>4, <2>1
  <2>5. order'[t].done = order[t].done + q
    BY <1>2, <1>4, <2>1
  <2>6. QED
    BY <2>2, <2>3, <2>4, <2>5
<1>8. Left(maker) \in Nat /\ Left(taker) \in Nat
  BY <1>2
<1> HIDE DEF m, t
<1>9. ASSUME NEW j \in DOMAIN order, order[j].root = j PROVE order'[j].done <= order'[j].qty
  <2>1. order[j].done <= order[j].qty /\ order'[j].qty = order[j].qty
        /\ order[j].qty \in Nat /\ order[j].done \in Nat
    BY <1>1, <1>9 DEF Accounts, Balanced
  <2>2. CASE j = m
    BY <1>2, <1>6, <1>7, <1>8, <2>1, <2>2
  <2>3. CASE j = t
    BY <1>2, <1>6, <1>7, <1>8, <2>1, <2>3
  <2>4. CASE j # m /\ j # t
    BY <1>7, <2>1, <2>4
  <2>5. QED
    BY <2>2, <2>3, <2>4
<1>10. Alone'
  BY <1>1, <1>2, <1>3 DEF Alone
<1>11. Balanced'
  <2>1. ASSUME NEW j \in Live' PROVE Balance(j)'
    <3> DEFINE r == order[j].root
    <3>1. /\ j \in Live /\ j \in DOMAIN order /\ Left(j) \in Nat
          /\ Left(j)' = Left(j) - (IF j \in {maker, taker} THEN q ELSE 0)
      BY <1>2
    <3>2. /\ order'[j].root = r /\ r \in DOMAIN order
          /\ order'[r].qty = order[r].qty /\ order'[r].type = order[r].type
          /\ order[r].qty \in Nat /\ order[r].done \in Nat
      BY <1>1, <3>1
    <3>3. /\ order[r].done + Left(j) <= order[r].qty
          /\ order[r].type # "iceberg" => order[r].done + Left(j) = order[r].qty
      BY <1>5, <3>1 DEF Balance
    <3>4. (r = m => j = maker) /\ (r = t => j = taker)
      BY <1>2, <1>3, <3>1 DEF m, t
    <3>5. (j = maker => r = m) /\ (j = taker => r = t)
      BY DEF m, t
    <3> HIDE DEF r
    <3>6. order'[r].done + Left(j)' = order[r].done + Left(j)
      <4>1. CASE j = maker \/ j = taker
        <5>1. order'[r].done = order[r].done + q
          BY <1>7, <3>5, <4>1
        <5>2. Left(j)' = Left(j) - q
          BY <3>1, <4>1
        <5>3. QED
          BY <1>2, <3>1, <3>2, <5>1, <5>2
      <4>2. CASE j # maker /\ j # taker
        BY <1>7, <3>1, <3>2, <3>4, <4>2
      <4>3. QED
        BY <4>1, <4>2
    <3>7. /\ order'[r].done + Left(j)' <= order'[r].qty
          /\ order'[r].type # "iceberg" => order'[r].done + Left(j)' = order'[r].qty
      BY <3>2, <3>3, <3>6
    <3>8. order'[j].root = r
      BY <3>2
    <3>9. QED
      BY <3>7, <3>8 DEF Balance
  <2>2. QED
    BY <1>1, <1>2, <1>9, <2>1 DEF Balanced
\* The maker's submission is done with the maker.
<1>12. q = Left(maker) /\ order[m].type # "iceberg" => order'[m].done = order'[m].qty
  BY <1>1, <1>4, <1>6, <1>7
\* What was done already stays so.
<1>13. ASSUME NEW r \in DOMAIN order, order[r].root = r, order[r].done = order[r].qty
       PROVE  order'[r].done = order'[r].qty
  <2>1. order[r].done \in Nat /\ order'[r].qty = order[r].qty
        /\ order'[r].done >= order[r].done /\ order'[r].done <= order'[r].qty
    BY <1>1, <1>7, <1>9, <1>13
  <2>2. order'[r].done \in Nat
    BY <1>2, <1>13 DEF Ground
  <2>3. QED
    BY <1>13, <2>1, <2>2
<1>14. Told'
  <2> SUFFICES ASSUME NEW k \in DOMAIN order, order'[k].status = "FILLED",
                      order'[order'[k].root].type # "iceberg"
               PROVE  order'[order'[k].root].done = order'[order'[k].root].qty
    BY <1>2 DEF Told
  <2>1. order'[k].root = order[k].root /\ order[k].root \in DOMAIN order
        /\ order[order[k].root].type # "iceberg"
        /\ order[order[k].root].root = order[k].root
    BY <1>1
  <2>2. CASE k = maker
    BY <1>2, <1>12, <2>1, <2>2 DEF m
  <2>3. CASE k # maker
    <3>1. order[order[k].root].done = order[order[k].root].qty
      BY <1>2, <2>1, <2>3 DEF Accounts, Told
    <3>2. QED
      BY <1>13, <2>1, <3>1
  <2>4. QED
    BY <2>2, <2>3
<1>15. Kept'
  <2> SUFFICES ASSUME NEW r \in DOMAIN order', order'[r].root = r, Stays(order'[r])
               PROVE  \/ \E j \in DOMAIN order' : order'[j].root = r /\
                            order'[j].status \in {"CANCELED", "REJECTED"}
                      \/ \E j \in Live' : order'[j].root = r
                      \/ order'[r].done = order'[r].qty
    BY DEF Kept
  <2>0. /\ r \in DOMAIN order /\ order[r].root = r /\ Stays(order[r])
        /\ Live' \subseteq DOMAIN order
        /\ \A j \in DOMAIN order : order'[j].root = order[j].root
    BY <1>1, <1>2
  <2>1. \/ \E j \in DOMAIN order : order[j].root = r /\
                            order[j].status \in {"CANCELED", "REJECTED"}
        \/ \E j \in Live : order[j].root = r
        \/ order[r].done = order[r].qty
    BY <2>0 DEF Accounts, Kept
  <2>2. CASE r = m
    <3>1. CASE q = Left(maker)
      <4>1. order[m].type # "iceberg"
        BY <2>0, <2>2 DEF Stays
      <4>2. QED
        BY <1>12, <2>2, <3>1, <4>1
    <3>2. CASE q # Left(maker)
      BY <1>2, <2>0, <2>2, <3>2 DEF m
    <3>3. QED
      BY <3>1, <3>2
  <2>3. CASE r # m
    <3>1. \A j \in DOMAIN order : order[j].root = r => j # maker
      BY <2>3 DEF m
    <3>2. \A j \in Live : order[j].root = r => j \in Live'
      BY <1>2, <3>1
    <3>3. QED
      BY <1>2, <1>13, <2>0, <2>1, <3>1, <3>2
  <2>4. QED
    BY <2>2, <2>3
<1>16. QED
  BY <1>10, <1>11, <1>14, <1>15 DEF Accounts
LEMMA SettleAccounts ==
    ASSUME Ground, Ground', Grows(order, order'), Accounts, NEW t, NEW k,
           SettleMove(t, k)
    PROVE  Accounts'
<1>1. \A j \in DOMAIN order :
         /\ order[j].root \in DOMAIN order /\ order[order[j].root].root = order[j].root
         /\ order'[j].root = order[j].root /\ order'[j].qty = order[j].qty
         /\ order'[j].type = order[j].type /\ order'[j].done = order[j].done
         /\ order[j].qty \in Nat /\ order[j].done \in Nat
         /\ Stays(order'[j]) <=> Stays(order[j])
  BY SameStays DEF Ground, SettleMove
<1>2. /\ t \in Live /\ Live \subseteq DOMAIN order
      /\ k = t \/ k \notin DOMAIN order
      /\ DOMAIN order' = DOMAIN order \cup {k}
      /\ \A j \in DOMAIN order : j # t => order'[j].status = order[j].status
      /\ order'[k].root = order[t].root
      /\ \A j \in {t, k} : order'[j].status = "FILLED" => Left(t) = 0
      /\ \A j \in Live \ {t} : Left(j)' = Left(j)
      /\ \/ Live' = (Live \ {t}) \cup {k} /\ Left(k)' = Left(t)
         \/ /\ Live' = Live \ {t}
            /\ order[t].type = "limit" /\ order[t].tif \in {"GTC", "POST_ONLY"} =>
                  Left(t) = 0
  BY DEF SettleMove, Ground
<1>3. Balance(t)
  BY <1>2 DEF Accounts, Balanced
<1>4. /\ Live' \subseteq (Live \ {t}) \cup {k}
      /\ k \in Live' => Left(k)' = Left(t)
      /\ \A j \in Live' : j # k => j \in Live \ {t} /\ Left(j)' = Left(j)
  BY <1>2
<1>5. \A r \in DOMAIN order' : order'[r].root = r => r \in DOMAIN order
  BY <1>1, <1>2
<1> DEFINE a == order[t].root
<1>6. a \in DOMAIN order
  BY <1>1, <1>2
<1>7. Left(t) = 0 /\ order[a].type # "iceberg" => order[a].done = order[a].qty
  BY <1>1, <1>3, <1>6 DEF Balance
<1>8. Alone'
  BY <1>1, <1>2, <1>4 DEF Accounts, Alone
<1>9. Balanced'
  <2>1. ASSUME NEW j \in Live' PROVE Balance(j)'
    <3>1. CASE j = k
      <4>1. /\ order'[k].root = a /\ Left(k)' = Left(t)
            /\ order'[a].done = order[a].done /\ order'[a].qty = order[a].qty
            /\ order'[a].type = order[a].type
        BY <1>1, <1>2, <1>4, <1>6, <3>1
      <4>2. QED
        BY <1>3, <3>1, <4>1 DEF Balance
    <3>2. CASE j # k
      <4>1. j \in Live /\ j \in DOMAIN order /\ Left(j)' = Left(j)
        BY <1>2, <1>4, <3>2
      <4>2. Balance(j)
        BY <4>1 DEF Accounts, Balanced
      <4>3. QED
        BY <1>1, <4>1, <4>2 DEF Balance
    <3>3. QED
      BY <3>1, <3>2
  <2>2. ASSUME NEW j \in DOMAIN order', order'[j].root = j
        PROVE  order'[j].done <= order'[j].qty
    BY <1>1, <1>5, <2>2 DEF Accounts, Balanced
  <2>3. QED
    BY <2>1, <2>2 DEF Balanced
<1>10. Told'
  <2> SUFFICES ASSUME NEW j \in DOMAIN order', order'[j].status = "FILLED",
                      order'[order'[j].root].type # "iceberg"
               PROVE  order'[order'[j].root].done = order'[order'[j].root].qty
    BY DEF Told
  <2>1. CASE j \in {t, k}
    <3>1. order'[j].root = a /\ Left(t) = 0
      BY <1>1, <1>2, <2>1
    <3>2. QED
      BY <1>1, <1>6, <1>7, <3>1
  <2>2. CASE j \notin {t, k}
    <3>1. j \in DOMAIN order /\ order[j].status = "FILLED"
      BY <1>2, <2>2
    <3>2. QED
      BY <1>1, <3>1 DEF Accounts, Told
  <2>3. QED
    BY <2>1, <2>2
<1>11. Kept'
  <2> SUFFICES ASSUME NEW r \in DOMAIN order', order'[r].root = r, Stays(order'[r])
               PROVE  \/ \E j \in DOMAIN order' : order'[j].root = r /\
                            order'[j].status \in {"CANCELED", "REJECTED"}
                      \/ \E j \in Live' : order'[j].root = r
                      \/ order'[r].done = order'[r].qty
    BY DEF Kept
  <2>0. /\ r \in DOMAIN order /\ order[r].root = r /\ Stays(order[r])
        /\ Live' \subseteq DOMAIN order'
        /\ \A j \in DOMAIN order : order'[j].root = order[j].root
    BY <1>1, <1>2, <1>5
  <2>1. \/ \E j \in DOMAIN order : order[j].root = r /\
                            order[j].status \in {"CANCELED", "REJECTED"}
        \/ \E j \in Live : order[j].root = r
        \/ order[r].done = order[r].qty
    BY <2>0 DEF Accounts, Kept
  <2>2. CASE r = a
    <3>1. CASE Live' = (Live \ {t}) \cup {k}
      BY <1>2, <2>2, <3>1
    <3>2. CASE Live' = Live \ {t}
      <4>1. CASE order[t].type = "limit" /\ order[t].tif \in {"GTC", "POST_ONLY"}
        <5>1. Left(t) = 0 \/ Live' = (Live \ {t}) \cup {k}
          BY <1>2, <4>1
        <5>2. order[a].type # "iceberg"
          BY <2>0, <2>2 DEF Stays
        <5>3. QED
          BY <1>1, <1>7, <2>0, <2>2, <3>1, <5>1, <5>2
      <4>2. QED
        BY <1>2, <2>0, <2>2, <4>1 DEF Ground, SettleMove
    <3>3. QED
      BY <1>2, <3>1, <3>2
  <2>3. CASE r # a
    <3>1. \A j \in DOMAIN order : order[j].root = r => j # t /\ j \in DOMAIN order'
      BY <1>2, <2>3
    <3>2. \A j \in Live : order[j].root = r => j \in Live'
      BY <1>2, <3>1
    <3>3. QED
      BY <1>1, <1>2, <2>0, <2>1, <3>1, <3>2
  <2>4. QED
    BY <2>2, <2>3
<1>12. QED
  BY <1>8, <1>9, <1>10, <1>11 DEF Accounts

LEMMA AccountsKeep == FreshIDs /\ Ready /\ Accounts /\ [Next]_vars => Accounts'
<1> SUFFICES ASSUME FreshIDs, Ready, Accounts, [Next]_vars PROVE Accounts'
  OBVIOUS
<1>1. Ground /\ Grows(order, order')
  BY ReadyGround, NextIInv DEF Keeps, Ready, Orderly
<1>2. Ground'
  BY ReadyKeeps, GroundAfter
<1>3. Moves
  BY EveryMove
<1>4. QED
  BY <1>1, <1>2, <1>3, QuietAccounts, EnterAccounts, TriggerAccounts, TradeAccounts,
     SettleAccounts DEF Moves

LEMMA InitAccounts == Init => Accounts
<1> SUFFICES ASSUME Init PROVE Accounts
  OBVIOUS
<1>1. order = <<>> /\ orderIndex = EmptyMap /\ stopIndex = EmptyMap /\ stack = <<>>
  BY DEF Init, BookInit
<1>2. Live = {} /\ DOMAIN order = {}
  BY <1>1 DEF Live, Held, ArmedOrders, Taker, Matches, Idle, EmptyMap
<1>3. QED
  BY <1>2 DEF Accounts, Alone, Balanced, Told, Kept

LEMMA AccountsAlways ==
    ASSUME FreshIDs
    PROVE  Spec => [](Ready /\ Accounts)
BY InitReady, ReadyKeeps, InitAccounts, AccountsKeep, PTL DEF Spec

-----------------------------------------------------------------------------
(* What the properties say of the accounts.                                 *)

LeftIn(heap) == [r \in DOMAIN heap |-> RemainingQty(heap[r])]

LEMMA LeftOfIs ==
    ASSUME NEW refs \in SUBSET DOMAIN order, IsFiniteSet(refs),
           \A r \in refs : RemainingQty(order[r]) \in Int
    PROVE  LeftOf(refs) = Total(LeftIn(order), refs)
<1> DEFINE f == [r \in refs |-> RemainingQty(order[r])]
           g == LeftIn(order)
<1>1. DOMAIN f = refs /\ \A r \in refs : f[r] = g[r] /\ g[r] \in Int
  BY DEF LeftIn
<1>2. LeftOf(refs) = SumFunction(f)
  BY DEF LeftOf
<1> HIDE DEF f, g
<1>3. SumFunction(f) = Total(g, refs)
  BY ONLY <1>1, IsFiniteSet(refs), SumIsTotal
<1>4. QED
  BY <1>2, <1>3 DEF g

LEMMA LeftOfNone == LeftOf({}) = 0
<1>1. LeftOf({}) = Total(LeftIn(order), {})
  BY FS_EmptySet, LeftOfIs
<1>2. QED
  BY <1>1, TotalNone

LEMMA LeftOfOne ==
    ASSUME NEW k \in DOMAIN order, RemainingQty(order[k]) \in Int
    PROVE  LeftOf({k}) = RemainingQty(order[k])
<1> DEFINE f == LeftIn(order)
<1>1. IsFiniteSet({k}) /\ {k} \ {k} = {} /\ k \in {k}
  BY FS_Singleton
<1>2. f[k] = RemainingQty(order[k]) /\ \A r \in {k} : f[r] \in Int
  BY DEF LeftIn
<1>3. LeftOf({k}) = Total(f, {k})
  BY <1>1, LeftOfIs
<1> HIDE DEF f
<1>4. Total(f, {k}) = f[k] + Total(f, {k} \ {k})
  BY ONLY <1>1, <1>2, TotalLess
<1>5. Total(f, {k} \ {k}) = 0
  BY ONLY <1>1, TotalNone
<1>6. QED
  BY <1>2, <1>3, <1>4, <1>5

\* What is outstanding for a submission is what its one object has left.
LEMMA OutstandingIs ==
    ASSUME Ready, Alone, NEW r
    PROVE  \/ \E k \in Live : order[k].root = r /\ Outstanding(r) = Left(k)
           \/ (\A k \in Live : order[k].root # r) /\ Outstanding(r) = 0
<1> DEFINE still == {k \in Resting \cup ArmedOrders : order[k].root = r}
<1>1. /\ Orderly /\ Roles /\ IInv /\ BookKept
      /\ \A j, k \in Live : order[j].root = order[k].root => j = k
  BY DEF Ready, Orderly, Alone
<1>2. still = {k \in Held \cup ArmedOrders : order[k].root = r}
  BY <1>1, RestingIsHeld DEF Held
<1>3. /\ Held \cap Taker = {} /\ ArmedOrders \cap Taker = {}
      /\ Live \subseteq DOMAIN order
      /\ \A k \in Live : Left(k) \in Nat
      /\ \A k \in Held \cup ArmedOrders : Left(k) = RemainingQty(order[k])
      /\ \A k \in Taker : Left(k) = Head(stack).rem
  BY <1>1, LiveFacts
<1>4. Pending(r) = IF Matches /\ order[Head(stack).taker].root = r
                   THEN Head(stack).rem ELSE 0
  BY DEF Pending, Matches, Idle
<1>5. Outstanding(r) = Pending(r) + LeftOf(still)
  BY DEF Outstanding
<1>6. LeftOf({}) = 0
  BY LeftOfNone
<1> HIDE DEF still
<1>7. CASE \E k \in Taker : order[k].root = r
  <2>1. PICK k \in Taker : order[k].root = r
    BY <1>7
  <2>2. Matches /\ k = Head(stack).taker /\ k \in Live
    BY <2>1 DEF Taker, Live
  <2>3. Pending(r) = Left(k) /\ Left(k) \in Nat
    BY <1>3, <1>4, <2>1, <2>2
  <2>4. still = {}
    BY <1>1, <1>2, <1>3, <2>1, <2>2 DEF Live
  <2>5. LeftOf(still) = 0
    BY <1>6, <2>4
  <2>6. QED
    BY <1>5, <2>1, <2>2, <2>3, <2>5
<1>8. CASE \A k \in Taker : order[k].root # r
  <2>1. Pending(r) = 0
    BY <1>4, <1>8 DEF Taker
  <2>2. CASE still = {}
    <3>1. \A k \in Live : order[k].root # r
      BY <1>2, <1>8, <2>2 DEF Live
    <3>2. LeftOf(still) = 0
      BY <1>6, <2>2
    <3>3. QED
      BY <1>5, <2>1, <3>1, <3>2
  <2>3. CASE still # {}
    <3>1. PICK k : k \in still
      BY <2>3
    <3>2. k \in Live /\ order[k].root = r /\ k \in Held \cup ArmedOrders
      BY <1>2, <3>1 DEF Live
    <3>3. still = {k}
      BY <1>1, <1>2, <3>1, <3>2 DEF Live
    <3>4. Left(k) = RemainingQty(order[k]) /\ Left(k) \in Nat
      BY <1>3, <3>2
    <3>5. LeftOf({k}) = Left(k)
      BY <1>3, <3>2, <3>4, LeftOfOne
    <3>6. LeftOf(still) = Left(k)
      BY <3>3, <3>5
    <3>7. Outstanding(r) = Left(k)
      BY <1>5, <2>1, <3>4, <3>6
    <3>8. QED
      BY <3>2, <3>7
  <2>4. QED
    BY <2>2, <2>3
<1>9. QED
  BY <1>7, <1>8

(* Property NoOverfill: while no id is used twice, an order is never executed *)
(* for more than it asked, nor can what stands for it still take it there -  *)
(* through the clone that rests (match_engine.go:251), the slice of an        *)
(* iceberg (:281) and the order a stop turns into (:578).                    *)
THEOREM NoOverfillAlways == FreshIDs => (Spec => []NoOverfill)
<1> SUFFICES ASSUME FreshIDs PROVE Spec => []NoOverfill
  OBVIOUS
<1>1. Ready /\ Accounts => NoOverfill
  <2> SUFFICES ASSUME Ready, Accounts, NEW r \in DOMAIN order, order[r].root = r
               PROVE  order[r].done + Outstanding(r) <= order[r].qty
    BY DEF NoOverfill, Submitted
  <2>1. order[r].done \in Nat
    BY ReadyGround DEF Ground
  <2>2. CASE \E k \in Live : order[k].root = r /\ Outstanding(r) = Left(k)
    BY <2>2 DEF Accounts, Balanced, Balance
  <2>3. CASE Outstanding(r) = 0
    BY <2>1, <2>3 DEF Accounts, Balanced
  <2>4. QED
    BY <2>2, <2>3, OutstandingIs DEF Accounts
<1>2. Spec => [](Ready /\ Accounts)
  BY AccountsAlways
<1>3. QED
  BY <1>1, <1>2, PTL

(* Property FilledIsFilled: while no id is used twice, an object that says   *)
(* FILLED stands for an order executed in full, unless that is an iceberg    *)
(* (order.go:100; makers get it at match_engine.go:352, takers at :148 and   *)
(* :242, each from the quantities of that object alone).                     *)
THEOREM FilledIsFilledAlways == FreshIDs => (Spec => []FilledIsFilled)
<1> SUFFICES ASSUME FreshIDs PROVE Spec => []FilledIsFilled
  OBVIOUS
<1>1. Ready /\ Accounts => FilledIsFilled
  BY DEF Accounts, Told, FilledIsFilled
<1>2. Spec => [](Ready /\ Accounts)
  BY AccountsAlways
<1>3. QED
  BY <1>1, <1>2, PTL

(* Property NothingLost: while no id is used twice, between two calls what    *)
(* was executed of an order that stays and what still rests or waits for it  *)
(* make up what it asked, unless it was canceled or rejected (README.md:11). *)
THEOREM NothingLostAlways == FreshIDs => (Spec => []NothingLost)
<1> SUFFICES ASSUME FreshIDs PROVE Spec => []NothingLost
  OBVIOUS
<1>1. Ready /\ Accounts => NothingLost
  <2> SUFFICES ASSUME Ready, Accounts, NEW r \in DOMAIN order, order[r].root = r,
                      Stays(order[r])
               PROVE  \/ \E k \in DOMAIN order : order[k].root = r /\
                            order[k].status \in {"CANCELED", "REJECTED"}
                      \/ order[r].done + Outstanding(r) = order[r].qty
    BY DEF NothingLost, Submitted
  <2>1. order[r].done \in Nat /\ order[r].qty \in Nat /\ Live \subseteq DOMAIN order
    BY ReadyGround DEF Ground
  <2>2. order[r].type # "iceberg"
    BY DEF Stays
  <2>3. CASE \E k \in Live : order[k].root = r /\ Outstanding(r) = Left(k)
    BY <2>2, <2>3 DEF Accounts, Balanced, Balance
  <2>4. CASE (\A k \in Live : order[k].root # r) /\ Outstanding(r) = 0
    BY <2>1, <2>4 DEF Accounts, Kept
  <2>5. QED
    BY <2>3, <2>4, OutstandingIs DEF Accounts
<1>2. Spec => [](Ready /\ Accounts)
  BY AccountsAlways
<1>3. QED
  BY <1>1, <1>2, PTL

-----------------------------------------------------------------------------
(* Price-time priority.                                                     *)

\* The front of an increasing queue is its least element.
LEMMA FrontIsLeast ==
    ASSUME NEW s \in Seq(Nat), s # <<>>, Increasing(s)
    PROVE  \A r \in ToSet(s) : r # Head(s) => Head(s) < r
<1>1. Head(s) = s[1] /\ 1 \in DOMAIN s /\ DOMAIN s = 1 .. Len(s) /\ Len(s) \in Nat
  OBVIOUS
<1>2. \A r \in ToSet(s) : \E i \in DOMAIN s : s[i] = r
  BY DEF ToSet
<1>3. QED
  BY <1>1, <1>2 DEF Increasing

\* Only the maker's filled quantity moves among the orders that rest.
LEMMA MakerHit ==
    ASSUME Orderly, NEW maker, NEW q, TradeWith(maker, q)
    PROVE  /\ maker \in Resting
           /\ (CHOOSE r \in Resting : order'[r].filled # order[r].filled) = maker
<1>1. /\ IInv /\ BookKept
      /\ maker \in DOMAIN order /\ q \in Nat /\ q > 0
      /\ order[maker].id \in DOMAIN orderIndex
      /\ orderIndex[order[maker].id] = maker
  BY DEF Orderly, TradeWith
<1>2. Resting = {orderIndex[id] : id \in DOMAIN orderIndex}
  BY <1>1, RestingIsHeld
<1>3. maker \in Resting /\ Resting \subseteq DOMAIN order
  BY <1>1, <1>2, IndexesTell
<1>4. \A k \in DOMAIN order : order'[k].filled = IF k = maker THEN order[k].filled + q
                                                 ELSE order[k].filled
  BY TradeTells
<1>5. order'[maker].filled # order[maker].filled
  <2>1. order[maker].filled \in Nat
    BY <1>1, OrderTyped
  <2>2. QED
    BY <1>1, <1>4, <2>1
<1>6. \A r \in Resting : r # maker => order'[r].filled = order[r].filled
  BY <1>3, <1>4
<1> DEFINE Hit(r) == order'[r].filled # order[r].filled
<1>7. Hit(maker) /\ \A r \in Resting : Hit(r) => r = maker
  BY <1>5, <1>6
<1> HIDE DEF Hit
<1>8. (CHOOSE r \in Resting : Hit(r)) = maker
  BY <1>3, <1>7
<1>9. QED
  BY <1>3, <1>8 DEF Hit

(* Property BestFirst: while no id is used twice, every trade is made with   *)
(* the best resting order of the other side and, among equals, with the one  *)
(* that joined first - whatever calls were nested in the one that trades,     *)
(* whatever was canceled or triggered meanwhile (the inner loop of            *)
(* match_engine.go:200 takes the front of the level Best() returned).         *)
THEOREM BestFirstAlways == FreshIDs => (Spec => BestFirst)
<1> SUFFICES ASSUME FreshIDs PROVE Spec => BestFirst
  OBVIOUS
<1>1. ASSUME Ready, [Next]_vars, Trades
      PROVE  LET taker == order[Head(stack).taker]
                 maker == CHOOSE r \in Resting : order'[r].filled # order[r].filled
                 side == order[maker].side
             IN  /\ side # taker.side
                 /\ tradePrice' = order[maker].price
                 /\ taker.type = "limit" => ~ Better(side, taker.price, tradePrice')
                                            \/ taker.price = tradePrice'
                 /\ \A r \in Resting \ {maker} :
                       order[r].side = side =>
                           \/ Better(side, order[maker].price, order[r].price)
                           \/ order[maker].price = order[r].price /\ maker < r
  <2>1. IInv /\ BookKept /\ Orderly
    BY <1>1 DEF Ready, Orderly
  <2>2. TradeKind
    <3>1. Matches /\ Matches' /\ ~ Idle /\ stack' # stack
      <4>1. Matches /\ Matches' /\ ~ Idle
        BY <1>1 DEF Trades, Matches, Idle
      <4>2. Head(stack).rem \in Nat
        BY <2>1, <4>1, HeadTyped DEF Frame, Matches
      <4>3. QED
        BY <1>1, <4>1, <4>2 DEF Trades
    <3>2. StepKind
      BY <1>1, Kinds DEF Ready
    <3>3. QED
      BY <3>1, <3>2 DEF StepKind, SubmitKind, TriggerKind, SettleKind, IcebergKind,
                        CancelKind, PassKind
  <2>3. PICK m, q : TradeWith(m, q)
    BY <2>2 DEF TradeKind
  <2>4. (CHOOSE r \in Resting : order'[r].filled # order[r].filled) = m
    BY <2>1, <2>3, MakerHit
  <2> DEFINE taker == order[Head(stack).taker]
             side == order[m].side
             p == order[m].price
  <2>5. /\ side = OppositeSide[taker.side] /\ side \in Sides /\ taker.side \in Sides
        /\ p \in Target(taker) /\ p \in DOMAIN level[side]
        /\ m = Head(level[side][p].orders) /\ tradePrice' = p
    <3>1. Head(stack).taker \in DOMAIN order
      BY <2>3 DEF TradeWith
    <3>2. taker.side \in Sides
      BY <2>1, <3>1, OrderTyped
    <3>3. QED
      BY <2>3, <3>2 DEF TradeWith
  <2>6. p \in Nat /\ (taker.type = "limit" => taker.price \in Nat)
    <3>1. Head(stack).taker \in DOMAIN order /\ p \in Prices
      BY <2>1, <2>3, <2>5, QueueTyped DEF TradeWith
    <3>2. taker \in PricedOrder
      BY <2>1, <3>1, OrderTyped
    <3>3. taker.type = "limit" => taker.price \in Prices
      BY <3>2 DEF PricedOrder
    <3>4. QED
      BY <3>1, <3>3, PricesAssumption
  <2>7. /\ Takes(taker, p) /\ p \in BestPrices(OppositeSide[taker.side])
    BY <2>5 DEF Target
  <2> HIDE DEF side, p, taker
  <2>8. side # taker.side
    BY <2>5 DEF OppositeSide, Sides
  <2>9. taker.type = "limit" => ~ Better(side, taker.price, p) \/ taker.price = p
    BY <2>5, <2>6, <2>7, <2>8 DEF Takes, CanMatch, Better, Sides
  <2>10. ASSUME NEW r \in Resting \ {m}, order[r].side = side
         PROVE  Better(side, p, order[r].price) \/ (p = order[r].price /\ m < r)
    <3>1. PICK id \in DOMAIN orderIndex : r = orderIndex[id]
      BY <2>1, RestingIsHeld
    <3>2. order[r].price \in DOMAIN level[side] /\ r \in Queued(side, order[r].price)
      BY <2>1, <2>10, <3>1 DEF BookKept, RestsAt
    <3>3. order[r].price \in Nat
      BY <2>1, <2>5, <3>2, QueueTyped, PricesAssumption
    <3>4. ~ Better(side, order[r].price, p)
      BY <2>5, <2>7, <3>2 DEF BestPrices
    <3>5. CASE order[r].price # p
      BY <2>5, <2>6, <3>3, <3>4, <3>5 DEF Better, Sides
    <3>6. CASE order[r].price = p
      <4>1. level[side][p].orders \in Seq(Nat) /\ level[side][p].orders # <<>>
            /\ Increasing(level[side][p].orders)
        BY <2>1, <2>5, QueueTyped DEF BookKept, LevelKept
      <4>2. r \in ToSet(level[side][p].orders)
        BY <3>2, <3>6 DEF Queued
      <4>3. m < r
        BY <2>5, <2>10, <4>1, <4>2, FrontIsLeast
      <4>4. QED
        BY <3>6, <4>3
    <3>7. QED
      BY <3>5, <3>6
  <2>11. tradePrice' = p
    BY <2>5
  <2>12. QED
    BY <2>4, <2>8, <2>9, <2>10, <2>11 DEF taker, side, p
<1>2. Spec => []Ready
  BY ReadyAlways
<1>3. QED
  BY <1>1, <1>2, PTL DEF BestFirst, Spec

-----------------------------------------------------------------------------
(* Cancel-all.                                                              *)

Cancels == ~ Idle /\ Head(stack).op = "cancel"

\* What a cancel-all in progress still lists: all of the user's resting orders,
\* then, when none of them is left, all of the user's armed ones.
CancelsAll ==
    Cancels =>
       LET f == Head(stack)
       IN  /\ f.map = "book" =>
                 \A id \in DOMAIN orderIndex :
                    order[orderIndex[id]].user = f.user => id \in f.todo
           /\ f.map # "book" =>
                 /\ \A id \in DOMAIN orderIndex : order[orderIndex[id]].user # f.user
                 /\ \A id \in DOMAIN stopIndex :
                       order[stopIndex[id]].user = f.user => id \in f.todo

\* A frame of another kind is on top of frames that wait.
LEMMA OtherTop ==
    ASSUME NEW S, NEW rest \in Seq(S), Nested(rest),
           \/ stack' = rest
           \/ \E g : g.op # "cancel" /\ stack' = <<g>> \o rest
    PROVE  ~ Cancels'
<1>1. CASE stack' = rest
  BY <1>1, NestedParts DEF Cancels, Idle
<1>2. ASSUME NEW g, g.op # "cancel", stack' = <<g>> \o rest PROVE ~ Cancels'
  BY <1>2, TopPushed DEF Cancels
<1>3. QED
  BY <1>1, <1>2

\* Where a call that cancels all of a user's orders is at.
LEMMA CancelSteps ==
    ASSUME Orderly, [Next]_vars, Cancels'
    PROVE  \/ UNCHANGED <<order, orderIndex, stopIndex, stack>>
           \/ \E user \in Users : CancelAll(user)
           \/ CancelNext \/ EndCancel
<1>1. /\ order \in Seq(PricedOrder) /\ IInv /\ Shape /\ BookKept /\ TakerNew
  BY TypeParts DEF Orderly, IInv
<1> DEFINE below == Tail(stack)
           F == Frame(order)
<1>2. ~ Idle => below \in Seq(F) /\ Nested(below)
  BY <1>1, HeadTyped DEF Shape
<1> HIDE DEF below, F
<1>3. ASSUME NEW o \in PricedOrder, NEW S, NEW rest \in Seq(S), Nested(rest),
             Enters(o, rest), o.type = "iceberg" => VisibleOrder(o) \in PricedOrder
      PROVE  FALSE
  <2> DEFINE wait == Waiting(o, rest)
  <2>1. \/ stack' = wait
        \/ \E last, q : stack' = <<MatchFrame(last, q, NoPrice)>> \o wait
    BY <1>1, <1>3, EntersView
  <2>2. Nested(wait) /\ \E T : wait \in Seq(T)
    BY <1>3, WaitingNested
  <2> HIDE DEF wait
  <2>3. \A last, q : MatchFrame(last, q, NoPrice).op # "cancel"
    BY DEF MatchFrame
  <2>4. QED
    BY <2>1, <2>2, <2>3, OtherTop
<1>4. ASSUME NEW f \in Forms, NEW id \in {"client"} \X ClientIDs, Submit(f, id)
      PROVE  FALSE
  <2> DEFINE o == NewOrder(f, id)
  <2>1. /\ o \in PricedOrder /\ o.type = f.type
        /\ f.type = "iceberg" => VisibleOrder(o) \in PricedOrder
        /\ Enters(o, <<>>) \/ stack' = <<>>
    BY <1>1, <1>4, SubmitEffect DEF NewOrder
  <2> HIDE DEF o
  <2>2. <<>> \in Seq({}) /\ Nested(<<>>)
    BY DEF Nested
  <2>3. CASE Enters(o, <<>>)
    BY <1>3, <2>1, <2>2, <2>3
  <2>4. CASE stack' = <<>>
    BY <2>4 DEF Cancels, Idle
  <2>5. QED
    BY <2>1, <2>3, <2>4
<1>5. CASE VisitStop
  <2> DEFINE f == Head(stack)
  <2>1. ~ Idle /\ \E id, o : \/ /\ o \in PricedOrder /\ o.type \in {"limit", "market"}
                                /\ Enters(o, <<Visited(id)>> \o below)
                             \/ stack' = <<Visited(id)>> \o below
    BY <1>1, <1>5, VisitEffect DEF below
  <2>2. PICK id, o : \/ /\ o \in PricedOrder /\ o.type \in {"limit", "market"}
                        /\ Enters(o, <<Visited(id)>> \o below)
                     \/ stack' = <<Visited(id)>> \o below
    BY <2>1
  <2> DEFINE g == Visited(id)
  <2>3. g.op = "triggers"
    BY DEF Visited, TriggerFrame
  <2>4. g.op # "cancel"
    BY <2>3
  <2> HIDE DEF g
  <2>5. CASE stack' = <<g>> \o below
    BY <1>2, <2>1, <2>4, <2>5, OtherTop
  <2>6. CASE /\ o \in PricedOrder /\ o.type \in {"limit", "market"}
             /\ Enters(o, <<g>> \o below)
    <3>1. Nested(<<g>> \o below) /\ \E T : <<g>> \o below \in Seq(T)
      BY <1>2, <2>1, <2>3, TriggersPush
    <3>2. QED
      BY <1>3, <2>6, <3>1
  <2>7. QED
    BY <2>2, <2>5, <2>6 DEF g
<1>6. CASE MatchStep
  <2>1. CASE UNCHANGED vars
    BY <2>1 DEF vars, bookVars, stopVars
  <2>2. ASSUME NEW maker, NEW q, TradeWith(maker, q), ~ Idle PROVE FALSE
    <3> DEFINE g == MatchFrame(Head(stack).taker, Head(stack).rem - q, order[maker].price)
    <3>1. g.op # "cancel" /\ stack' = <<g>> \o below
      BY <2>2 DEF TradeWith, MatchFrame, below
    <3> HIDE DEF g
    <3>2. QED
      BY <1>2, <2>2, <3>1, OtherTop
  <2>3. ~ Idle
    BY <1>6 DEF MatchStep
  <2>4. QED
    BY <1>1, <1>6, <2>1, <2>2, <2>3, TradeEffect
<1>7. CASE FinishMatch
  <2>1. ~ Idle /\ (stack' = below \/ \E g : g.op = "triggers" /\ stack' = <<g>> \o below)
    BY <1>1, <1>7, FinishEffect DEF Matches, below
  <2>2. QED
    BY <1>2, <2>1, OtherTop
<1>8. CASE FinishIceberg
  <2>1. ~ Idle /\ stack' = below
    BY <1>8 DEF FinishIceberg, below
  <2>2. QED
    BY <1>2, <2>1, OtherTop
<1>9. CASE EndRange
  <2> DEFINE g == TriggerFrame(Head(stack).price, "fall", Armed("fall"))
  <2>1. /\ ~ Idle /\ g.op # "cancel"
        /\ stack' = below \/ stack' = <<g>> \o below
    BY <1>9 DEF EndRange, TriggerFrame, below
  <2> HIDE DEF g
  <2>2. QED
    BY <1>2, <2>1, OtherTop
<1>10. CASE \/ UNCHANGED vars \/ Pause \/ Resume
  BY <1>10 DEF Pause, Resume, vars, bookVars, stopVars
<1>11. ASSUME NEW id, Cancel(id) PROVE FALSE
  BY <1>11 DEF Cancel, Cancels, Idle
<1>12. QED
  BY <1>4, <1>5, <1>6, <1>7, <1>8, <1>9, <1>10, <1>11 DEF Next, Step

LEMMA CancelsAllKeeps ==
    ASSUME Orderly, CancelsAll, [Next]_vars
    PROVE  CancelsAll'
<1> SUFFICES ASSUME Cancels' PROVE CancelsAll'
  BY DEF CancelsAll
<1>1. /\ IInv /\ BookKept /\ StopsKept /\ Grows(order, order') /\ Shape
  BY NextIInv DEF Keeps, Orderly
<1>2. /\ \A id \in DOMAIN orderIndex : orderIndex[id] \in DOMAIN order
      /\ \A id \in DOMAIN stopIndex : stopIndex[id] \in DOMAIN order
      /\ \A k \in DOMAIN order : order'[k].user = order[k].user
  BY <1>1, IndexesTell DEF Grows, SameTerms
<1>3. CASE UNCHANGED <<order, orderIndex, stopIndex, stack>>
  BY <1>3 DEF CancelsAll, Cancels, Idle
<1>4. ASSUME NEW user \in Users, CancelAll(user) PROVE CancelsAll'
  <2> DEFINE list == IF user \in DOMAIN userOrders THEN DOMAIN userOrders[user] ELSE {}
             g == CancelFrame(user, "book", list)
  <2>1. stack' = <<g>> /\ UNCHANGED <<order, orderIndex, stopIndex>>
    BY <1>4 DEF CancelAll, bookVars, stopVars
  <2>2. \A id \in DOMAIN orderIndex : order[orderIndex[id]].user = user => id \in list
    BY <1>1 DEF BookKept, RestsAt
  <2> HIDE DEF list
  <2>3. g.map = "book" /\ g.user = user /\ g.todo = list
    BY DEF CancelFrame
  <2> HIDE DEF g
  <2>4. Head(stack') = g
    BY <2>1
  <2>5. QED
    BY <2>1, <2>2, <2>3, <2>4 DEF CancelsAll
<1>5. CASE CancelNext
  <2> DEFINE f == Head(stack)
  <2>1. PICK id \in f.todo :
           /\ stack' = <<CancelFrame(f.user, f.map, f.todo \ {id})>> \o Tail(stack)
           /\ \/ f.map = "book" /\ Unbooks(id)
              \/ (f.map = "book" => id \notin DOMAIN orderIndex) /\ Disarms(id)
              \/ /\ f.map = "book" => id \notin DOMAIN orderIndex
                 /\ id \notin DOMAIN stopIndex
                 /\ UNCHANGED <<orderIndex, stopIndex>>
    BY <1>1, <1>5, CancelNextEffect DEF stopVars
  <2> DEFINE g == CancelFrame(f.user, f.map, f.todo \ {id})
  <2>2. ~ Idle /\ f.op = "cancel"
    BY <1>5 DEF CancelNext
  <2>3. g.map = f.map /\ g.user = f.user /\ g.todo = f.todo \ {id}
    BY DEF CancelFrame
  <2>4. stack' = <<g>> \o Tail(stack)
    BY <2>1
  <2> HIDE DEF g
  <2>5. Head(stack') = g
    BY <1>1, <2>2, <2>4, PushedTop
  <2>6. /\ f.map = "book" => \A i \in DOMAIN orderIndex :
                                order[orderIndex[i]].user = f.user => i \in f.todo
        /\ f.map # "book" =>
              /\ \A i \in DOMAIN orderIndex : order[orderIndex[i]].user # f.user
              /\ \A i \in DOMAIN stopIndex :
                    order[stopIndex[i]].user = f.user => i \in f.todo
    BY <2>2 DEF CancelsAll, Cancels
  <2>7. /\ \A i \in DOMAIN orderIndex' : i \in DOMAIN orderIndex /\ orderIndex'[i] = orderIndex[i]
        /\ \A i \in DOMAIN stopIndex' : i \in DOMAIN stopIndex /\ stopIndex'[i] = stopIndex[i]
        /\ f.map = "book" => id \notin DOMAIN orderIndex'
        /\ f.map # "book" => id \notin DOMAIN stopIndex'
    <3>1. CASE f.map = "book" /\ Unbooks(id)
      <4>1. orderIndex' = MapDelete(orderIndex, id) /\ UNCHANGED stopIndex
        BY <1>1, <3>1, UnbooksKeeps DEF Unbooks, stopVars
      <4>2. QED
        BY <3>1, <4>1 DEF MapDelete
    <3>2. CASE (f.map = "book" => id \notin DOMAIN orderIndex) /\ Disarms(id)
      BY <3>2 DEF Disarms, DisarmStop, MapDelete
    <3>3. CASE /\ f.map = "book" => id \notin DOMAIN orderIndex
               /\ id \notin DOMAIN stopIndex
               /\ UNCHANGED <<orderIndex, stopIndex>>
      BY <3>3
    <3>4. QED
      BY <2>1, <3>1, <3>2, <3>3
  <2> HIDE DEF f
  <2>8. /\ \A i \in DOMAIN orderIndex' :
              order'[orderIndex'[i]].user = order[orderIndex[i]].user
        /\ \A i \in DOMAIN stopIndex' :
              order'[stopIndex'[i]].user = order[stopIndex[i]].user
    BY <1>2, <2>7
  <2>9. CASE f.map = "book"
    <3>1. \A i \in DOMAIN orderIndex' :
             order'[orderIndex'[i]].user = g.user => i \in g.todo
      BY <2>3, <2>6, <2>7, <2>8, <2>9
    <3>2. QED
      BY <2>3, <2>5, <2>9, <3>1 DEF CancelsAll
  <2>10. CASE f.map # "book"
    <3>1. \A i \in DOMAIN orderIndex' : order'[orderIndex'[i]].user # g.user
      BY <2>3, <2>6, <2>7, <2>8, <2>10
    <3>2. \A i \in DOMAIN stopIndex' :
             order'[stopIndex'[i]].user = g.user => i \in g.todo
      BY <2>3, <2>6, <2>7, <2>8, <2>10
    <3>3. QED
      BY <2>3, <2>5, <2>10, <3>1, <3>2 DEF CancelsAll
  <2>11. QED
    BY <2>9, <2>10
<1>6. CASE EndCancel
  <2> DEFINE f == Head(stack)
             u == f.user
             list == IF u \in DOMAIN stopUsers THEN DOMAIN stopUsers[u] ELSE {}
             g == CancelFrame(u, "stops", list)
  <2>1. /\ ~ Idle /\ f.op = "cancel" /\ f.todo = {}
        /\ UNCHANGED <<order, orderIndex, stopIndex>>
        /\ IF f.map = "book" THEN stack' = <<g>> \o Tail(stack) ELSE stack' = Tail(stack)
    BY <1>6 DEF EndCancel, bookVars, stopVars
  <2>2. f.map = "book"
    <3>1. Tail(stack) = <<>>
      BY <1>1, <2>1 DEF Shape
    <3>2. QED
      BY <2>1, <3>1 DEF Cancels, Idle
  <2>3. \A i \in DOMAIN orderIndex : order[orderIndex[i]].user # u
    BY <2>1, <2>2 DEF CancelsAll, Cancels
  <2>4. \A i \in DOMAIN stopIndex : order[stopIndex[i]].user = u => i \in list
    BY <1>1 DEF StopsKept, StopKept
  <2> HIDE DEF list
  <2>5. g.map = "stops" /\ g.user = u /\ g.todo = list
    BY DEF CancelFrame
  <2> HIDE DEF g
  <2>6. Head(stack') = g
    BY <1>1, <2>1, <2>2, PushedTop
  <2>7. QED
    BY <2>1, <2>3, <2>4, <2>5, <2>6 DEF CancelsAll
<1>7. QED
  BY <1>3, <1>4, <1>5, <1>6, CancelSteps

(* Property CancelAllComplete: while no id is used twice, when a cancel-all   *)
(* returns, nothing of the user rests or waits armed, though it removes what  *)
(* it lists from the maps it lists them from (match_engine.go:440, 449).      *)
THEOREM CancelAllCompleteAlways == FreshIDs => (Spec => CancelAllComplete)
<1> SUFFICES ASSUME FreshIDs PROVE Spec => CancelAllComplete
  OBVIOUS
<1>1. ASSUME Ready, CancelsAll, [Next]_vars, Cancels, stack' = <<>>
      PROVE  \A r \in Resting \cup ArmedOrders : order[r].user # Head(stack).user
  <2> DEFINE f == Head(stack)
  <2>1. Orderly /\ IInv /\ BookKept /\ stack # <<>> /\ f.op = "cancel" /\ ~ Idle
    BY <1>1 DEF Ready, Orderly, Cancels, Idle
  <2>2. Tail(stack) \in Seq(Frame(order))
    BY <2>1, HeadTyped
  <2>3. EndCancel
    <3>1. ~ CancelNext
      <4>1. \A g : <<g>> \o Tail(stack) # <<>>
        BY <2>2, PushParts
      <4>2. QED
        BY <1>1, <4>1 DEF CancelNext
    <3>2. QED
      BY <1>1, <2>1, <3>1
         DEF Next, Step, Submit, Cancel, CancelAll, MatchStep, FinishMatch,
             FinishIceberg, VisitStop, EndRange, Pause, Resume, vars, Idle
  <2>4. f.todo = {} /\ f.map # "book"
    <3>1. \A g : <<g>> \o Tail(stack) # <<>>
      BY <2>2, PushParts
    <3>2. QED
      BY <1>1, <2>3, <3>1 DEF EndCancel
  <2>5. /\ \A id \in DOMAIN orderIndex : order[orderIndex[id]].user # f.user
        /\ \A id \in DOMAIN stopIndex : order[stopIndex[id]].user # f.user
    BY <1>1, <2>4 DEF CancelsAll
  <2>6. QED
    BY <2>1, <2>5, RestingIsHeld DEF ArmedOrders
<1>2. Init => CancelsAll
  BY DEF Init, CancelsAll, Cancels, Idle
<1>3. Ready /\ CancelsAll /\ [Next]_vars => CancelsAll'
  BY CancelsAllKeeps DEF Ready
<1>4. Spec => []Ready
  BY ReadyAlways
<1>5. QED
  BY <1>1, <1>2, <1>3, <1>4, PTL DEF CancelAllComplete, Spec, Cancels

-----------------------------------------------------------------------------
(* The volumes of the levels.                                               *)

\* The inductive invariant behind VolumeCovers.
Covered(s, p) ==
    /\ level[s][p].volume \in Int
    /\ level[s][p].volume >= Total(LeftIn(order), Queued(s, p))

VolumesKept == \A s \in Sides : \A p \in DOMAIN level[s] : Covered(s, p)

\* What one element adds to a total.
Part(f, S, k) == IF k \in S THEN f[k] ELSE 0

LEMMA TotalParts ==
    ASSUME NEW S, IsFiniteSet(S), NEW f, \A x \in S : f[x] \in Int, NEW k
    PROVE  /\ Total(f, S) = Part(f, S, k) + Total(f, S \ {k})
           /\ Total(f, S \ {k}) \in Int /\ Part(f, S, k) \in Int
<1>1. IsFiniteSet(S \ {k}) /\ \A x \in S \ {k} : f[x] \in Int
  BY FS_Subset
<1>2. Total(f, S \ {k}) \in Int
  BY ONLY <1>1, TotalType
<1>3. CASE k \in S
  <2>1. Total(f, S) = f[k] + Total(f, S \ {k})
    BY <1>3, TotalLess
  <2>2. f[k] \in Int /\ Part(f, S, k) = f[k]
    BY <1>3 DEF Part
  <2>3. QED
    BY <1>2, <2>1, <2>2
<1>4. CASE k \notin S
  <2> DEFINE a == Total(f, S)
             b == Total(f, S \ {k})
  <2>1. S \ {k} = S
    BY <1>4
  <2>2. a = b /\ b \in Int /\ Part(f, S, k) = 0
    BY <1>2, <1>4, <2>1 DEF Part
  <2> HIDE DEF a, b
  <2>3. a = Part(f, S, k) + b /\ Part(f, S, k) \in Int
    BY ONLY <2>2
  <2>4. QED
    BY <2>2, <2>3 DEF a, b
<1>5. QED
  BY <1>3, <1>4

\* A level on which only k changes covers its queue still, if its volume does
\* not rise by less than what k adds.
LEMMA VolumeFollows ==
    ASSUME NEW Q, IsFiniteSet(Q), NEW f, \A x \in Q : f[x] \in Int,
           NEW R, IsFiniteSet(R), NEW g, \A x \in R : g[x] \in Int,
           NEW k, R \ {k} = Q \ {k}, \A x \in Q \ {k} : g[x] = f[x],
           NEW v \in Int, v >= Total(f, Q), NEW w \in Int,
           w - v >= Part(g, R, k) - Part(f, Q, k)
    PROVE  w >= Total(g, R)
<1>1. /\ Total(f, Q) = Part(f, Q, k) + Total(f, Q \ {k})
      /\ Total(f, Q \ {k}) \in Int /\ Part(f, Q, k) \in Int
  BY TotalParts
<1>2. /\ Total(g, R) = Part(g, R, k) + Total(g, R \ {k})
      /\ Total(g, R \ {k}) \in Int /\ Part(g, R, k) \in Int
  BY TotalParts
<1>3. Total(g, R \ {k}) = Total(f, Q \ {k})
  <2> DEFINE S == Q \ {k}
  <2>1. IsFiniteSet(S) /\ R \ {k} = S /\ \A x \in S : f[x] \in Int /\ f[x] = g[x]
    BY FS_Subset
  <2> HIDE DEF S
  <2>2. Total(f, S) = Total(g, S)
    BY ONLY <2>1, TotalSame
  <2>3. QED
    BY <2>1, <2>2 DEF S
<1>4. QED
  BY <1>1, <1>2, <1>3

\* The orders of a queue: they are held, and have something left.
QueuesHeld ==
    \A s \in Sides : \A p \in DOMAIN level[s] :
        /\ IsFiniteSet(Queued(s, p)) /\ Queued(s, p) \subseteq DOMAIN order
        /\ \A r \in Queued(s, p) :
              /\ r \in Held /\ order[r].side = s /\ order[r].price = p
              /\ LeftIn(order)[r] = RemainingQty(order[r])
              /\ RemainingQty(order[r]) \in Nat

LEMMA HeldQueues == Ready => QueuesHeld
<1> SUFFICES ASSUME Ready, NEW s \in Sides, NEW p \in DOMAIN level[s]
             PROVE  /\ IsFiniteSet(Queued(s, p)) /\ Queued(s, p) \subseteq DOMAIN order
                    /\ \A r \in Queued(s, p) :
                          /\ r \in Held /\ order[r].side = s /\ order[r].price = p
                          /\ LeftIn(order)[r] = RemainingQty(order[r])
                          /\ RemainingQty(order[r]) \in Nat
  BY DEF QueuesHeld
<1>1. IInv /\ BookKept /\ Roles
  BY DEF Ready, Orderly
<1>2. level[s][p].orders \in Seq(Nat) /\ Queued(s, p) \subseteq DOMAIN order
  BY <1>1, QueueTyped
<1>3. IsFiniteSet(Queued(s, p))
  BY <1>2, FiniteList DEF Queued
<1>4. ASSUME NEW r \in Queued(s, p)
      PROVE  /\ r \in Held /\ order[r].side = s /\ order[r].price = p
             /\ RemainingQty(order[r]) \in Nat
  <2>1. /\ order[r].side = s /\ order[r].price = p
        /\ order[r].id \in DOMAIN orderIndex /\ orderIndex[order[r].id] = r
    BY <1>1 DEF BookKept, LevelKept
  <2>2. r \in Held
    BY <2>1 DEF Held
  <2>3. RestsOpen(r)
    BY <1>1, <2>1 DEF Roles
  <2>4. order[r].qty \in Nat /\ order[r].filled \in Nat
    BY <1>1, <1>2, OrderTyped
  <2>5. RemainingQty(order[r]) \in Nat
    BY <2>3, <2>4 DEF RestsOpen, RemainingQty
  <2>6. QED
    BY <2>1, <2>2, <2>5
<1>5. QED
  BY <1>2, <1>3, <1>4 DEF LeftIn

LEMMA HeldQueuesAfter == Ready' => QueuesHeld'
BY HeldQueues, PTL

\* The step keeps what j has left.
KeepsLeft(j) == /\ order'[j].qty = order[j].qty
                /\ order'[j].filled = order[j].filled

\* A step that changes what is left of no order but k, and no level but the one
\* where k belongs.
Within(s, p, k) ==
    /\ \A j \in Held \ {k} : KeepsLeft(j)
    /\ \A t \in Sides : \A q \in DOMAIN level'[t] : t # s \/ q # p =>
          /\ q \in DOMAIN level[t] /\ level'[t][q] = level[t][q]
          /\ k \notin Queued(t, q)

LEMMA OneLevel ==
    ASSUME Ready, Ready', VolumesKept, NEW s \in Sides, NEW p, NEW k,
           Within(s, p, k),
           p \in DOMAIN level'[s] => Covered(s, p)'
    PROVE  VolumesKept'
<1> SUFFICES ASSUME NEW t \in Sides, NEW q \in DOMAIN level'[t], t # s \/ q # p
             PROVE  Covered(t, q)'
  BY DEF VolumesKept
<1>1. QueuesHeld /\ QueuesHeld'
  BY HeldQueues, HeldQueuesAfter
<1>2. /\ q \in DOMAIN level[t] /\ level'[t][q] = level[t][q]
      /\ k \notin Queued(t, q) /\ Queued(t, q)' = Queued(t, q)
      /\ \A j \in Held \ {k} : KeepsLeft(j)
  BY DEF Queued, Within
<1> DEFINE Q == Queued(t, q)
           f == LeftIn(order)
           g == LeftIn(order')
<1>3. IsFiniteSet(Q) /\ \A r \in Q : f[r] \in Int /\ f[r] = RemainingQty(order[r]) /\ r \in Held
  BY <1>1, <1>2 DEF QueuesHeld
<1>4. \A r \in Q : g[r] = RemainingQty(order'[r])
  <2>1. \A r \in Queued(t, q)' : LeftIn(order')[r] = RemainingQty(order'[r])
    BY <1>1 DEF QueuesHeld
  <2>2. QED
    BY <1>2, <2>1
<1>5. \A r \in Q : f[r] \in Int /\ f[r] = g[r]
  BY <1>2, <1>3, <1>4 DEF KeepsLeft, RemainingQty
<1> HIDE DEF Q, f, g
<1>6. Total(f, Q) = Total(g, Q)
  BY ONLY <1>3, <1>5, TotalSame
<1>7. QED
  BY <1>2, <1>6 DEF VolumesKept, Covered, Q, f, g

\* Nothing happens to a level, or to what is left of a held order.
LEMMA LevelsStay ==
    ASSUME Ready, Ready', VolumesKept, UNCHANGED level,
           \A j \in Held : KeepsLeft(j)
    PROVE  VolumesKept'
<1>1. QueuesHeld /\ QueuesHeld'
  BY HeldQueues, HeldQueuesAfter
<1>2. SUFFICES ASSUME NEW s \in Sides, NEW p \in DOMAIN level[s]
               PROVE  Covered(s, p)'
  BY DEF VolumesKept
<1> DEFINE Q == Queued(s, p)
           f == LeftIn(order)
           g == LeftIn(order')
<1>3. Queued(s, p)' = Q /\ p \in DOMAIN level'[s] /\ level'[s][p] = level[s][p]
  BY DEF Queued
<1>4. IsFiniteSet(Q) /\ \A r \in Q : f[r] \in Int /\ f[r] = RemainingQty(order[r]) /\ r \in Held
  BY <1>1 DEF QueuesHeld
<1>5. \A r \in Q : g[r] = RemainingQty(order'[r])
  <2>1. \A r \in Queued(s, p)' : LeftIn(order')[r] = RemainingQty(order'[r])
    BY <1>1, <1>3 DEF QueuesHeld
  <2>2. QED
    BY <1>3, <2>1
<1>6. \A r \in Q : f[r] \in Int /\ f[r] = g[r]
  BY <1>4, <1>5 DEF KeepsLeft, RemainingQty
<1>7. level[s][p].volume \in Int /\ level[s][p].volume >= Total(f, Q)
  BY DEF VolumesKept, Covered
<1> HIDE DEF Q, f, g
<1>8. Total(f, Q) = Total(g, Q)
  BY ONLY <1>4, <1>6, TotalSame
<1>9. QED
  BY <1>3, <1>7, <1>8 DEF Covered, Q, f, g

\* What RemoveOrder does to the levels.
LEMMA RemoveLevels ==
    ASSUME IInv, BookKept, NEW id \in DOMAIN orderIndex, RemoveOrder(id)
    PROVE  LET r == orderIndex[id]
               s == order[r].side
               p == order[r].price
           IN  /\ r \in DOMAIN order /\ s \in Sides /\ p \in DOMAIN level[s]
               /\ r \in Queued(s, p)
               /\ \A t \in Sides : \A q \in DOMAIN level'[t] : t # s \/ q # p =>
                     q \in DOMAIN level[t] /\ level'[t][q] = level[t][q]
               /\ p \in DOMAIN level'[s] =>
                     /\ ToSet(level'[s][p].orders) = Queued(s, p) \ {r}
                     /\ level'[s][p].volume = level[s][p].volume - RemainingQty(order'[r])
<1> DEFINE r == orderIndex[id]
           o == order[r]
           s == o.side
           p == o.price
           old == level[s][p]
           rest == RemoveFirst(old.orders, r)
           left == LevelRemoveOrder(old, order', id)
<1>1. /\ r \in DOMAIN order /\ o.id = id /\ s \in Sides /\ p \in DOMAIN level[s]
      /\ r \in ToSet(old.orders) /\ r \in Queued(s, p)
      /\ id \in DOMAIN old.orderMap /\ old.orderMap[id] = r
  BY OrderTyped DEF BookKept, RestsAt, Queued
<1>2. old.orders \in Seq(Nat) /\ Increasing(old.orders)
  BY <1>1, QueueTyped DEF BookKept, LevelKept
<1>3. ToSet(rest) = ToSet(old.orders) \ {r}
  BY <1>1, <1>2, RemoveFirstIncreasing
<1>4. RemoveOrderInternal(id)
  BY <1>1 DEF RemoveOrder, Removable
<1>5. left.orders = rest /\ left.volume = old.volume - RemainingQty(order'[r])
  BY <1>1 DEF LevelRemoveOrder
<1>6. level' = [level EXCEPT ![s] = IF rest = <<>> THEN MapDelete(@, p)
                                    ELSE MapPut(@, p, left)]
  BY <1>4, <1>5 DEF RemoveOrderInternal
<1>7. DOMAIN level = Sides
  BY TypeParts DEF IInv, BookTyped
<1> HIDE DEF rest, left, o, s, p, r
<1>8. /\ \A t \in Sides : \A q \in DOMAIN level'[t] : t # s \/ q # p =>
            q \in DOMAIN level[t] /\ level'[t][q] = level[t][q]
      /\ p \in DOMAIN level'[s] => level'[s][p] = left
  <2>1. /\ \A x \in Sides \ {s} : level'[x] = level[x]
        /\ \A q \in DOMAIN level'[s] \ {p} :
              q \in DOMAIN level[s] /\ level'[s][q] = level[s][q]
        /\ p \in DOMAIN level'[s] => level'[s][p] = left
    BY <1>1, <1>6, <1>7 DEF MapDelete, MapPut
  <2>2. QED
    BY <2>1
<1>9. p \in DOMAIN level'[s] =>
         /\ ToSet(level'[s][p].orders) = Queued(s, p) \ {r}
         /\ level'[s][p].volume = level[s][p].volume - RemainingQty(order'[r])
  BY <1>3, <1>5, <1>8 DEF Queued
<1>10. QED
  BY <1>1, <1>8, <1>9 DEF o, s, p, r

\* What AddOrder does to the levels, when the order is the newest one.
LEMMA AddLevels ==
    ASSUME IInv, BookKept, NEW r, AddOrder(r), order'[r].side \in Sides
    PROVE  LET s == order'[r].side
               p == order'[r].price
               known == p \in DOMAIN level[s]
           IN  /\ \A t \in Sides : \A q \in DOMAIN level'[t] : t # s \/ q # p =>
                     q \in DOMAIN level[t] /\ level'[t][q] = level[t][q]
               /\ p \in DOMAIN level'[s]
               /\ ToSet(level'[s][p].orders) = (IF known THEN Queued(s, p) ELSE {}) \cup {r}
               /\ level'[s][p].volume =
                     (IF known THEN level[s][p].volume ELSE 0) + RemainingQty(order'[r])
<1> DEFINE o == order'[r]
           s == o.side
           p == o.price
           old == GetOrCreate(s, p)
           new == LevelAddOrder(old, o, r)
           known == p \in DOMAIN level[s]
<1>1. DOMAIN level = Sides /\ s \in Sides
  BY TypeParts DEF IInv, BookTyped
<1>2. level' = [level EXCEPT ![s] = MapPut(@, p, new)]
  BY DEF AddOrder
<1>3. new.orders = Append(old.orders, r) /\ new.volume = old.volume + RemainingQty(o)
  BY DEF LevelAddOrder
<1>4. /\ ToSet(old.orders) = IF known THEN Queued(s, p) ELSE {}
      /\ old.volume = IF known THEN level[s][p].volume ELSE 0
      /\ \E S : old.orders \in Seq(S)
  <2>1. CASE known
    <3>1. level[s][p].orders \in Seq(Nat)
      BY <1>1, <2>1, QueueTyped
    <3>2. QED
      BY <2>1, <3>1 DEF GetOrCreate, Queued
  <2>2. CASE ~ known
    <3>1. old.orders = <<>> /\ old.volume = 0
      BY <2>2 DEF GetOrCreate, NewPriceLevel
    <3>2. <<>> \in Seq({}) /\ ToSet(<<>>) = {}
      BY DEF ToSet
    <3>3. QED
      BY <2>2, <3>1, <3>2
  <2>3. QED
    BY <2>1, <2>2
<1> HIDE DEF old, new, known, o, s, p
<1>5. ToSet(new.orders) = ToSet(old.orders) \cup {r}
  <2>1. PICK S : old.orders \in Seq(S)
    BY <1>4
  <2>2. QED
    BY ONLY <1>3, <2>1, AppendSet
<1>6. /\ \A x \in Sides \ {s} : level'[x] = level[x]
      /\ DOMAIN level'[s] = DOMAIN level[s] \cup {p}
      /\ level'[s][p] = new
      /\ \A q \in DOMAIN level[s] \ {p} : level'[s][q] = level[s][q]
  BY <1>1, <1>2 DEF MapPut
<1>7. /\ \A t \in Sides : \A q \in DOMAIN level'[t] : t # s \/ q # p =>
            q \in DOMAIN level[t] /\ level'[t][q] = level[t][q]
      /\ p \in DOMAIN level'[s]
  BY <1>6
<1>8. ToSet(level'[s][p].orders) = (IF known THEN Queued(s, p) ELSE {}) \cup {r}
  BY <1>4, <1>5, <1>6 DEF Queued
<1>9. level'[s][p].volume =
         (IF known THEN level[s][p].volume ELSE 0) + RemainingQty(order'[r])
  BY <1>3, <1>4, <1>6 DEF o
<1>10. QED
  BY <1>7, <1>8, <1>9 DEF o, s, p, known

\* The level of the order that changes covers its queue still.
LEMMA LevelCovers ==
    ASSUME Ready', NEW s \in Sides, NEW p \in DOMAIN level'[s], NEW k,
           NEW Q \in SUBSET DOMAIN order, IsFiniteSet(Q),
           \A x \in Q : RemainingQty(order[x]) \in Int,
           NEW R, R = ToSet(level'[s][p].orders), R \ {k} = Q \ {k},
           \A x \in Q \ {k} : KeepsLeft(x),
           NEW v \in Int, v >= Total(LeftIn(order), Q),
           NEW w \in Int, w = level'[s][p].volume,
           w - v >= (IF k \in R THEN RemainingQty(order'[k]) ELSE 0)
                    - (IF k \in Q THEN RemainingQty(order[k]) ELSE 0)
    PROVE  Covered(s, p)'
<1> DEFINE f == LeftIn(order)
           g == LeftIn(order')
<1>1. QueuesHeld' /\ Queued(s, p)' = R
  BY HeldQueuesAfter DEF Queued
<1>2. /\ IsFiniteSet(R)
      /\ \A x \in R : g[x] = RemainingQty(order'[x]) /\ g[x] \in Int
  <2>1. /\ IsFiniteSet(Queued(s, p)')
        /\ \A x \in Queued(s, p)' : /\ LeftIn(order')[x] = RemainingQty(order'[x])
                                    /\ RemainingQty(order'[x]) \in Nat
    BY <1>1 DEF QueuesHeld
  <2>2. QED
    BY <1>1, <2>1
<1>3. \A x \in Q : f[x] = RemainingQty(order[x]) /\ f[x] \in Int
  BY DEF LeftIn
<1> HIDE DEF f, g
<1>4. \A x \in Q \ {k} : g[x] = f[x]
  BY <1>2, <1>3 DEF KeepsLeft, RemainingQty
<1>5. w - v >= Part(g, R, k) - Part(f, Q, k)
  <2>1. /\ Part(g, R, k) = IF k \in R THEN RemainingQty(order'[k]) ELSE 0
        /\ Part(f, Q, k) = IF k \in Q THEN RemainingQty(order[k]) ELSE 0
    BY <1>2, <1>3 DEF Part
  <2>2. QED
    BY <2>1
<1>6. w >= Total(g, R)
  <2>1. v >= Total(f, Q) /\ R \ {k} = Q \ {k} /\ v \in Int /\ w \in Int /\ IsFiniteSet(Q)
    BY DEF f
  <2>2. QED
    BY ONLY <1>2, <1>3, <1>4, <1>5, <2>1, VolumeFollows
<1>7. QED
  BY <1>1, <1>6 DEF Covered, g

\* An order leaves the book, with no more left than it had.
LEMMA RemoveCovers ==
    ASSUME Ready, Ready', VolumesKept, NEW id \in DOMAIN orderIndex, RemoveOrder(id),
           RemainingQty(order'[orderIndex[id]]) \in Int,
           RemainingQty(order'[orderIndex[id]]) <= RemainingQty(order[orderIndex[id]]),
           \A j \in Held \ {orderIndex[id]} : KeepsLeft(j)
    PROVE  VolumesKept'
<1> DEFINE k == orderIndex[id]
           s == order[k].side
           p == order[k].price
<1>1. QueuesHeld /\ IInv /\ BookKept
  BY HeldQueues DEF Ready, Orderly
<1>2. /\ s \in Sides /\ p \in DOMAIN level[s] /\ k \in Queued(s, p)
      /\ \A t \in Sides : \A q \in DOMAIN level'[t] : t # s \/ q # p =>
            q \in DOMAIN level[t] /\ level'[t][q] = level[t][q]
      /\ p \in DOMAIN level'[s] =>
            /\ ToSet(level'[s][p].orders) = Queued(s, p) \ {k}
            /\ level'[s][p].volume = level[s][p].volume - RemainingQty(order'[k])
  BY <1>1, RemoveLevels
<1>3. \A t \in Sides : \A q \in DOMAIN level[t] : t # s \/ q # p => k \notin Queued(t, q)
  BY <1>1 DEF QueuesHeld
<1>4. /\ RemainingQty(order'[k]) \in Int /\ RemainingQty(order'[k]) <= RemainingQty(order[k])
      /\ \A j \in Held \ {k} : KeepsLeft(j)
  OBVIOUS
<1>5. PICK x, y : x = s /\ y = p
  OBVIOUS
<1> HIDE DEF k, s, p
<1>6. ASSUME y \in DOMAIN level'[x] PROVE Covered(x, y)'
  <2> DEFINE Q == Queued(x, y)
             R == ToSet(level'[x][y].orders)
             v == level[x][y].volume
             w == level'[x][y].volume
  <2>1. /\ Q \in SUBSET DOMAIN order /\ IsFiniteSet(Q)
        /\ \A j \in Q : RemainingQty(order[j]) \in Int /\ j \in Held
    BY <1>1, <1>2, <1>5 DEF QueuesHeld
  <2>2. R = Q \ {k} /\ w = v - RemainingQty(order'[k]) /\ k \in Q
    BY <1>2, <1>5, <1>6
  <2>3. v \in Int /\ v >= Total(LeftIn(order), Q)
    BY <1>2, <1>5 DEF VolumesKept, Covered
  <2> HIDE DEF Q, R, v, w
  <2>4. R \ {k} = Q \ {k} /\ k \notin R /\ \A j \in Q \ {k} : KeepsLeft(j)
    BY <1>4, <2>1, <2>2
  <2>5. w \in Int /\ w - v >= 0 - RemainingQty(order[k])
    BY <1>4, <2>1, <2>2, <2>3
  <2>6. w - v >= (IF k \in R THEN RemainingQty(order'[k]) ELSE 0)
                 - (IF k \in Q THEN RemainingQty(order[k]) ELSE 0)
    BY <2>2, <2>4, <2>5
  <2>7. R = ToSet(level'[x][y].orders) /\ w = level'[x][y].volume
        /\ x \in Sides /\ y \in DOMAIN level'[x] /\ Ready'
    BY <1>2, <1>5, <1>6 DEF R, w
  <2>8. QED
    BY ONLY <2>1, <2>3, <2>4, <2>5, <2>6, <2>7, LevelCovers
<1>7. Within(x, y, k)
  BY <1>2, <1>3, <1>4, <1>5 DEF Within
<1>8. x \in Sides /\ Ready /\ Ready' /\ VolumesKept
      /\ (y \in DOMAIN level'[x] => Covered(x, y)')
  BY <1>2, <1>5, <1>6
<1>9. QED
  BY ONLY <1>7, <1>8, OneLevel

\* A maker keeps something: its level loses what was executed.
LEMMA FillCovers ==
    ASSUME Ready, Ready', VolumesKept, NEW s \in Sides, NEW p \in DOMAIN level[s],
           NEW k \in Queued(s, p), NEW q \in Nat, UpdateVolume(s, p, q),
           RemainingQty(order'[k]) = RemainingQty(order[k]) - q,
           \A j \in Held \ {k} : KeepsLeft(j)
    PROVE  VolumesKept'
<1>1. QueuesHeld /\ IInv
  BY HeldQueues DEF Ready, Orderly
<1>2. DOMAIN level = Sides /\ DOMAIN level[s][p] = {"orders", "orderMap", "volume"}
  BY <1>1, TypeParts DEF IInv, BookTyped, BookSide
<1>3. /\ \A t \in Sides : DOMAIN level'[t] = DOMAIN level[t]
      /\ \A t \in Sides : \A x \in DOMAIN level[t] : t # s \/ x # p =>
            level'[t][x] = level[t][x]
      /\ level'[s][p].orders = level[s][p].orders
      /\ level'[s][p].volume = level[s][p].volume - q
  <2> DEFINE new == [level[s][p] EXCEPT !.volume = level[s][p].volume - q]
  <2>1. level' = [level EXCEPT ![s] = [level[s] EXCEPT ![p] = new]]
    BY DEF UpdateVolume
  <2>2. new.orders = level[s][p].orders /\ new.volume = level[s][p].volume - q
    BY <1>2
  <2> HIDE DEF new
  <2>3. QED
    BY <1>2, <2>1, <2>2
<1>4. \A t \in Sides : \A x \in DOMAIN level[t] : t # s \/ x # p => k \notin Queued(t, x)
  BY <1>1 DEF QueuesHeld
<1>5. Covered(s, p)'
  <2> DEFINE Q == Queued(s, p)
             R == ToSet(level'[s][p].orders)
             v == level[s][p].volume
             w == level'[s][p].volume
  <2>1. /\ Q \in SUBSET DOMAIN order /\ IsFiniteSet(Q) /\ k \in Q
        /\ \A j \in Q : RemainingQty(order[j]) \in Int /\ j \in Held
    BY <1>1 DEF QueuesHeld
  <2>2. R = Q /\ w = v - q
    BY <1>3 DEF Queued
  <2>3. v \in Int /\ v >= Total(LeftIn(order), Q)
    BY DEF VolumesKept, Covered
  <2> HIDE DEF Q, R, v, w
  <2>4. R \ {k} = Q \ {k} /\ \A j \in Q \ {k} : KeepsLeft(j)
    BY <2>1, <2>2
  <2>5. w \in Int /\ w - v >= RemainingQty(order'[k]) - RemainingQty(order[k])
    BY <2>1, <2>2, <2>3
  <2>6. w - v >= (IF k \in R THEN RemainingQty(order'[k]) ELSE 0)
                 - (IF k \in Q THEN RemainingQty(order[k]) ELSE 0)
    BY <2>1, <2>2, <2>5
  <2>7. R = ToSet(level'[s][p].orders) /\ w = level'[s][p].volume
        /\ s \in Sides /\ p \in DOMAIN level'[s] /\ Ready'
    BY <1>3 DEF R, w
  <2>8. QED
    BY ONLY <2>1, <2>3, <2>4, <2>5, <2>6, <2>7, LevelCovers
<1>6. Within(s, p, k)
  BY <1>3, <1>4 DEF Within
<1>7. s \in Sides /\ Ready /\ Ready' /\ VolumesKept
      /\ (p \in DOMAIN level'[s] => Covered(s, p)')
  BY <1>5
<1>8. QED
  BY ONLY <1>6, <1>7, OneLevel

\* An order that was not held joins the book.
LEMMA AddCovers ==
    ASSUME Ready, Ready', VolumesKept, NEW k, AddOrder(k), order'[k].side \in Sides,
           RemainingQty(order'[k]) \in Int, k \notin Held,
           \A j \in Held : KeepsLeft(j)
    PROVE  VolumesKept'
<1>1. QueuesHeld /\ IInv /\ BookKept
  BY HeldQueues DEF Ready, Orderly
<1>2. PICK s, p : s = order'[k].side /\ p = order'[k].price
  OBVIOUS
<1> DEFINE known == p \in DOMAIN level[s]
           Q == IF known THEN Queued(s, p) ELSE {}
           R == ToSet(level'[s][p].orders)
           v == IF known THEN level[s][p].volume ELSE 0
           w == level'[s][p].volume
<1>3. /\ \A t \in Sides : \A x \in DOMAIN level'[t] : t # s \/ x # p =>
            x \in DOMAIN level[t] /\ level'[t][x] = level[t][x]
      /\ p \in DOMAIN level'[s]
      /\ R = Q \cup {k}
      /\ w = v + RemainingQty(order'[k])
  BY <1>1, <1>2, AddLevels
<1>4. s \in Sides /\ \A t \in Sides : \A x \in DOMAIN level[t] : k \notin Queued(t, x)
  BY <1>1, <1>2 DEF QueuesHeld
<1>5. Covered(s, p)'
  <2>1. /\ Q \in SUBSET DOMAIN order /\ IsFiniteSet(Q) /\ k \notin Q
        /\ \A j \in Q : RemainingQty(order[j]) \in Int /\ j \in Held
        /\ v \in Int /\ v >= Total(LeftIn(order), Q)
    <3>1. CASE known
      BY <1>1, <1>4, <3>1 DEF QueuesHeld, VolumesKept, Covered
    <3>2. CASE ~ known
      <4>1. Q = {} /\ v = 0
        BY <3>2
      <4>2. Total(LeftIn(order), {}) = 0 /\ IsFiniteSet({})
        BY TotalNone, FS_EmptySet
      <4> HIDE DEF Q, v
      <4>3. QED
        BY <4>1, <4>2
    <3>3. QED
      BY <3>1, <3>2
  <2>2. R = ToSet(level'[s][p].orders) /\ w = level'[s][p].volume
        /\ s \in Sides /\ p \in DOMAIN level'[s] /\ Ready'
    BY <1>3, <1>4
  <2> HIDE DEF Q, R, v, w
  <2>3. R \ {k} = Q \ {k} /\ \A j \in Q \ {k} : KeepsLeft(j)
    BY <1>3, <2>1
  <2>4. w \in Int /\ w - v >= RemainingQty(order'[k]) - 0
    BY <1>3, <2>1
  <2>5. w - v >= (IF k \in R THEN RemainingQty(order'[k]) ELSE 0)
                 - (IF k \in Q THEN RemainingQty(order[k]) ELSE 0)
    BY <1>3, <2>1, <2>4
  <2>6. QED
    BY ONLY <2>1, <2>2, <2>3, <2>4, <2>5, LevelCovers
<1>6. Within(s, p, k)
  BY <1>3, <1>4 DEF Within
<1>7. s \in Sides /\ Ready /\ Ready' /\ VolumesKept
      /\ (p \in DOMAIN level'[s] => Covered(s, p)')
  BY <1>4, <1>5
<1>8. QED
  BY ONLY <1>6, <1>7, OneLevel

LEMMA SubmitCovers ==
    ASSUME FreshIDs, Ready, Ready', VolumesKept, SubmitKind
    PROVE  VolumesKept'
<1>1. PICK n, k : EnterMove(n, k)
  BY SubmitMoves
<1>2. \A j \in Held : j \in DOMAIN order
  BY LiveFacts DEF Ready, Live
<1>3. \A j \in Held : KeepsLeft(j)
  BY <1>1, <1>2 DEF EnterMove, KeepsLeft
<1>4. UNCHANGED level
  BY DEF SubmitKind, bookVars
<1>5. QED
  BY <1>3, <1>4, LevelsStay

LEMMA TriggerCovers ==
    ASSUME FreshIDs, Ready, Ready', VolumesKept, TriggerKind
    PROVE  VolumesKept'
<1>1. PICK s, n : TriggerMove(s, n)
  BY TriggerMoves
<1>2. \A j \in Held : j \in DOMAIN order
  BY LiveFacts DEF Ready, Live
<1>3. \A j \in Held : KeepsLeft(j)
  BY <1>1, <1>2 DEF TriggerMove, KeepsLeft
<1>4. UNCHANGED level
  BY DEF TriggerKind, bookVars
<1>5. QED
  BY <1>3, <1>4, LevelsStay

LEMMA IcebergCovers ==
    ASSUME FreshIDs, Ready, Ready', VolumesKept, IcebergKind
    PROVE  VolumesKept'
<1> DEFINE r == Head(stack).parent
<1>1. /\ IInv /\ Orderly /\ Roles /\ IcebergsWait /\ FinishIceberg
  BY DEF Ready, Orderly, IcebergKind
<1>2. /\ \A j \in DOMAIN order : j # r => order'[j] = order[j]
      /\ UNCHANGED level
  BY <1>1, IcebergView DEF bookVars
<1>3. order[r].type = "iceberg"
  BY <1>1, SliceBack
<1>4. \A j \in Held : j \in DOMAIN order /\ order[j].type = "limit"
  BY <1>1, IndexesTell DEF Roles, RestsOpen, Held
<1> HIDE DEF r
<1>5. \A j \in Held : KeepsLeft(j)
  BY <1>2, <1>3, <1>4 DEF KeepsLeft
<1>6. QED
  BY <1>2, <1>5, LevelsStay

LEMMA CancelCovers ==
    ASSUME FreshIDs, Ready, Ready', VolumesKept, CancelKind
    PROVE  VolumesKept'
<1>1. /\ IInv /\ Orderly /\ BookKept /\ order \in Seq(PricedOrder)
      /\ \A j \in Held : j \in DOMAIN order
  BY TypeParts, LiveFacts DEF Ready, Orderly, IInv, Live
<1>2. ASSUME NEW r \in DOMAIN order, order' = [order EXCEPT ![r].status = "CANCELED"]
      PROVE  \A j \in DOMAIN order : KeepsLeft(j)
  BY <1>1, <1>2, CancelView DEF Renewed, SameTerms, KeepsLeft
<1>3. ASSUME NEW id, Unbooks(id) PROVE VolumesKept'
  <2> DEFINE r == orderIndex[id]
  <2>1. /\ id \in DOMAIN orderIndex /\ RemoveOrder(id)
        /\ order' = [order EXCEPT ![r].status = "CANCELED"]
    BY <1>3 DEF Unbooks
  <2>2. r \in DOMAIN order
    BY <1>1, <2>1, IndexesTell
  <2>3. \A j \in DOMAIN order : KeepsLeft(j)
    BY <1>2, <2>1, <2>2
  <2>4. order[r].qty \in Nat /\ order[r].filled \in Nat
    BY <1>1, <2>2, OrderTyped
  <2>5. /\ RemainingQty(order'[r]) = RemainingQty(order[r])
        /\ RemainingQty(order[r]) \in Int
    BY <2>2, <2>3, <2>4 DEF KeepsLeft, RemainingQty
  <2>6. RemainingQty(order'[r]) \in Int
        /\ RemainingQty(order'[r]) <= RemainingQty(order[r])
    BY <2>5
  <2>7. \A j \in Held \ {r} : KeepsLeft(j)
    BY <1>1, <2>3
  <2>8. QED
    BY ONLY Ready, Ready', VolumesKept, <2>1, <2>6, <2>7, RemoveCovers
<1>4. ASSUME NEW id, Disarms(id) PROVE VolumesKept'
  <2> DEFINE r == stopIndex[id]
  <2>1. /\ id \in DOMAIN stopIndex /\ UNCHANGED level
        /\ order' = [order EXCEPT ![r].status = "CANCELED"]
    BY <1>4 DEF Disarms
  <2>2. r \in DOMAIN order
    BY <1>1, <2>1, IndexesTell
  <2>3. \A j \in Held : KeepsLeft(j)
    BY <1>1, <1>2, <2>1, <2>2
  <2>4. QED
    BY <2>1, <2>3, LevelsStay
<1>5. QED
  BY <1>3, <1>4 DEF CancelKind

LEMMA TradeCovers ==
    ASSUME FreshIDs, Ready, Ready', VolumesKept, TradeKind
    PROVE  VolumesKept'
<1>1. PICK maker, q : TradeWith(maker, q)
  BY DEF TradeKind
<1> DEFINE s == order[maker].side
           p == order[maker].price
           id == order[maker].id
           left == RemainingQty(order[maker])
<1>2. /\ IInv /\ Orderly /\ BookKept
      /\ \A j \in Held : j \in DOMAIN order
  BY LiveFacts DEF Ready, Orderly, Live
<1>3. /\ maker \in DOMAIN order /\ s \in Sides /\ p \in DOMAIN level[s]
      /\ id \in DOMAIN orderIndex /\ orderIndex[id] = maker
      /\ q \in Nat /\ q <= left
      /\ \/ q = left /\ RemoveOrder(id)
         \/ q < left /\ UpdateVolume(s, p, q)
  BY <1>1 DEF TradeWith
<1>4. /\ Grows(order, order')
      /\ \A j \in DOMAIN order :
            order'[j].filled = IF j = maker THEN order[j].filled + q ELSE order[j].filled
  BY <1>1, <1>2, TradeTells
<1>5. \A j \in DOMAIN order : order'[j].qty = order[j].qty
  BY <1>4 DEF Grows, SameTerms
<1>6. \A j \in Held \ {maker} : KeepsLeft(j)
  BY <1>2, <1>4, <1>5 DEF KeepsLeft
<1>7. RemainingQty(order'[maker]) = left - q /\ left \in Int
  <2>1. order[maker].qty \in Nat /\ order[maker].filled \in Nat
    BY <1>2, <1>3, OrderTyped
  <2>2. /\ order'[maker].qty = order[maker].qty
        /\ order'[maker].filled = order[maker].filled + q
    BY <1>3, <1>4, <1>5
  <2>3. QED
    BY <1>3, <2>1, <2>2 DEF RemainingQty
<1>8. maker \in Queued(s, p)
  BY <1>2, <1>3 DEF BookKept, RestsAt
<1>9. PICK x, y, i : x = s /\ y = p /\ i = id
  OBVIOUS
<1> HIDE DEF s, p, id
<1>10. CASE RemoveOrder(i)
  <2>1. /\ i \in DOMAIN orderIndex /\ orderIndex[i] = maker /\ RemoveOrder(i)
        /\ RemainingQty(order'[maker]) \in Int
        /\ RemainingQty(order'[maker]) <= RemainingQty(order[maker])
    BY <1>3, <1>7, <1>9, <1>10
  <2>2. QED
    BY ONLY Ready, Ready', VolumesKept, <1>6, <2>1, RemoveCovers
<1>11. CASE UpdateVolume(x, y, q)
  <2>1. /\ x \in Sides /\ y \in DOMAIN level[x] /\ maker \in Queued(x, y)
        /\ q \in Nat /\ UpdateVolume(x, y, q)
        /\ RemainingQty(order'[maker]) = RemainingQty(order[maker]) - q
    BY <1>3, <1>7, <1>8, <1>9, <1>11
  <2>2. QED
    BY ONLY Ready, Ready', VolumesKept, <1>6, <2>1, FillCovers
<1>12. QED
  BY <1>3, <1>9, <1>10, <1>11

LEMMA SettleCovers ==
    ASSUME FreshIDs, Ready, Ready', VolumesKept, SettleKind
    PROVE  VolumesKept'
<1>1. PICK t, n, rem : t = Head(stack).taker /\ n = Len(order) + 1 /\ rem = Head(stack).rem
  OBVIOUS
<1> DEFINE o == order[t]
<1>2. /\ IInv /\ Orderly /\ TakerNew /\ BookKept /\ order \in Seq(PricedOrder)
      /\ \A j \in Held : j \in DOMAIN order
  BY TypeParts, LiveFacts DEF Ready, Orderly, IInv, Live
<1>3. /\ t \in DOMAIN order /\ rem \in Nat /\ rem <= o.qty /\ SettleTaker(t, rem)
      /\ t \notin Held
  <2>1. Matches /\ t \in Taker
    BY <1>1 DEF SettleKind, Taker
  <2>2. Held \cap Taker = {}
    BY LiveFacts DEF Ready
  <2>3. QED
    BY <1>1, <2>1, <2>2 DEF SettleKind
<1>4. n \notin DOMAIN order
  BY <1>1, <1>2
<1>5. /\ \A j \in DOMAIN order : j # t => order'[j] = order[j]
      /\ SameTerms(o, order'[t])
      /\ order'[t].filled = o.qty - rem
      /\ \/ /\ SameTerms([o EXCEPT !.qty = rem], order'[n])
            /\ order'[n].filled = 0 /\ AddOrder(n)
         \/ rem = o.qty /\ AddOrder(t)
         \/ UNCHANGED level
  BY <1>1, <1>2, <1>3, SettleView
<1>6. \A j \in Held : KeepsLeft(j)
  BY <1>2, <1>3, <1>5 DEF KeepsLeft
<1>7. /\ o \in Order /\ o.side \in Sides /\ o.qty \in Nat
  BY <1>2, <1>3, OrderTyped DEF PricedOrder
<1> HIDE DEF o
<1>8. CASE /\ SameTerms([o EXCEPT !.qty = rem], order'[n])
           /\ order'[n].filled = 0 /\ AddOrder(n)
  <2>1. order'[n].side = o.side /\ order'[n].qty = rem
    BY <1>7, <1>8 DEF SameTerms, Order
  <2>2. order'[n].side \in Sides /\ RemainingQty(order'[n]) \in Int /\ n \notin Held
    BY <1>2, <1>3, <1>4, <1>7, <1>8, <2>1 DEF RemainingQty
  <2>3. QED
    BY <1>6, <1>8, <2>2, AddCovers
<1>9. CASE rem = o.qty /\ AddOrder(t)
  <2>1. order'[t].side \in Sides /\ order'[t].qty = o.qty
    BY <1>5, <1>7 DEF SameTerms
  <2>2. RemainingQty(order'[t]) \in Int
    BY <1>3, <1>5, <1>7, <2>1 DEF RemainingQty
  <2>3. QED
    BY <1>3, <1>6, <1>9, <2>1, <2>2, AddCovers
<1>10. CASE UNCHANGED level
  BY <1>6, <1>10, LevelsStay
<1>11. QED
  BY <1>5, <1>8, <1>9, <1>10

LEMMA VolumesKeep ==
    ASSUME FreshIDs, Ready, VolumesKept, [Next]_vars
    PROVE  VolumesKept'
<1>1. Ready'
  BY ReadyKeeps
<1>2. CASE PassKind
  <2>1. UNCHANGED <<order, level>>
    BY <1>2 DEF PassKind
  <2>2. \A j \in Held : KeepsLeft(j)
    BY <2>1 DEF KeepsLeft
  <2>3. QED
    BY <1>1, <2>1, <2>2, LevelsStay
<1>3. StepKind
  BY Kinds DEF Ready
<1>4. QED
  BY <1>1, <1>2, <1>3, SubmitCovers, TriggerCovers, TradeCovers, SettleCovers,
     IcebergCovers, CancelCovers DEF StepKind

(* Property VolumeCovers: the depth a client is told of a price never         *)
(* understates what rests there, through every fill, removal and addition    *)
(* (orderbook.go:32-61).  It may overstate it: a maker is removed when its    *)
(* filled quantity is already written, so RemoveOrder takes nothing off, and *)
(* what its last trade took stays in the volume (match_engine.go:207, :350). *)
THEOREM VolumeCoversAlways == FreshIDs => (Spec => []VolumeCovers)
<1> SUFFICES ASSUME FreshIDs PROVE Spec => []VolumeCovers
  OBVIOUS
<1>1. Init => VolumesKept
  BY DEF Init, BookInit, VolumesKept, EmptyMap
<1>2. Ready /\ VolumesKept /\ [Next]_vars => VolumesKept'
  BY VolumesKeep
<1>3. Ready /\ VolumesKept => VolumeCovers
  <2> SUFFICES ASSUME Ready, VolumesKept, NEW s \in Sides, NEW p \in DOMAIN level[s]
               PROVE  level[s][p].volume >= LeftOf(Queued(s, p))
    BY DEF VolumeCovers
  <2>1. /\ IsFiniteSet(Queued(s, p)) /\ Queued(s, p) \in SUBSET DOMAIN order
        /\ \A r \in Queued(s, p) : RemainingQty(order[r]) \in Int
    BY HeldQueues DEF QueuesHeld
  <2>2. LeftOf(Queued(s, p)) = Total(LeftIn(order), Queued(s, p))
    BY <2>1, LeftOfIs
  <2>3. QED
    BY <2>2 DEF VolumesKept, Covered
<1>4. Spec => []Ready
  BY ReadyAlways
<1>5. QED
  BY <1>1, <1>2, <1>3, <1>4, PTL DEF Spec

-----------------------------------------------------------------------------
(* A client that mirrors the depth of the book.                             *)

\* Depths of a book: for each side, volumes of some prices.
Depths == [Sides -> UNION {[D -> Int] : D \in SUBSET Int}]

Delta == [side : Sides, price : Int, qty : Int,
          action : {"ADD", "UPDATE", "DELETE"}]

\* The places in `deltas` that speak of price p on side s.
About(deltas, s, p) ==
    {i \in DOMAIN deltas : deltas[i].side = s /\ deltas[i].price = p}

\* Two depths agree on a price.
Same(a, b, s, p) ==
    /\ p \in DOMAIN a[s] <=> p \in DOMAIN b[s]
    /\ p \in DOMAIN a[s] => a[s][p] = b[s][p]

\* Depth b has at the price what delta d says.
Tells(d, b, s, p) ==
    IF d.action = "DELETE" THEN p \notin DOMAIN b[s]
    ELSE p \in DOMAIN b[s] /\ b[s][p] = d.qty

\* Place i is the last that speaks of the price, and b has what it says.
LastTells(deltas, b, s, p, i) ==
    /\ i \in About(deltas, s, p)
    /\ \A j \in About(deltas, s, p) : j <= i
    /\ Tells(deltas[i], b, s, p)

\* Seen from `start`, the deltas lead to what b has at the price: the last one
\* that speaks of it says so, or none does and `start` has it.
Leads(start, deltas, b, s, p) ==
    \/ About(deltas, s, p) = {} /\ Same(start, b, s, p)
    \/ \E i \in DOMAIN deltas : LastTells(deltas, b, s, p, i)

LeadsAll(start, deltas, b) == \A s \in Sides : \A p : Leads(start, deltas, b, s, p)

LEMMA DepthParts ==
    ASSUME NEW a
    PROVE  a \in Depths <=>
              /\ a = [s \in Sides |-> a[s]]
              /\ \A s \in Sides :
                    /\ a[s] = [p \in DOMAIN a[s] |-> a[s][p]]
                    /\ DOMAIN a[s] \subseteq Int
                    /\ \A p \in DOMAIN a[s] : a[s][p] \in Int
<1> DEFINE Shaped(f) == /\ f = [p \in DOMAIN f |-> f[p]]
                      /\ DOMAIN f \subseteq Int
                      /\ \A p \in DOMAIN f : f[p] \in Int
           F == UNION {[D -> Int] : D \in SUBSET Int}
<1>1. ASSUME NEW f \in F PROVE Shaped(f)
  <2>1. PICK D \in SUBSET Int : f \in [D -> Int]
    OBVIOUS
  <2>2. QED
    BY <2>1
<1>2. ASSUME NEW f, Shaped(f) PROVE f \in F
  <2>1. f \in [DOMAIN f -> Int] /\ DOMAIN f \in SUBSET Int
    BY <1>2
  <2>2. QED
    BY <2>1
<1>3. Depths = [Sides -> F]
  BY DEF Depths
<1> HIDE DEF F
<1>4. a \in Depths => a = [s \in Sides |-> a[s]] /\ \A s \in Sides : Shaped(a[s])
  BY <1>1, <1>3
<1>5. a = [s \in Sides |-> a[s]] /\ (\A s \in Sides : Shaped(a[s])) => a \in Depths
  <2> SUFFICES ASSUME a = [s \in Sides |-> a[s]], \A s \in Sides : Shaped(a[s])
               PROVE  a \in Depths
    OBVIOUS
  <2>1. \A s \in Sides : a[s] \in F
    BY <1>2
  <2>2. QED
    BY <1>3, <2>1
<1>6. QED
  BY <1>4, <1>5

\* Depths that agree on every price are the same.
LEMMA SameDepth ==
    ASSUME NEW a \in Depths, NEW b \in Depths,
           \A s \in Sides : \A p : Same(a, b, s, p)
    PROVE  a = b
<1>1. ASSUME NEW s \in Sides PROVE a[s] = b[s]
  <2>1. /\ a[s] = [p \in DOMAIN a[s] |-> a[s][p]]
        /\ b[s] = [p \in DOMAIN b[s] |-> b[s][p]]
    BY DepthParts
  <2>2. DOMAIN a[s] = DOMAIN b[s] /\ \A p \in DOMAIN a[s] : a[s][p] = b[s][p]
    BY DEF Same
  <2>3. QED
    BY <2>1, <2>2
<1>2. a = [s \in Sides |-> a[s]] /\ b = [s \in Sides |-> b[s]]
  BY DepthParts
<1>3. QED
  BY <1>1, <1>2

\* What a delta does to a depth.
LEMMA Applied ==
    ASSUME NEW a \in Depths, NEW d \in Delta
    PROVE  /\ ApplyDelta(a, d) \in Depths
           /\ Tells(d, ApplyDelta(a, d), d.side, d.price)
           /\ \A s \in Sides : \A p : s # d.side \/ p # d.price =>
                 Same(a, ApplyDelta(a, d), s, p)
<1> DEFINE b == ApplyDelta(a, d)
           new == IF d.action = "DELETE" THEN MapDelete(a[d.side], d.price)
                  ELSE MapPut(a[d.side], d.price, d.qty)
<1>1. a = [s \in Sides |-> a[s]] /\ d.side \in Sides /\ d.price \in Int /\ d.qty \in Int
  BY DepthParts DEF Delta
<1>2. b = [a EXCEPT ![d.side] = new]
  BY DEF ApplyDelta
<1>3. \A s \in Sides :
         /\ a[s] = [p \in DOMAIN a[s] |-> a[s][p]]
         /\ DOMAIN a[s] \subseteq Int
         /\ \A p \in DOMAIN a[s] : a[s][p] \in Int
  BY DepthParts
<1>4. /\ new = [p \in DOMAIN new |-> new[p]]
      /\ DOMAIN new \subseteq Int
      /\ \A p \in DOMAIN new : new[p] \in Int
      /\ d.price \in DOMAIN new <=> d.action # "DELETE"
      /\ d.action # "DELETE" => new[d.price] = d.qty
      /\ \A p : p # d.price =>
            /\ p \in DOMAIN new <=> p \in DOMAIN a[d.side]
            /\ p \in DOMAIN new => new[p] = a[d.side][p]
  <2>1. CASE d.action = "DELETE"
    BY <1>1, <1>3, <2>1 DEF MapDelete
  <2>2. CASE d.action # "DELETE"
    BY <1>1, <1>3, <2>2 DEF MapPut
  <2>3. QED
    BY <2>1, <2>2
<1> HIDE DEF new, b
<1>5. b = [s \in Sides |-> b[s]] /\ \A s \in Sides : b[s] = IF s = d.side THEN new ELSE a[s]
  <2>1. DOMAIN a = Sides
    BY <1>1
  <2>2. QED
    BY <1>1, <1>2, <2>1
<1>6. b \in Depths
  <2>1. \A s \in Sides :
           /\ b[s] = [p \in DOMAIN b[s] |-> b[s][p]]
           /\ DOMAIN b[s] \subseteq Int
           /\ \A p \in DOMAIN b[s] : b[s][p] \in Int
    BY <1>3, <1>4, <1>5
  <2>2. QED
    BY <1>5, <2>1, DepthParts
<1>7. Tells(d, b, d.side, d.price)
  BY <1>1, <1>4, <1>5 DEF Tells
<1>8. ASSUME NEW s \in Sides, NEW p, s # d.side \/ p # d.price PROVE Same(a, b, s, p)
  BY <1>4, <1>5, <1>8 DEF Same
<1>9. QED
  BY <1>6, <1>7, <1>8 DEF b

\* One more delta, and a depth that follows it.
LEMMA LeadsAppend ==
    ASSUME NEW S, NEW deltas \in Seq(S), NEW d \in S, NEW start, NEW a, NEW b,
           LeadsAll(start, deltas, a), Tells(d, b, d.side, d.price),
           \A s \in Sides : \A p : s # d.side \/ p # d.price => Same(a, b, s, p)
    PROVE  LeadsAll(start, Append(deltas, d), b)
<1> DEFINE more == Append(deltas, d)
           n == Len(deltas)
<1>1. /\ DOMAIN more = 1 .. n + 1 /\ DOMAIN deltas = 1 .. n /\ n \in Nat
      /\ more[n + 1] = d
      /\ \A i \in 1 .. n : more[i] = deltas[i]
  BY AppendProperties
<1> HIDE DEF more, n
<1>2. SUFFICES ASSUME NEW s \in Sides, NEW p PROVE Leads(start, more, b, s, p)
  BY DEF LeadsAll, more
<1>3. CASE s = d.side /\ p = d.price
  <2>1. n + 1 \in About(more, s, p) /\ \A j \in About(more, s, p) : j <= n + 1
    BY <1>1, <1>3 DEF About
  <2>2. LastTells(more, b, s, p, n + 1)
    BY <1>1, <1>3, <2>1 DEF LastTells
  <2>3. QED
    BY <1>1, <2>2 DEF Leads
<1>4. CASE s # d.side \/ p # d.price
  <2>1. About(more, s, p) = About(deltas, s, p)
    BY <1>1, <1>4 DEF About
  <2>2. Same(a, b, s, p) /\ Leads(start, deltas, a, s, p)
    BY <1>4 DEF LeadsAll
  <2>3. CASE About(deltas, s, p) = {} /\ Same(start, a, s, p)
    BY <2>1, <2>2, <2>3 DEF Leads, Same
  <2>4. ASSUME NEW i \in DOMAIN deltas, LastTells(deltas, a, s, p, i)
        PROVE  Leads(start, more, b, s, p)
    <3>1. LastTells(more, b, s, p, i) /\ i \in DOMAIN more
      BY <1>1, <2>1, <2>2, <2>4 DEF LastTells, Tells, Same
    <3>2. QED
      BY <3>1 DEF Leads
  <2>5. QED
    BY <2>2, <2>3, <2>4 DEF Leads
<1>5. QED
  BY <1>3, <1>4

\* The oldest delta is applied.
LEMMA LeadsTail ==
    ASSUME NEW deltas \in Seq(Delta), deltas # <<>>, NEW start \in Depths, NEW b,
           LeadsAll(start, deltas, b)
    PROVE  LeadsAll(ApplyDelta(start, Head(deltas)), Tail(deltas), b)
<1> DEFINE d == Head(deltas)
           rest == Tail(deltas)
           next == ApplyDelta(start, d)
           n == Len(deltas)
<1>1. /\ n \in Nat /\ n > 0 /\ DOMAIN deltas = 1 .. n /\ DOMAIN rest = 1 .. n - 1
      /\ d = deltas[1] /\ d \in Delta
      /\ \A i \in 1 .. n - 1 : rest[i] = deltas[i + 1]
  BY HeadTailProperties
<1>2. /\ Tells(d, next, d.side, d.price)
      /\ \A s \in Sides : \A p : s # d.side \/ p # d.price => Same(start, next, s, p)
  BY <1>1, Applied
<1> HIDE DEF d, rest, next, n
<1>3. SUFFICES ASSUME NEW s \in Sides, NEW p PROVE Leads(next, rest, b, s, p)
  BY DEF LeadsAll, d, rest, next
<1>4. \A i \in 1 .. n - 1 : i \in About(rest, s, p) <=> i + 1 \in About(deltas, s, p)
  BY <1>1 DEF About
<1>5. About(rest, s, p) \subseteq 1 .. n - 1 /\ About(deltas, s, p) \subseteq 1 .. n
  BY <1>1 DEF About
<1>6. Leads(start, deltas, b, s, p)
  BY DEF LeadsAll
<1>7. CASE About(deltas, s, p) = {} /\ Same(start, b, s, p)
  <2>1. About(rest, s, p) = {}
    BY <1>4, <1>5, <1>7
  <2>2. s # d.side \/ p # d.price
    BY <1>1, <1>7 DEF About
  <2>3. Same(start, next, s, p)
    BY <1>2, <2>2
  <2>4. QED
    BY <1>7, <2>1, <2>3 DEF Leads, Same
<1>8. ASSUME NEW i \in DOMAIN deltas, LastTells(deltas, b, s, p, i)
      PROVE  Leads(next, rest, b, s, p)
  <2>1. i \in About(deltas, s, p) /\ (\A j \in About(deltas, s, p) : j <= i)
        /\ Tells(deltas[i], b, s, p) /\ i \in 1 .. n
    BY <1>1, <1>8 DEF LastTells
  <2>2. CASE i = 1
    <3>1. About(rest, s, p) = {}
      <4>1. ASSUME NEW j \in About(rest, s, p) PROVE FALSE
        <5>1. j \in 1 .. n - 1 /\ j + 1 \in About(deltas, s, p)
          BY <1>4, <1>5
        <5>2. j + 1 <= 1
          BY <2>1, <2>2, <5>1
        <5>3. QED
          BY <1>1, <5>1, <5>2
      <4>2. QED
        BY <4>1
    <3>2. d.side = s /\ d.price = p
      BY <1>1, <2>1, <2>2 DEF About
    <3>3. Tells(d, next, s, p) /\ Tells(d, b, s, p)
      BY <1>1, <1>2, <2>1, <2>2, <3>2
    <3>4. Same(next, b, s, p)
      BY <3>3 DEF Tells, Same
    <3>5. QED
      BY <3>1, <3>4 DEF Leads
  <2>3. CASE i # 1
    <3>1. i - 1 \in 1 .. n - 1 /\ (i - 1) + 1 = i
      BY <1>1, <2>1, <2>3
    <3>2. rest[i - 1] = deltas[i] /\ i - 1 \in About(rest, s, p)
      BY <1>1, <1>4, <2>1, <3>1
    <3>3. ASSUME NEW j \in About(rest, s, p) PROVE j <= i - 1
      <4>1. j \in 1 .. n - 1 /\ j + 1 \in About(deltas, s, p)
        BY <1>4, <1>5
      <4>2. j + 1 <= i
        BY <2>1, <4>1
      <4>3. QED
        BY <1>1, <2>1, <4>1, <4>2
    <3>4. LastTells(rest, b, s, p, i - 1)
      BY <2>1, <3>2, <3>3 DEF LastTells
    <3>5. QED
      BY <1>1, <3>1, <3>4 DEF Leads
  <2>4. QED
    BY <2>2, <2>3
<1>9. QED
  BY <1>6, <1>7, <1>8 DEF Leads

\* The deltas lead to one depth only.
LEMMA LeadsOnce ==
    ASSUME NEW S, NEW deltas \in Seq(S), NEW start, NEW a, NEW b,
           LeadsAll(start, deltas, a), LeadsAll(start, deltas, b)
    PROVE  \A s \in Sides : \A p : Same(a, b, s, p)
<1> SUFFICES ASSUME NEW s \in Sides, NEW p PROVE Same(a, b, s, p)
  OBVIOUS
<1>1. Leads(start, deltas, a, s, p) /\ Leads(start, deltas, b, s, p)
  BY DEF LeadsAll
<1>2. CASE About(deltas, s, p) = {}
  BY <1>1, <1>2 DEF Leads, LastTells, Same
<1>3. CASE About(deltas, s, p) # {}
  <2>1. PICK i \in DOMAIN deltas : LastTells(deltas, a, s, p, i)
    BY <1>1, <1>3 DEF Leads
  <2>2. PICK j \in DOMAIN deltas : LastTells(deltas, b, s, p, j)
    BY <1>1, <1>3 DEF Leads
  <2>3. i <= j /\ j <= i
    BY <2>1, <2>2 DEF LastTells
  <2>4. i = j
    <3>1. i \in Nat /\ j \in Nat
      OBVIOUS
    <3>2. QED
      BY <2>3, <3>1
  <2>5. Tells(deltas[i], a, s, p) /\ Tells(deltas[i], b, s, p)
    BY <2>1, <2>2, <2>4 DEF LastTells
  <2>6. QED
    BY <2>5 DEF Tells, Same
<1>4. QED
  BY <1>2, <1>3

\* h is what the fold of Replay computes: h[1 .. n] is the depth after n deltas.
Replays(start, deltas, h) ==
    h = [S \in SUBSET DOMAIN deltas |->
            IF S = {} THEN start
            ELSE LET n == Max(S) IN ApplyDelta(h[S \ {n}], deltas[n])]

LEMMA ReplaysExist ==
    ASSUME NEW deltas \in Seq(Delta), NEW start \in Depths
    PROVE  \E h \in [SUBSET DOMAIN deltas -> Depths] : Replays(start, deltas, h)
<1> DEFINE D == DOMAIN deltas
           pick == [S \in SUBSET D |-> Max(S)]
           g == [x \in D \X Depths |-> ApplyDelta(x[2], deltas[x[1]])]
<1>1. D = 1 .. Len(deltas) /\ Len(deltas) \in Nat /\ \A i \in D : deltas[i] \in Delta
  BY ElementOfSeq
<1>2. IsFiniteSet(D)
  BY <1>1, FS_Interval
<1>3. \A S \in (SUBSET D) \ {{}} : pick[S] \in S
  <2> SUFFICES ASSUME NEW S \in SUBSET D, S # {} PROVE Max(S) \in S
    OBVIOUS
  <2>1. S \in SUBSET Nat /\ IsFiniteSet(S)
    BY <1>1, <1>2, FS_Subset
  <2>2. \E x \in S : \A y \in S : y <= x
    BY <2>1, GreatestExists
  <2>3. \E x \in S : \A y \in S : x >= y
    BY <2>1, <2>2
  <2>4. QED
    BY <2>3 DEF Max
<1>4. g \in [D \X Depths -> Depths]
  BY <1>1, Applied
<1>5. \A S \in SUBSET D : pick[S] = Max(S)
  OBVIOUS
<1>6. \A i \in D : \A a \in Depths : g[<<i, a>>] = ApplyDelta(a, deltas[i])
  OBVIOUS
<1> HIDE DEF pick, g
<1>7. PICK h \in [SUBSET D -> Depths] : Recursion(D, start, pick, g, h)
  BY <1>2, <1>3, <1>4, RecursionExists
<1>8. ASSUME NEW S \in SUBSET D, S # {}
      PROVE  h[S] = ApplyDelta(h[S \ {Max(S)}], deltas[Max(S)])
  <2>1. pick[S] \in D /\ h[S \ {pick[S]}] \in Depths
    BY <1>3, <1>7, <1>8
  <2>2. h[S] = g[<<pick[S], h[S \ {pick[S]}]>>]
    BY <1>7, <1>8 DEF Recursion
  <2>3. QED
    BY <1>5, <1>6, <2>1, <2>2
<1>9. h[{}] = start
  BY <1>7 DEF Recursion
<1>10. Replays(start, deltas, h)
  BY <1>7, <1>8, <1>9 DEF Replays
<1>11. QED
  BY <1>7, <1>10

\* Replaying deltas gives the depth they lead to.
LEMMA ReplayLeads ==
    ASSUME NEW deltas \in Seq(Delta), NEW start \in Depths
    PROVE  /\ Replay(start, deltas) \in Depths
           /\ LeadsAll(start, deltas, Replay(start, deltas))
<1> DEFINE h == CHOOSE h : Replays(start, deltas, h)
           L == Len(deltas)
<1>1. Replays(start, deltas, h)
  BY ReplaysExist
<1>2. Replay(start, deltas) = h[DOMAIN deltas]
  BY DEF Replay, FoldLeft, MapThenFoldSet, Replays
<1> HIDE DEF h
<1>3. L \in Nat /\ DOMAIN deltas = 1 .. L
  OBVIOUS
<1> HIDE DEF L
<1> DEFINE G(n) == h[1 .. n]
           Done(n) == n <= L => /\ G(n) \in Depths
                                /\ LeadsAll(start, SubSeq(deltas, 1, n), G(n))
           N == {n \in Nat : Done(n)}
<1>4. 0 \in N
  <2>1. 1 .. 0 = {} /\ h[{}] = start
    BY <1>1 DEF Replays
  <2>2. SubSeq(deltas, 1, 0) = <<>> /\ DOMAIN <<>> = {}
    BY SubSeqProperties
  <2>3. LeadsAll(start, SubSeq(deltas, 1, 0), start)
    BY <2>2 DEF LeadsAll, Leads, About, Same
  <2>4. QED
    BY <2>1, <2>3
<1>5. ASSUME NEW n \in N PROVE n + 1 \in N
  <2>1. SUFFICES ASSUME n + 1 <= L PROVE Done(n + 1)
    OBVIOUS
  <2>2. G(n) \in Depths /\ LeadsAll(start, SubSeq(deltas, 1, n), G(n))
    BY <1>3, <1>5, <2>1
  <2>3. /\ 1 .. n + 1 \in SUBSET DOMAIN deltas /\ 1 .. n + 1 # {}
        /\ Max(1 .. n + 1) = n + 1 /\ (1 .. n + 1) \ {n + 1} = 1 .. n
    <3>1. n + 1 \in 1 .. n + 1 /\ \A y \in 1 .. n + 1 : n + 1 >= y
      OBVIOUS
    <3>2. \A x \in 1 .. n + 1 : (\A y \in 1 .. n + 1 : x >= y) => x = n + 1
      BY <3>1
    <3>3. Max(1 .. n + 1) = n + 1
      BY <3>1, <3>2 DEF Max
    <3>4. /\ 1 .. n + 1 \in SUBSET DOMAIN deltas /\ 1 .. n + 1 # {}
          /\ (1 .. n + 1) \ {n + 1} = 1 .. n
      <4>1. n \in Nat /\ n + 1 <= L /\ DOMAIN deltas = 1 .. L
        BY <1>3, <2>1
      <4>2. 1 .. n + 1 \subseteq 1 .. L
        BY ONLY <1>3, <4>1
      <4>3. (1 .. n + 1) \ {n + 1} = 1 .. n
        BY ONLY <4>1
      <4>4. QED
        BY ONLY <3>1, <4>1, <4>2, <4>3
    <3>5. QED
      BY ONLY <3>3, <3>4
  <2>4. G(n + 1) = ApplyDelta(G(n), deltas[n + 1])
    BY <1>1, <2>3 DEF Replays
  <2>5. deltas[n + 1] \in Delta /\ n + 1 \in 1 .. L
    BY <1>3, <2>1
  <2>6. /\ SubSeq(deltas, 1, n) \in Seq(Delta)
        /\ SubSeq(deltas, 1, n + 1) = Append(SubSeq(deltas, 1, n), deltas[n + 1])
    BY <1>3, <2>1, <2>5
  <2> DEFINE b == ApplyDelta(G(n), deltas[n + 1])
             d == deltas[n + 1]
             old == SubSeq(deltas, 1, n)
             c == G(n)
  <2>7. /\ b \in Depths /\ Tells(d, b, d.side, d.price)
        /\ \A s \in Sides : \A p : s # d.side \/ p # d.price => Same(c, b, s, p)
    BY <2>2, <2>5, Applied
  <2>8. d \in Delta /\ old \in Seq(Delta) /\ LeadsAll(start, old, c)
    BY <2>2, <2>5, <2>6
  <2> HIDE DEF b, d, old, c
  <2>9. LeadsAll(start, Append(old, d), b)
    BY ONLY <2>7, <2>8, LeadsAppend
  <2>10. QED
    BY <2>4, <2>6, <2>7, <2>9 DEF b, d, old
<1>6. N = Nat
  BY <1>4, <1>5, FromZero
<1>7. Done(L)
  BY <1>3, <1>6
<1>8. SubSeq(deltas, 1, L) = deltas
  BY <1>3 DEF L
<1>9. G(L) \in Depths /\ LeadsAll(start, deltas, G(L))
  <2>1. L <= L
    BY <1>3
  <2>2. QED
    BY <1>7, <1>8, <2>1
<1>10. Replay(start, deltas) = G(L)
  BY <1>2, <1>3
<1> HIDE DEF G
<1>11. QED
  BY <1>9, <1>10

LevelTyped(l, heap) ==
    /\ DOMAIN l = {"orders", "orderMap", "volume"} /\ l.volume \in Int
    /\ \A id \in DOMAIN l.orderMap : l.orderMap[id] \in DOMAIN heap

LevelsTyped ==
    /\ DOMAIN level = Sides
    /\ \A s \in Sides :
          /\ level[s] = [p \in DOMAIN level[s] |-> level[s][p]]
          /\ DOMAIN level[s] \subseteq Int
          /\ \A p \in DOMAIN level[s] : LevelTyped(level[s][p], order)

FeedTyped ==
    /\ FeedTypeOK /\ LevelsTyped
    /\ replica \in Depths /\ inbox \in Seq(Delta) /\ deltaBuffer \in Seq(Delta)

\* The inductive invariant behind ReplicaConverges: what the client holds and
\* has yet to be told lead to the depth of the book.
FeedInv == FeedTyped /\ LeadsAll(replica, inbox \o deltaBuffer, Depth)

\* A delta is appended that tells of the one price where the depth changes.
ToldBy(d) ==
    /\ d \in Delta /\ deltaBuffer' = Append(deltaBuffer, d)
    /\ Tells(d, Depth', d.side, d.price)
    /\ \A s \in Sides : \A p : s # d.side \/ p # d.price => Same(Depth, Depth', s, p)

\* What a method of the book does to the depth: nothing, or what it tells.
BookTold == LevelsTyped' /\ (UNCHANGED <<level, deltaBuffer>> \/ \E d : ToldBy(d))

LEMMA DepthTyped == LevelsTyped => Depth \in Depths
<1> SUFFICES ASSUME LevelsTyped PROVE Depth \in Depths
  OBVIOUS
<1>1. \A s \in Sides : Depth[s] = [p \in DOMAIN level[s] |-> level[s][p].volume]
  BY DEF Depth
<1>2. /\ Depth = [s \in Sides |-> Depth[s]]
      /\ \A s \in Sides :
            /\ Depth[s] = [p \in DOMAIN Depth[s] |-> Depth[s][p]]
            /\ DOMAIN Depth[s] \subseteq Int
            /\ \A p \in DOMAIN Depth[s] : Depth[s][p] \in Int
  <2>1. Depth = [s \in Sides |-> Depth[s]]
    BY DEF Depth
  <2>2. QED
    BY <1>1, <2>1 DEF LevelsTyped, LevelTyped
<1>3. QED
  BY <1>2, DepthParts

\* One level changes, or goes, and a delta says so.
LEMMA LevelTold ==
    ASSUME LevelsTyped, DOMAIN order \subseteq DOMAIN order',
           NEW s \in Sides, NEW p \in Int, NEW gone \in BOOLEAN, NEW new,
           ~ gone => LevelTyped(new, order'),
           level' = [level EXCEPT ![s] = IF gone THEN MapDelete(level[s], p)
                                         ELSE MapPut(level[s], p, new)],
           NEW q \in Int, ~ gone => q = new.volume,
           NEW act \in {"ADD", "UPDATE", "DELETE"}, act = "DELETE" <=> gone,
           AddDelta(s, p, q, act)
    PROVE  BookTold
<1> DEFINE d == [side |-> s, price |-> p, qty |-> q, action |-> act]
           mine == IF gone THEN MapDelete(level[s], p) ELSE MapPut(level[s], p, new)
<1>1. /\ d \in Delta /\ deltaBuffer' = Append(deltaBuffer, d)
      /\ d.side = s /\ d.price = p /\ d.qty = q /\ d.action = act
  BY DEF Delta, AddDelta
<1>2. /\ mine = [x \in DOMAIN mine |-> mine[x]]
      /\ p \in DOMAIN mine <=> ~ gone
      /\ ~ gone => mine[p] = new
      /\ \A x : x # p => /\ x \in DOMAIN mine <=> x \in DOMAIN level[s]
                         /\ x \in DOMAIN mine => mine[x] = level[s][x]
  <2>1. CASE gone
    BY <2>1 DEF MapDelete
  <2>2. CASE ~ gone
    BY <2>2 DEF MapPut
  <2>3. QED
    BY <2>1, <2>2
<1> HIDE DEF d, mine
<1>3. /\ DOMAIN level' = Sides /\ level'[s] = mine
      /\ \A t \in Sides \ {s} : level'[t] = level[t]
  BY DEF LevelsTyped, mine
<1>4. \A t \in Sides : \A x \in DOMAIN level[t] : LevelTyped(level[t][x], order)
  BY DEF LevelsTyped
<1>5. ASSUME NEW l, LevelTyped(l, order) PROVE LevelTyped(l, order')
  BY <1>5 DEF LevelTyped
<1>6. LevelsTyped'
  <2>1. ASSUME NEW t \in Sides, NEW x \in DOMAIN level'[t]
        PROVE  x \in Int /\ LevelTyped(level'[t][x], order')
    <3>1. CASE t = s /\ x = p
      <4>1. level'[t][x] = new /\ ~ gone
        BY <1>2, <1>3, <2>1, <3>1
      <4>2. LevelTyped(new, order')
        BY <4>1
      <4>3. QED
        BY <3>1, <4>1, <4>2 DEF LevelTyped
    <3>2. CASE t # s \/ x # p
      <4>1. x \in DOMAIN level[t] /\ level'[t][x] = level[t][x]
        BY <1>2, <1>3, <2>1, <3>2
      <4>2. x \in Int /\ LevelTyped(level[t][x], order)
        BY <4>1 DEF LevelsTyped
      <4>3. QED
        BY <4>1, <4>2 DEF LevelTyped
    <3>3. QED
      BY <3>1, <3>2
  <2>2. ASSUME NEW t \in Sides PROVE level'[t] = [x \in DOMAIN level'[t] |-> level'[t][x]]
    BY <1>2, <1>3 DEF LevelsTyped
  <2>3. QED
    BY <1>3, <2>1, <2>2 DEF LevelsTyped
<1>7. PICK a, b : a = Depth /\ b = Depth'
  OBVIOUS
<1>8. ASSUME NEW t \in Sides
      PROVE  /\ DOMAIN a[t] = DOMAIN level[t] /\ DOMAIN b[t] = DOMAIN level'[t]
             /\ \A x \in DOMAIN level[t] : a[t][x] = level[t][x].volume
             /\ \A x \in DOMAIN level'[t] : b[t][x] = level'[t][x].volume
  BY <1>7 DEF Depth
<1>9. Tells(d, b, s, p)
  <2>1. DOMAIN b[s] = DOMAIN mine /\ \A x \in DOMAIN mine : b[s][x] = mine[x].volume
    BY <1>3, <1>8
  <2>2. ~ gone => d.qty = new.volume
    BY <1>1
  <2>3. QED
    BY <1>1, <1>2, <2>1, <2>2 DEF Tells
<1>10. ASSUME NEW t \in Sides, NEW x, t # s \/ x # p PROVE Same(a, b, t, x)
  <2>1. /\ x \in DOMAIN level'[t] <=> x \in DOMAIN level[t]
        /\ x \in DOMAIN level[t] => level'[t][x] = level[t][x]
    BY <1>2, <1>3, <1>10
  <2>2. QED
    BY <1>8, <2>1 DEF Same
<1>11. ToldBy(d)
  BY <1>1, <1>7, <1>9, <1>10 DEF ToldBy
<1>12. QED
  BY <1>6, <1>11 DEF BookTold

\* Nothing changes in the book; the heap has every order it had.
LEMMA NothingTold ==
    ASSUME LevelsTyped, DOMAIN order \subseteq DOMAIN order',
           UNCHANGED <<level, deltaBuffer>>
    PROVE  BookTold
<1>1. ASSUME NEW l, LevelTyped(l, order) PROVE LevelTyped(l, order')
  BY <1>1 DEF LevelTyped
<1>2. LevelsTyped'
  BY <1>1 DEF LevelsTyped, LevelTyped
<1>3. QED
  BY <1>2 DEF BookTold

LEMMA HeapNumbers ==
    ASSUME NEW heap \in Seq(Order), NEW r \in DOMAIN heap
    PROVE  /\ heap[r] \in Order /\ heap[r].side \in Sides
           /\ heap[r].price \in Int /\ RemainingQty(heap[r]) \in Int
           /\ heap[r].qty \in Nat /\ heap[r].filled \in Nat
<1>1. heap[r] \in Order
  BY ElementOfSeq
<1>2. /\ heap[r].side \in Sides /\ heap[r].price \in Prices \cup {NoPrice}
      /\ heap[r].qty \in Nat /\ heap[r].filled \in Nat
  BY <1>1 DEF Order
<1>3. heap[r].price \in Int
  <2>1. Prices \subseteq Int /\ NoPrice \in Int
    BY ONLY PricesAssumption DEF PricesAssumption, NoPrice
  <2>2. QED
    BY ONLY <1>2, <2>1
<1>4. RemainingQty(heap[r]) \in Int
  BY <1>2 DEF RemainingQty
<1>5. QED
  BY <1>1, <1>2, <1>3, <1>4

LEMMA RemoveTold ==
    ASSUME LevelsTyped, order \in Seq(Order), order' \in Seq(Order),
           DOMAIN order \subseteq DOMAIN order',
           NEW id \in DOMAIN orderIndex, orderIndex[id] \in DOMAIN order,
           RemoveOrder(id)
    PROVE  /\ BookTold
           /\ \/ orderIndex' = orderIndex \/ orderIndex' = MapDelete(orderIndex, id)
           /\ \A s \in Sides : DOMAIN level'[s] \subseteq DOMAIN level[s]
<1>1. CASE ~ Removable(id)
  BY <1>1, NothingTold DEF RemoveOrder
<1>2. CASE Removable(id) /\ RemoveOrderInternal(id)
  <2> DEFINE o == order[orderIndex[id]]
             s == o.side
             p == o.price
             old == level[s][p]
             rest == LevelRemoveOrder(old, order', id)
             gone == rest.orders = <<>>
             q == IF gone THEN 0 ELSE rest.volume
             act == IF gone THEN "DELETE" ELSE "UPDATE"
  <2>1. s \in Sides /\ p \in Int /\ p \in DOMAIN level[s] /\ id \in DOMAIN old.orderMap
    BY <1>2, HeapNumbers DEF Removable
  <2>2. LevelTyped(old, order)
    BY <2>1 DEF LevelsTyped
  <2>3. RemainingQty(order'[old.orderMap[id]]) \in Int
    <3>1. old.orderMap[id] \in DOMAIN order'
      BY <2>1, <2>2 DEF LevelTyped
    <3>2. QED
      BY <3>1, HeapNumbers
  <2>4. LevelTyped(rest, order')
    <3>1. /\ rest = [orders |-> RemoveFirst(old.orders, old.orderMap[id]),
                     orderMap |-> MapDelete(old.orderMap, id),
                     volume |-> old.volume - RemainingQty(order'[old.orderMap[id]])]
      BY DEF LevelRemoveOrder
    <3>2. /\ DOMAIN rest = {"orders", "orderMap", "volume"}
          /\ rest.orderMap = MapDelete(old.orderMap, id)
          /\ rest.volume = old.volume - RemainingQty(order'[old.orderMap[id]])
      BY <3>1
    <3> HIDE DEF rest, old
    <3>3. rest.volume \in Int
      BY <2>2, <2>3, <3>2 DEF LevelTyped
    <3>4. \A i \in DOMAIN rest.orderMap : rest.orderMap[i] \in DOMAIN order'
      BY <2>2, <3>2 DEF LevelTyped, MapDelete
    <3>5. QED
      BY <3>2, <3>3, <3>4 DEF LevelTyped
  <2>5. /\ level' = [level EXCEPT ![s] = IF gone THEN MapDelete(level[s], p)
                                         ELSE MapPut(level[s], p, rest)]
        /\ AddDelta(s, p, q, act)
        /\ orderIndex' = MapDelete(orderIndex, id)
    BY <1>2 DEF RemoveOrderInternal
  <2>6. /\ gone \in BOOLEAN /\ q \in Int /\ (~ gone => q = rest.volume)
        /\ act \in {"ADD", "UPDATE", "DELETE"} /\ (act = "DELETE" <=> gone)
    BY <2>4 DEF LevelTyped
  <2> HIDE DEF o, s, p, old, rest, gone, q, act
  <2>7. BookTold
    BY <2>1, <2>4, <2>5, <2>6, LevelTold
  <2>8. ASSUME NEW t \in Sides PROVE DOMAIN level'[t] \subseteq DOMAIN level[t]
    <3>1. DOMAIN level = Sides
      BY DEF LevelsTyped
    <3>2. level'[t] = IF t = s THEN IF gone THEN MapDelete(level[s], p)
                                    ELSE MapPut(level[s], p, rest)
                      ELSE level[t]
      BY <2>5, <3>1
    <3>3. QED
      BY <2>1, <3>2 DEF MapDelete, MapPut
  <2>9. QED
    BY <2>5, <2>7, <2>8
<1>3. QED
  BY <1>1, <1>2 DEF RemoveOrder

USE QuantitiesAssumption

LEMMA FeedParts ==
    ASSUME FeedTyped
    PROVE  /\ order \in Seq(Order) /\ LevelsTyped
           /\ \A id \in DOMAIN orderIndex :
                 /\ orderIndex[id] \in DOMAIN order
                 /\ order[orderIndex[id]] \in Order
           /\ orderIndex = [id \in DOMAIN orderIndex |-> orderIndex[id]]
           /\ \A s \in Sides : DOMAIN level[s] \subseteq Prices
           /\ replica \in Depths /\ inbox \in Seq(Delta) /\ deltaBuffer \in Seq(Delta)
<1>1. /\ order \in Seq(Order) /\ LevelsTyped
      /\ orderIndex \in [DOMAIN orderIndex -> DOMAIN order]
      /\ \A s \in Sides : DOMAIN level[s] \subseteq Prices
      /\ replica \in Depths /\ inbox \in Seq(Delta) /\ deltaBuffer \in Seq(Delta)
  BY DEF FeedTyped, FeedTypeOK
<1>2. \A r \in DOMAIN order : order[r] \in Order
  BY <1>1, ElementOfSeq
<1>3. QED
  BY <1>1, <1>2

\* The index names orders of the heap still.
IndexTyped == orderIndex \in [DOMAIN orderIndex -> DOMAIN order]

\* What a call of the book does for its client: the types hold on, and the
\* depth changes as it is told.
Calls == /\ order' \in Seq(Order) /\ IndexTyped' /\ BookTold
         /\ \A s \in Sides : DOMAIN level'[s] \subseteq Prices
         /\ UNCHANGED <<inbox, replica>>

LEMMA PlaceTold ==
    ASSUME FeedTyped, NEW id \in {"client"} \X ClientIDs, NEW user \in Users,
           NEW side \in Sides, NEW price \in Prices, NEW qty \in Quantities,
           Place(id, user, side, price, qty)
    PROVE  Calls
<1> DEFINE r == Len(order) + 1
           o == [id |-> id, user |-> user, side |-> side, type |-> "limit",
                 tif |-> "GTC", price |-> price, stop |-> NoPrice, qty |-> qty,
                 visible |-> 0, filled |-> 0, status |-> "NEW",
                 root |-> r, done |-> 0]
<1>1. order \in Seq(Order) /\ LevelsTyped /\ Len(order) \in Nat
  BY FeedParts
<1>2. o \in Order
  <2>1. id \in OrderIDs /\ price \in Prices \cup {NoPrice} /\ NoPrice \in Prices \cup {NoPrice}
    BY DEF OrderIDs
  <2>2. r \in Ref /\ qty \in Nat /\ side \in Sides
    BY <1>1 DEF Ref
  <2>3. "limit" \in Types /\ "GTC" \in TimesInForce /\ "NEW" \in Statuses
    BY DEF Types, TimesInForce, Statuses
  <2> HIDE DEF r
  <2>4. QED
    BY <2>1, <2>2, <2>3 DEF Order
<1>3. order' = Append(order, o) /\ AddOrder(Len(order')) /\ UNCHANGED <<inbox, replica>>
  BY DEF Place
<1>4. o.id = id /\ o.side = side /\ o.price = price /\ RemainingQty(o) \in Int
  BY DEF RemainingQty
<1> HIDE DEF o
<1>5. /\ order' \in Seq(Order) /\ Len(order') = r /\ order'[r] = o
      /\ DOMAIN order = 1 .. Len(order) /\ DOMAIN order' = 1 .. r
  BY <1>1, <1>2, <1>3, AppendProperties
<1>6. r \in DOMAIN order' /\ DOMAIN order \subseteq DOMAIN order'
  BY <1>1, <1>5
<1> HIDE DEF r
<1> DEFINE old == GetOrCreate(side, price)
           new == LevelAddOrder(old, o, r)
           act == IF old.volume = 0 THEN "ADD" ELSE "UPDATE"
<1>7. /\ level' = [level EXCEPT ![side] = MapPut(level[side], price, new)]
      /\ orderIndex' = MapPut(orderIndex, id, r)
      /\ AddDelta(side, price, new.volume, act)
  BY <1>3, <1>4, <1>5 DEF AddOrder
<1>8. LevelTyped(old, order)
  <2>1. CASE price \in DOMAIN level[side]
    BY <1>1, <2>1 DEF GetOrCreate, LevelsTyped
  <2>2. CASE price \notin DOMAIN level[side]
    BY <2>2 DEF GetOrCreate, NewPriceLevel, EmptyMap, LevelTyped
  <2>3. QED
    BY <2>1, <2>2
<1>9. LevelTyped(new, order')
  <2>1. /\ DOMAIN new = {"orders", "orderMap", "volume"}
        /\ new.orderMap = MapPut(old.orderMap, o.id, r)
        /\ new.volume = old.volume + RemainingQty(o)
    BY DEF LevelAddOrder
  <2> HIDE DEF new, old
  <2>2. new.volume \in Int
    BY <1>4, <1>8, <2>1 DEF LevelTyped
  <2>3. \A i \in DOMAIN new.orderMap : new.orderMap[i] \in DOMAIN order'
    BY <1>6, <1>8, <2>1 DEF LevelTyped, MapPut
  <2>4. QED
    BY <2>1, <2>2, <2>3 DEF LevelTyped
<1> HIDE DEF new, old
<1>10. BookTold
  <2>1. act \in {"ADD", "UPDATE", "DELETE"} /\ act # "DELETE" /\ new.volume \in Int
    BY <1>9 DEF LevelTyped
  <2>2. price \in Int
    OBVIOUS
  <2>3. /\ FALSE \in BOOLEAN
        /\ level' = [level EXCEPT ![side] = IF FALSE THEN MapDelete(level[side], price)
                                            ELSE MapPut(level[side], price, new)]
    BY <1>7
  <2> HIDE DEF act
  <2>4. PICK v, a : v = new.volume /\ a = act
    OBVIOUS
  <2>5. /\ a \in {"ADD", "UPDATE", "DELETE"} /\ (a = "DELETE" <=> FALSE)
        /\ v \in Int /\ AddDelta(side, price, v, a) /\ (~ FALSE => v = new.volume)
        /\ side \in Sides
    BY <1>7, <2>1, <2>4
  <2>6. ~ FALSE => LevelTyped(new, order')
    BY <1>9
  <2>7. QED
    BY ONLY <1>1, <1>6, <2>2, <2>3, <2>5, <2>6, LevelTold
<1>11. IndexTyped'
  <2>1. orderIndex \in [DOMAIN orderIndex -> DOMAIN order]
    BY DEF FeedTyped, FeedTypeOK
  <2>2. QED
    BY <1>6, <1>7, <2>1 DEF IndexTyped, MapPut
<1>12. ASSUME NEW s \in Sides PROVE DOMAIN level'[s] \subseteq Prices
  <2>1. DOMAIN level[s] \subseteq Prices /\ DOMAIN level = Sides
    BY <1>1, FeedParts DEF LevelsTyped
  <2>2. QED
    BY <1>7, <2>1 DEF MapPut
<1>13. QED
  BY <1>3, <1>5, <1>10, <1>11, <1>12 DEF Calls

LEMMA RemoveCalls ==
    ASSUME FeedTyped, order' \in Seq(Order), DOMAIN order' = DOMAIN order,
           NEW id \in DOMAIN orderIndex, RemoveOrder(id), UNCHANGED <<inbox, replica>>
    PROVE  Calls
<1>1. /\ LevelsTyped /\ order \in Seq(Order) /\ orderIndex[id] \in DOMAIN order
      /\ orderIndex \in [DOMAIN orderIndex -> DOMAIN order]
      /\ \A s \in Sides : DOMAIN level[s] \subseteq Prices
  BY FeedParts DEF FeedTyped, FeedTypeOK
<1>2. /\ BookTold
      /\ \/ orderIndex' = orderIndex \/ orderIndex' = MapDelete(orderIndex, id)
      /\ \A s \in Sides : DOMAIN level'[s] \subseteq DOMAIN level[s]
  BY <1>1, RemoveTold
<1>3. IndexTyped'
  BY <1>1, <1>2 DEF IndexTyped, MapDelete
<1>4. QED
  BY <1>1, <1>2, <1>3 DEF Calls

LEMMA FillTold ==
    ASSUME FeedTyped, NEW id \in DOMAIN orderIndex, Fill(id)
    PROVE  Calls
<1>1. /\ LevelsTyped /\ order \in Seq(Order) /\ orderIndex[id] \in DOMAIN order
      /\ orderIndex \in [DOMAIN orderIndex -> DOMAIN order]
      /\ \A s \in Sides : DOMAIN level[s] \subseteq Prices
  BY FeedParts DEF FeedTyped, FeedTypeOK
<1> DEFINE r == orderIndex[id]
<1>2. PICK q \in 1 .. RemainingQty(order[r]) : UpdateOrderVolume(id, q)
  BY DEF Fill
<1>3. UNCHANGED <<inbox, replica>>
  BY DEF Fill
<1> DEFINE after == [order[r] EXCEPT !.filled = @ + q]
           done == IsFilled(after)
           st == IF done THEN "FILLED" ELSE "PARTIALLY_FILLED"
           side == order[r].side
           p == order[r].price
<1>4. order' = [order EXCEPT ![r] = [after EXCEPT !.status = st]]
  BY <1>2 DEF UpdateOrderVolume
<1>5. /\ order[r] \in Order /\ side \in Sides /\ p \in Int /\ q \in Nat
      /\ order[r].filled \in Nat
  BY <1>1, HeapNumbers
<1>6. [after EXCEPT !.status = st] \in Order
  <2>1. st \in Statuses /\ order[r].filled + q \in Nat
    BY <1>5 DEF Statuses
  <2> HIDE DEF st, r
  <2>2. QED
    BY <1>5, <2>1 DEF Order
<1> DEFINE new == [after EXCEPT !.status = st]
<1>7. order' \in Seq(Order) /\ DOMAIN order' = DOMAIN order
  <2>1. r \in 1 .. Len(order)
    BY <1>1
  <2> HIDE DEF new, r
  <2>2. QED
    BY <1>1, <1>4, <1>6, <2>1, ExceptSeq DEF new
<1>8. CASE done /\ RemoveOrder(id)
  BY <1>3, <1>7, <1>8, RemoveCalls
<1>9. CASE /\ p \in DOMAIN level[side] /\ UpdateVolume(side, p, q)
           /\ AddDelta(side, p, level'[side][p].volume, "UPDATE")
           /\ UNCHANGED orderIndex
  <2> DEFINE old == level[side][p]
             l == [old EXCEPT !.volume = old.volume - q]
  <2>1. LevelTyped(old, order)
    BY <1>1, <1>5, <1>9 DEF LevelsTyped
  <2>2. DOMAIN l = DOMAIN old /\ l.orderMap = old.orderMap /\ l.volume = old.volume - q
    BY <2>1 DEF LevelTyped
  <2>3. level' = [level EXCEPT ![side] = [level[side] EXCEPT ![p] = l]]
    BY <1>9 DEF UpdateVolume
  <2> HIDE DEF l, old
  <2>4. LevelTyped(l, order')
    BY <1>5, <1>7, <2>1, <2>2 DEF LevelTyped
  <2>5. [level[side] EXCEPT ![p] = l] = MapPut(level[side], p, l)
    <3>1. level[side] = [x \in DOMAIN level[side] |-> level[side][x]]
      BY <1>1, <1>5 DEF LevelsTyped
    <3>2. QED
      BY <1>9, <3>1 DEF MapPut
  <2>6. DOMAIN level = Sides
    BY <1>1 DEF LevelsTyped
  <2> HIDE DEF side, p
  <2>7. /\ level' = [level EXCEPT ![side] = IF FALSE THEN MapDelete(level[side], p)
                                            ELSE MapPut(level[side], p, l)]
        /\ level'[side][p].volume = l.volume
    BY <1>5, <1>9, <2>3, <2>5, <2>6
  <2>8. l.volume \in Int /\ AddDelta(side, p, l.volume, "UPDATE") /\ FALSE \in BOOLEAN
        /\ DOMAIN order \subseteq DOMAIN order'
        /\ "UPDATE" \in {"ADD", "UPDATE", "DELETE"} /\ "UPDATE" # "DELETE"
    BY <1>7, <1>9, <2>4, <2>7 DEF LevelTyped
  <2>9. BookTold
    BY ONLY <1>1, <1>5, <2>4, <2>7, <2>8, LevelTold
  <2>10. \A s \in Sides : DOMAIN level'[s] = DOMAIN level[s]
    BY <1>9, <2>3, <2>6
  <2>11. IndexTyped'
    BY <1>1, <1>7, <1>9 DEF IndexTyped
  <2>12. QED
    BY <1>1, <1>3, <1>7, <2>9, <2>10, <2>11 DEF Calls
<1>10. CASE UNCHANGED <<level, orderIndex, deltaBuffer>>
  <2>1. BookTold
    BY <1>1, <1>7, <1>10, NothingTold
  <2>2. IndexTyped'
    BY <1>1, <1>7, <1>10 DEF IndexTyped
  <2>3. QED
    BY <1>1, <1>3, <1>7, <1>10, <2>1, <2>2 DEF Calls
<1>11. \/ done /\ RemoveOrder(id)
       \/ /\ p \in DOMAIN level[side] /\ UpdateVolume(side, p, q)
          /\ AddDelta(side, p, level'[side][p].volume, "UPDATE")
          /\ UNCHANGED orderIndex
       \/ UNCHANGED <<level, orderIndex, deltaBuffer>>
  BY <1>2 DEF UpdateOrderVolume
<1>12. QED
  BY <1>8, <1>9, <1>10, <1>11

\* A call, and what the client has yet to be told.
LEMMA CallsKeep ==
    ASSUME FeedInv, Calls
    PROVE  FeedInv'
<1>1. /\ FeedTyped /\ LevelsTyped
      /\ replica \in Depths /\ inbox \in Seq(Delta) /\ deltaBuffer \in Seq(Delta)
      /\ LeadsAll(replica, inbox \o deltaBuffer, Depth)
  BY FeedParts DEF FeedInv
<1>2. CASE UNCHANGED <<level, deltaBuffer>>
  <2>1. Depth' = Depth
    BY <1>2 DEF Depth
  <2>2. LeadsAll(replica, inbox \o deltaBuffer, Depth)'
    <3>1. UNCHANGED <<inbox, replica, deltaBuffer>>
      BY <1>2 DEF Calls
    <3>2. QED
      BY <1>1, <2>1, <3>1 DEF LeadsAll, Leads, About, LastTells
  <2>3. FeedTyped'
    BY <1>1, <1>2 DEF Calls, BookTold, FeedTyped, FeedTypeOK, IndexTyped
  <2>4. QED
    BY <2>2, <2>3 DEF FeedInv
<1>3. ASSUME NEW d, ToldBy(d) PROVE FeedInv'
  <2>1. /\ d \in Delta /\ deltaBuffer' = Append(deltaBuffer, d)
        /\ deltaBuffer' \in Seq(Delta)
    BY <1>1, <1>3 DEF ToldBy
  <2>2. PICK a, b, old, new, rep :
           /\ a = Depth /\ b = Depth' /\ rep = replica
           /\ old = inbox \o deltaBuffer /\ new = inbox' \o deltaBuffer'
    OBVIOUS
  <2>3. old \in Seq(Delta) /\ new = Append(old, d)
    <3>1. inbox' = inbox
      BY DEF Calls
    <3>2. QED
      BY <1>1, <2>1, <2>2, <3>1
  <2>4. /\ LeadsAll(rep, old, a) /\ Tells(d, b, d.side, d.price)
        /\ \A s \in Sides : \A p : s # d.side \/ p # d.price => Same(a, b, s, p)
    BY <1>1, <1>3, <2>2 DEF ToldBy
  <2>5. LeadsAll(rep, new, b)
    BY ONLY <2>1, <2>3, <2>4, LeadsAppend
  <2>6. rep = replica'
    BY <2>2 DEF Calls
  <2>7. FeedTyped'
    BY <1>1, <2>1 DEF Calls, BookTold, FeedTyped, FeedTypeOK, IndexTyped
  <2>8. QED
    BY <2>2, <2>5, <2>6, <2>7 DEF FeedInv
<1>4. QED
  BY <1>2, <1>3 DEF Calls, BookTold

\* The client's own steps.
LEMMA ClientKeeps ==
    ASSUME FeedInv, FlushDeltas \/ Receive \/ Snapshot \/ UNCHANGED feedVars
    PROVE  FeedInv'
<1>1. /\ FeedTyped /\ LevelsTyped
      /\ replica \in Depths /\ inbox \in Seq(Delta) /\ deltaBuffer \in Seq(Delta)
      /\ LeadsAll(replica, inbox \o deltaBuffer, Depth)
  BY FeedParts DEF FeedInv
<1>2. Depth' = Depth /\ UNCHANGED <<order, level, orderIndex>>
  BY DEF FlushDeltas, Receive, Snapshot, feedVars, bookVars, Depth
<1>3. LevelsTyped' /\ FeedTypeOK'
  BY <1>1, <1>2 DEF FeedTyped, FeedTypeOK, LevelsTyped, LevelTyped
<1>4. PICK a, rep, rep1, old, new :
         /\ a = Depth /\ rep = replica /\ rep1 = replica'
         /\ old = inbox \o deltaBuffer /\ new = inbox' \o deltaBuffer'
  OBVIOUS
<1>5. LeadsAll(rep, old, a) /\ rep \in Depths /\ a \in Depths /\ old \in Seq(Delta)
  BY <1>1, <1>4, DepthTyped
<1>6. /\ LeadsAll(rep1, new, a) /\ rep1 \in Depths
      /\ inbox' \in Seq(Delta) /\ deltaBuffer' \in Seq(Delta)
  <2>1. CASE FlushDeltas
    <3>1. inbox = <<>> /\ inbox' = deltaBuffer /\ deltaBuffer' = <<>> /\ replica' = replica
      BY <2>1 DEF FlushDeltas
    <3>2. new = old /\ rep1 = rep
      BY <1>1, <1>4, <3>1
    <3>3. QED
      BY <1>1, <1>5, <3>1, <3>2
  <2>2. CASE Receive
    <3>1. /\ inbox # <<>> /\ inbox' = Tail(inbox) /\ deltaBuffer' = deltaBuffer
          /\ replica' = ApplyDelta(replica, Head(inbox))
      BY <2>2 DEF Receive, bookVars
    <3>2. /\ old # <<>> /\ Head(old) = Head(inbox) /\ Tail(old) = new
          /\ Head(inbox) \in Delta /\ inbox' \in Seq(Delta)
      <4>1. inbox' \in Seq(Delta) /\ Head(inbox) \in Delta /\ Len(inbox) > 0
        BY <1>1, <3>1
      <4>2. old # <<>> /\ Head(old) = Head(inbox)
        BY <1>1, <1>4, <4>1
      <4>3. Tail(old) = new
        <5>1. old = <<Head(inbox)>> \o new
          <6>1. inbox = <<Head(inbox)>> \o Tail(inbox)
            BY <1>1, <3>1
          <6>2. QED
            BY <1>1, <1>4, <3>1, <4>1, <6>1
        <5>2. new \in Seq(Delta)
          BY <1>1, <1>4, <3>1, <4>1
        <5>3. QED
          BY <4>1, <5>1, <5>2
      <4>4. QED
        BY <4>1, <4>2, <4>3
    <3>3. LeadsAll(ApplyDelta(rep, Head(old)), Tail(old), a)
      BY ONLY <1>5, <3>2, LeadsTail
    <3>4. ApplyDelta(rep, Head(old)) \in Depths
      BY <1>5, <3>2, Applied
    <3>5. QED
      BY <1>1, <1>4, <3>1, <3>2, <3>3, <3>4
  <2>3. CASE Snapshot
    <3>1. rep1 = a /\ UNCHANGED <<inbox, deltaBuffer>>
      BY <1>4, <2>3 DEF Snapshot, bookVars
    <3>2. new = old
      BY <1>4, <3>1
    <3>3. LeadsAll(a, old, a)
      BY <1>5 DEF LeadsAll, Leads, Same
    <3>4. QED
      BY <1>1, <1>5, <3>1, <3>2, <3>3
  <2>4. CASE UNCHANGED feedVars
    <3>1. UNCHANGED <<inbox, deltaBuffer, replica>>
      BY <2>4 DEF feedVars, bookVars
    <3>2. new = old /\ rep1 = rep
      BY <1>4, <3>1
    <3>3. QED
      BY <1>1, <1>5, <3>1, <3>2
  <2>5. QED
    BY <2>1, <2>2, <2>3, <2>4
<1>7. LeadsAll(replica', inbox' \o deltaBuffer', Depth')
  BY <1>2, <1>4, <1>6
<1>8. FeedTyped'
  BY <1>3, <1>4, <1>6 DEF FeedTyped
<1>9. QED
  BY <1>7, <1>8 DEF FeedInv

LEMMA FeedKeeps == FeedInv /\ [FeedNext]_feedVars => FeedInv'
<1> SUFFICES ASSUME FeedInv, [FeedNext]_feedVars PROVE FeedInv'
  OBVIOUS
<1>1. FeedTyped
  BY DEF FeedInv
<1>2. ASSUME NEW id \in {"client"} \X ClientIDs, NEW user \in Users, NEW side \in Sides,
             NEW price \in Prices, NEW qty \in Quantities,
             Place(id, user, side, price, qty)
      PROVE  FeedInv'
  BY <1>1, <1>2, PlaceTold, CallsKeep
<1>3. ASSUME NEW id \in DOMAIN orderIndex, Withdraw(id) PROVE FeedInv'
  <2>1. order' = order /\ RemoveOrder(id) /\ UNCHANGED <<inbox, replica>>
    BY <1>3 DEF Withdraw
  <2>2. order' \in Seq(Order) /\ DOMAIN order' = DOMAIN order
    BY <1>1, <2>1, FeedParts
  <2>3. Calls
    BY <1>1, <2>1, <2>2, RemoveCalls
  <2>4. QED
    BY <2>3, CallsKeep
<1>4. ASSUME NEW id \in DOMAIN orderIndex, Fill(id) PROVE FeedInv'
  BY <1>1, <1>4, FillTold, CallsKeep
<1>5. QED
  BY <1>2, <1>3, <1>4, ClientKeeps DEF FeedNext

LEMMA FeedStarts == FeedInit => FeedInv
<1> SUFFICES ASSUME FeedInit PROVE FeedInv
  OBVIOUS
<1>1. /\ order = <<>> /\ level = [s \in Sides |-> EmptyMap] /\ orderIndex = EmptyMap
      /\ deltaBuffer = <<>> /\ inbox = <<>> /\ replica = Depth
  BY DEF FeedInit, BookInit
<1>2. \A s \in Sides : level[s] = EmptyMap /\ DOMAIN level[s] = {}
  BY <1>1 DEF EmptyMap
<1>3. LevelsTyped /\ FeedTypeOK
  BY <1>1, <1>2 DEF LevelsTyped, FeedTypeOK, EmptyMap
<1>4. FeedTyped
  BY <1>1, <1>3, DepthTyped DEF FeedTyped
<1>5. LeadsAll(replica, inbox \o deltaBuffer, Depth)
  <2>1. inbox \o deltaBuffer = <<>> /\ DOMAIN <<>> = {}
    BY <1>1
  <2>2. QED
    BY <1>1, <2>1 DEF LeadsAll, Leads, About, Same
<1>6. QED
  BY <1>4, <1>5 DEF FeedInv

(* Property ReplicaConverges: whenever a client takes its snapshots, and      *)
(* however late it applies what FlushDeltas handed out (orderbook.go:235-260, *)
(* :302-321), the deltas it has yet to apply take its copy to the book's depth: *)
(* a delta carries what the level's volume became, so that a delta older than *)
(* the snapshot is undone by a later one of the same price.                   *)
THEOREM ReplicaConvergesAlways == FeedSpec => []ReplicaConverges
<1>1. FeedInv => ReplicaConverges
  <2> SUFFICES ASSUME FeedInv PROVE ReplicaConverges
    OBVIOUS
  <2>1. PICK deltas, a, rep, b : /\ deltas = inbox \o deltaBuffer /\ a = Depth
                                 /\ rep = replica /\ b = Replay(rep, deltas)
    OBVIOUS
  <2>2. deltas \in Seq(Delta) /\ rep \in Depths /\ a \in Depths /\ LeadsAll(rep, deltas, a)
    BY <2>1, FeedParts, DepthTyped DEF FeedInv
  <2>3. b \in Depths /\ LeadsAll(rep, deltas, b)
    BY <2>1, <2>2, ReplayLeads
  <2>4. \A s \in Sides : \A p : Same(b, a, s, p)
    BY ONLY <2>2, <2>3, LeadsOnce
  <2>5. b = a
    BY <2>2, <2>3, <2>4, SameDepth
  <2>6. QED
    BY <2>1, <2>5 DEF ReplicaConverges
<1>2. QED
  BY <1>1, FeedStarts, FeedKeeps, PTL DEF FeedSpec
=============================================================================
