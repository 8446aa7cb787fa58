----------------------------- MODULE Contracts ------------------------------
(***************************************************************************)
(* One contract as its goroutines see it: gRPC handlers that create orders,  *)
(* close positions and set take-profit and stop-loss prices                  *)
(* (internal/server/grpc/contract_server.go), the feed of mark prices, the   *)
(* monitor of module Liquidation, and who executes the liquidation orders,   *)
(* all on the contract engine (pkg/engine/contract_engine.go).              *)
(*                                                                         *)
(* The engine has no lock of its own: a call reads a position, matches and   *)
(* changes the position in three steps, and other calls run between them.    *)
(* The variable call holds what each goroutine is about to do.              *)
(*                                                                         *)
(* What the book has for an order is left open: any part of it may be         *)
(* executed, at any price the order accepts.  What rests in the book and is  *)
(* traded with later changes no position, since only the taker's is updated; *)
(* neither do the stop orders a mark price triggers.  Nothing pauses a       *)
(* contract engine: PauseSymbol reaches the spot engine of the same symbol.  *)
(***************************************************************************)
EXTENDS Liquidation, Functions

CONSTANTS
    Goroutines,
    Liquidators,    \* the goroutines that execute liquidation orders
    TradePrices,    \* the prices the book offers
    ContractForms,  \* the orders clients send
    TPSLPrices,     \* the pairs of prices clients set, zero for none
    MaxLeverage, MaxOrderQty,   \* of the contract
    MaxCalls        \* bound: how many calls are made

\* A user id, cut at its underscores: the keys of tpsl are cut there again.
ASSUME ContractAssumption ==
    /\ Liquidators \subseteq Goroutines
    /\ TradePrices \subseteq Nat
    /\ Users \subseteq Seq(STRING) \ {<<>>} /\ IsFiniteSet(Users)
    /\ TPSLPrices \subseteq [tp : Nat, sl : Nat]
    /\ MaxLeverage \in Nat /\ MaxOrderQty \in Nat /\ MaxCalls \in Nat

VARIABLES
    tpsl,       \* positionTPSL: zero prices where there is no entry
    call,       \* what each goroutine does next
    calls,      \* how many calls were made
    unsettled   \* history: what was executed to reduce a position and did not

contractVars == <<tpsl, call, calls, unsettled>>
vars == <<positionVars, liquidationVars, contractVars>>

OrderSides == {"buy", "sell"}
OrderTypes == {"limit", "market", "stop_loss", "take_profit", "iceberg"}

\* An order as a client sends it: nothing has looked at its numbers yet.
ContractForm ==
    [user : Users, side : OrderSides, positionSide : PositionSides \cup {"BOTH"},
     type : OrderTypes, price : Int, qty : Int, leverage : Int,
     reduceOnly : BOOLEAN, closePosition : BOOLEAN]

ASSUME FormsAssumption == ContractForms \subseteq ContractForm

\* An order on its way to the book.
ContractOrder ==
    [key : Keys, reduces : BOOLEAN, side : OrderSides, type : OrderTypes,
     price : Int, qty : Nat, leverage : Nat]

NoTPSL == [tp |-> 0, sl |-> 0]
TPSLName(key) == key[1] \o <<key[2]>>       \* userID_symbol_side
TPSLNames == {TPSLName(key) : key \in Keys}

Free == [step |-> "free"]

Begin(g, frame) ==
    /\ call[g] = Free /\ calls < MaxCalls
    /\ call' = [call EXCEPT ![g] = frame]
    /\ calls' = calls + 1

Continue(g, frame) ==
    /\ call' = [call EXCEPT ![g] = frame]
    /\ UNCHANGED calls

-----------------------------------------------------------------------------
(* ProcessContractOrder.                                                    *)

GetPositionSide(f) ==
    IF f.positionSide # "BOTH" THEN f.positionSide
    ELSE IF f.side = "buy" THEN "LONG" ELSE "SHORT"

GetOppositePositionSide(f) ==
    IF f.positionSide # "BOTH" THEN f.positionSide
    ELSE IF f.side = "buy" THEN "SHORT" ELSE "LONG"

\* validateContractOrder and checkMargin.
Valid(f) ==
    /\ f.leverage \in 1 .. MaxLeverage
    /\ f.qty \in 1 .. MaxOrderQty
    /\ f.type = "limit" => f.price > 0
    /\ ~ f.reduceOnly /\ f.type = "market" => mark # 0

\* The order as it goes to the book; empty when it is rejected.
Admission(f) ==
    LET reduces == f.reduceOnly \/ f.closePosition
        key == <<f.user, IF reduces THEN GetOppositePositionSide(f)
                         ELSE GetPositionSide(f)>>
        held == position[key].qty
        qty == IF f.reduceOnly THEN (IF f.qty > held THEN held ELSE f.qty)
               ELSE IF f.closePosition THEN held ELSE f.qty
    IN  IF Valid(f) /\ (reduces => held # 0)
        THEN {[key |-> key, reduces |-> reduces, side |-> f.side, type |-> f.type,
               price |-> f.price, qty |-> qty, leverage |-> f.leverage]}
        ELSE {}

\* What remains of a call when todo is what it has still to process.
Orders(todo) == IF todo = <<>> THEN Free ELSE [step |-> "orders", todo |-> todo]

Process(f, todo) ==
    IF Admission(f) = {} THEN Orders(todo)
    ELSE [step |-> "match", order |-> CHOOSE o \in Admission(f) : TRUE, todo |-> todo]

CreateContractOrder(g, f) ==
    /\ Begin(g, Process(f, <<>>))
    /\ UNCHANGED <<positionVars, liquidationVars, tpsl, unsettled>>

\* The next of the orders a mark price triggered.
ProcessTriggered(g) ==
    /\ call[g].step = "orders"
    /\ Continue(g, Process(Head(call[g].todo), Tail(call[g].todo)))
    /\ UNCHANGED <<positionVars, liquidationVars, tpsl, unsettled>>

canMatch(side, limit, price) ==
    IF side = "buy" THEN price <= limit ELSE price >= limit

\* A stop order is put aside, an iceberg's slice is a limit order.
Accepts(o, price) ==
    \/ o.type = "market"
    \/ o.type \in {"limit", "iceberg"} /\ canMatch(o.side, o.price, price)

\* MatchEngine.ProcessOrder, as far as the contract engine looks at its result.
Match(g) ==
    /\ call[g].step = "match"
    /\ LET o == call[g].order IN
       \/ Continue(g, Orders(call[g].todo))
       \/ \E qty \in 1 .. o.qty, price \in TradePrices :
             /\ Accepts(o, price)
             /\ Continue(g, [step |-> "settle", order |-> o, price |-> price,
                             qty |-> qty, todo |-> call[g].todo])
    /\ UNCHANGED <<positionVars, liquidationVars, tpsl, unsettled>>

\* A reduction the position manager refuses is not noticed.
Reduce(key, price, qty) ==
    /\ ReducePosition(key, price, qty)
    /\ unsettled' = IF Reducible(key, qty) THEN unsettled ELSE unsettled + qty

\* updatePositionAfterTrade.
Settle(g) ==
    /\ call[g].step = "settle"
    /\ LET f == call[g] IN
       IF f.order.reduces
       THEN Reduce(f.order.key, f.price, f.qty)
       ELSE /\ UpdatePosition(f.order.key, f.price, f.qty, f.order.leverage)
            /\ UNCHANGED unsettled
    /\ Continue(g, Orders(call[g].todo))
    /\ UNCHANGED <<liquidationVars, tpsl>>

-----------------------------------------------------------------------------
(* ClosePosition, which reads the mark price, then the quantity, and reduces *)
(* the position without a trade.                                            *)

ClosePosition(g, key) ==
    /\ mark # 0
    /\ Begin(g, [step |-> "close", key |-> key, price |-> mark])
    /\ UNCHANGED <<positionVars, liquidationVars, tpsl, unsettled>>

CloseAll(g) ==
    /\ call[g].step = "close"
    /\ LET f == call[g]
           held == position[f.key].qty
       IN  Continue(g, IF held = 0 THEN Free
                       ELSE [step |-> "reduce", key |-> f.key, price |-> f.price,
                             qty |-> held])
    /\ UNCHANGED <<positionVars, liquidationVars, tpsl, unsettled>>

CloseReduce(g) ==
    /\ call[g].step = "reduce"
    /\ ReducePosition(call[g].key, call[g].price, call[g].qty)
    /\ Continue(g, Free)
    /\ UNCHANGED <<liquidationVars, tpsl, unsettled>>

-----------------------------------------------------------------------------
(* Take-profit and stop-loss.                                               *)

\* SetPositionTPSL: the position is there,
SetPositionTPSL(g, key, prices) ==
    /\ position[key].qty # 0
    /\ Begin(g, [step |-> "validate", key |-> key, prices |-> prices])
    /\ UNCHANGED <<positionVars, liquidationVars, tpsl, unsettled>>

\* the prices are on the right sides of the mark price,
ValidateTPSL(g) ==
    /\ call[g].step = "validate"
    /\ LET f == call[g]
           above == IF f.key[2] = "LONG" THEN f.prices.tp ELSE f.prices.sl
           below == IF f.key[2] = "LONG" THEN f.prices.sl ELSE f.prices.tp
       IN  Continue(g, IF (above # 0 => above > mark) /\ (below # 0 => below < mark)
                       THEN [f EXCEPT !.step = "set"] ELSE Free)
    /\ UNCHANGED <<positionVars, liquidationVars, tpsl, unsettled>>

\* and replace what was set before.
StoreTPSL(g) ==
    /\ call[g].step = "set"
    /\ tpsl' = [tpsl EXCEPT ![TPSLName(call[g].key)] = call[g].prices]
    /\ Continue(g, Free)
    /\ UNCHANGED <<positionVars, liquidationVars, unsettled>>

CancelPositionTPSL(g, key) ==
    /\ tpsl' = [tpsl EXCEPT ![TPSLName(key)] = NoTPSL]
    /\ Begin(g, Free)
    /\ UNCHANGED <<positionVars, liquidationVars, unsettled>>

\* extractUserID and extractPositionKey: the position an entry is found to be of.
PositionOf(name) ==
    {key \in Keys : key[1] = <<Head(name)>> /\ <<key[2]>> = Tail(name)}

\* The position an entry belongs to is taken to be gone.
Gone(name) == \A key \in PositionOf(name) : position[key].qty = 0

\* Mutant: a short's prices are compared like a long's.
MutReached(key, price) ==
    LET set == tpsl[TPSLName(key)]
    IN  (set.tp # 0 /\ price >= set.tp) \/ (set.sl # 0 /\ price <= set.sl)

Reached(key, price) ==
    LET set == tpsl[TPSLName(key)]
    IN  IF key[2] = "LONG"
        THEN (set.tp # 0 /\ price >= set.tp) \/ (set.sl # 0 /\ price <= set.sl)
        ELSE (set.tp # 0 /\ price <= set.tp) \/ (set.sl # 0 /\ price >= set.sl)

\* Whether an entry is triggered.
Triggered(name, price) ==
    \E key \in PositionOf(name) : position[key].qty # 0 /\ Reached(key, price)

\* Mutant: the order gets no leverage.
MutCloseOrder(key) ==
    [user |-> key[1], side |-> IF key[2] = "LONG" THEN "sell" ELSE "buy",
     positionSide |-> key[2], type |-> "market", price |-> 0, qty |-> position[key].qty,
     leverage |-> 0, reduceOnly |-> TRUE, closePosition |-> TRUE]

CloseOrder(key) ==
    [user |-> key[1], side |-> IF key[2] = "LONG" THEN "sell" ELSE "buy",
     positionSide |-> key[2], type |-> "market", price |-> 0, qty |-> position[key].qty,
     leverage |-> position[key].leverage, reduceOnly |-> TRUE, closePosition |-> TRUE]

\* UpdateMarkPrice: the liquidation engine gets the price first,
UpdateMarkPrice(g, price) ==
    /\ SetMark(price)
    /\ Begin(g, [step |-> "mark", price |-> price])
    /\ UNCHANGED <<positionVars, tpsl, unsettled>>

\* then the positions,
MarkPositions(g) ==
    /\ call[g].step = "mark"
    /\ UpdatePositionMarks(call[g].price)
    /\ Continue(g, [call[g] EXCEPT !.step = "check"])
    /\ UNCHANGED <<liquidationVars, tpsl, unsettled>>

\* then CheckTPSLTriggers looks at the entries, in the order of a map.
CheckTPSLTriggers(g) ==
    /\ call[g].step = "check"
    /\ LET price == call[g].price
           due == {CloseOrder(key) :
                       key \in UNION {PositionOf(name) :
                           name \in {n \in TPSLNames : Triggered(n, price)}}}
       IN  /\ tpsl' = [name \in TPSLNames |->
                           IF Gone(name) \/ Triggered(name, price) THEN NoTPSL
                           ELSE tpsl[name]]
           /\ \E todo \in Bijection(1 .. Cardinality(due), due) : Continue(g, Orders(todo))
    /\ UNCHANGED <<positionVars, liquidationVars, unsettled>>

-----------------------------------------------------------------------------
(* Liquidation orders.                                                      *)

\* SubscribeLiquidations takes an order from the channel to show it.
SubscribeLiquidations ==
    /\ Receive
    /\ UNCHANGED <<positionVars, contractVars>>

\* Who executes the orders takes the next one.
TakeLiquidation(g) ==
    /\ Receive
    /\ Begin(g, [step |-> "liquidate", order |-> Head(liquidationChan)])
    /\ UNCHANGED <<positionVars, tpsl, unsettled>>

\* ProcessLiquidationOrder: a market order for the quantity that was seen,
MatchLiquidation(g) ==
    /\ call[g].step = "liquidate"
    /\ LET o == call[g].order IN
       \/ LiquidationFailed(o) /\ Continue(g, Free)
       \/ \E qty \in 1 .. o.qty, price \in TradePrices :
             /\ Continue(g, [step |-> "liquidated", order |-> o, price |-> price,
                             qty |-> qty])
             /\ UNCHANGED liquidationVars
    /\ UNCHANGED <<positionVars, tpsl, unsettled>>

\* whose result goes to the position and to the fund.
SettleLiquidation(g) ==
    /\ call[g].step = "liquidated"
    /\ Reduce(call[g].order.key, call[g].price, call[g].qty)
    /\ LiquidationSucceeded(call[g].order, call[g].price, call[g].qty)
    /\ Continue(g, Free)
    /\ UNCHANGED tpsl

-----------------------------------------------------------------------------

Init ==
    /\ PositionInit
    /\ LiquidationInit
    /\ tpsl = [name \in TPSLNames |-> NoTPSL]
    /\ call = [g \in Goroutines |-> Free]
    /\ calls = 0
    /\ unsettled = 0

Client(g) ==
    \/ \E f \in ContractForms : CreateContractOrder(g, f)
    \/ \E key \in Keys :
          \/ ClosePosition(g, key)
          \/ CancelPositionTPSL(g, key)
          \/ \E prices \in TPSLPrices : SetPositionTPSL(g, key, prices)
    \/ \E price \in Prices : UpdateMarkPrice(g, price)

Engine(g) ==
    \/ ProcessTriggered(g) \/ Match(g) \/ Settle(g)
    \/ CloseAll(g) \/ CloseReduce(g)
    \/ ValidateTPSL(g) \/ StoreTPSL(g)
    \/ MarkPositions(g) \/ CheckTPSLTriggers(g)

Liquidator(g) == TakeLiquidation(g) \/ MatchLiquidation(g) \/ SettleLiquidation(g)

MonitorStep == Monitor /\ UNCHANGED <<positionVars, contractVars>>

Next ==
    \/ \E g \in Goroutines : Client(g) \/ Engine(g)
    \/ \E g \in Liquidators : Liquidator(g)
    \/ MonitorStep
    \/ SubscribeLiquidations

\* The monitor's goroutine runs; nobody has to call the engine.
Spec == Init /\ [][Next]_vars /\ WF_vars(MonitorStep)

-----------------------------------------------------------------------------
(* Properties.                                                              *)

Frame ==
    {Free}
    \cup [step : {"orders"}, todo : Seq(ContractForm) \ {<<>>}]
    \cup [step : {"match"}, order : ContractOrder, todo : Seq(ContractForm)]
    \cup [step : {"settle"}, order : ContractOrder, price : TradePrices, qty : Nat,
          todo : Seq(ContractForm)]
    \cup [step : {"close"}, key : Keys, price : Prices]
    \cup [step : {"reduce"}, key : Keys, price : Prices, qty : Nat]
    \cup [step : {"validate", "set"}, key : Keys, prices : TPSLPrices]
    \cup [step : {"mark", "check"}, price : Prices]
    \cup [step : {"liquidate"}, order : LiquidationOrder]
    \cup [step : {"liquidated"}, order : LiquidationOrder, price : TradePrices, qty : Nat]

(* Whatever the calls in flight, no position's quantity becomes negative, no  *)
(* reduction works on a quantity that is not there, and no channel holds more *)
(* than its capacity.                                                       *)
TypeOK ==
    /\ PositionsTyped
    /\ LiquidationTyped
    /\ tpsl \in [TPSLNames -> [tp : Nat, sl : Nat]]
    /\ call \in [Goroutines -> Frame]
    /\ calls \in 0 .. MaxCalls
    /\ unsettled \in Nat

(* The monitor takes a position when its margin and its profit at the price   *)
(* the monitor read no longer cover the maintenance of its entry value, and  *)
(* takes no other, but for what two roundings make: the liquidation price of *)
(* the last change agrees with the margin of the last change                 *)
(* (position/manager.go:171-204, 270-294, README.md:212-219).               *)
(* CalculateMaintenanceMargin (liquidation/engine.go:246-248) takes            *)
(* maintenance at the mark price.  Against that the monitor errs towards       *)
(* taking a long that has lost and towards leaving a short that has lost: it *)
(* never spares such a long its order, nor takes such a short early.  The    *)
(* reverse of either is not so.                                             *)
LiquidationExact ==
    [][Scan => \A key \in Keys :
           LET side == key[2]
               pos == position[key]
               price == check.price
               taken == [key |-> key, pos |-> pos] \in check'.found
               atMark == CalculateMaintenanceMargin(pos, price)
           IN  /\ SurelyBelow(side, pos, price, EntryMaintenance(pos)) => taken
               /\ taken => PerhapsBelow(side, pos, price, EntryMaintenance(pos))
               /\ side = "LONG" /\ price <= pos.entry =>
                      (SurelyBelow(side, pos, price, atMark) => taken)
               /\ side = "SHORT" /\ price >= pos.entry =>
                      (taken => PerhapsBelow(side, pos, price, atMark))]_vars

\* What the position has left is no more than the maintenance of its entry value.
Underwater(key) ==
    /\ mark # 0
    /\ SurelyBelow(key[2], position[key], mark, EntryMaintenance(position[key]))

(* A position the mark price has brought to its documented liquidation price  *)
(* (README.md:212-219) gets an order, unless the price or the position        *)
(* changes first or the channel is full (liquidation/engine.go:84-153).      *)
UnderwaterQueued ==
    \A key \in Keys :
        Underwater(key) ~>
            \/ ~ Underwater(key)
            \/ \E i \in DOMAIN liquidationChan : liquidationChan[i].key = key
            \/ Len(liquidationChan) = LiquidationCapacity

\* A step leaves the entry of an open position alone, unless its user replaces
\* it or a mark price has reached it.
EntryStands(key) ==
    LET old == tpsl[TPSLName(key)]
        high == IF key[2] = "LONG" THEN old.tp ELSE old.sl
        low == IF key[2] = "LONG" THEN old.sl ELSE old.tp
    IN  \/ tpsl'[TPSLName(key)] = old
        \/ position[key].qty = 0
        \/ \E g \in Goroutines :
              \/ call[g].step = "set" /\ call'[g] = Free
              \/ call[g] = Free /\ calls' > calls
              \/ /\ call[g].step = "check" /\ call'[g] # call[g]
                 /\ \/ high # 0 /\ call[g].price >= high
                    \/ low # 0 /\ call[g].price <= low

(* A take-profit or stop-loss price of an open position goes away only when   *)
(* its user replaces it or when a mark price has reached it                  *)
(* (contract_engine.go:700-752).                                            *)
TPSLStands == [][\A key \in Keys : EntryStands(key)]_vars

(* When a take-profit or stop-loss price is reached and its entry deleted, the *)
(* order that closes the position is sent to the book, unless there is       *)
(* nothing left to close by then (README.md:240).                           *)
TriggeredExecutes ==
    [][\A g \in Goroutines :
           call[g].step = "orders" /\ call'[g] # call[g] =>
               LET f == Head(call[g].todo)
               IN  \/ position[<<f.user, f.positionSide>>].qty = 0
                   \/ call'[g].step = "match"]_vars

(* What is executed to reduce a position reduces it (contract_engine.go:271,  *)
(* 367).                                                                    *)
ReductionsSettle == unsettled = 0
=============================================================================
