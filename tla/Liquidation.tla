---------------------------- MODULE Liquidation -----------------------------
(***************************************************************************)
(* The liquidation engine (pkg/liquidation/engine.go): a goroutine that      *)
(* looks at every position at each tick and puts an order for each one that  *)
(* has reached its liquidation price into a bounded channel, and the result  *)
(* of such an order, which goes to the insurance fund or to auto-deleveraging. *)
(*                                                                         *)
(* The mark price is read before the positions are, each under its own lock, *)
(* and the orders are sent after both locks are released.  Time is left out: *)
(* a tick may come at any moment.                                           *)
(***************************************************************************)
EXTENDS Positions, Sequences, FiniteSets

CONSTANTS
    LiquidationCapacity,    \* of liquidationChan, 10000 in the code
    ADLCapacity             \* of adlChan

ASSUME LiquidationAssumption ==
    LiquidationCapacity \in Nat \ {0} /\ ADLCapacity \in Nat \ {0}

VARIABLES
    mark,               \* markPrices of the contract, zero when there is none
    liquidationChan,    \* the channels
    adlChan,
    insuranceFund,      \* balance of the contract's fund
    check               \* the monitor: what it read and has not dealt with yet

liquidationVars == <<mark, liquidationChan, adlChan, insuranceFund, check>>

NoCheck == [step |-> "wait", price |-> 0, found |-> {}]

\* A clone of a position, and whose it is.
Clone == [key : Keys, pos : Position]

LiquidationOrder == [key : Keys, price : Prices, qty : Nat, loss : Int]

-----------------------------------------------------------------------------
(* The monitor: checkSymbolPositions.                                       *)

\* A tick: it reads the mark price, and stops if there is none.
ReadMark ==
    /\ check.step = "wait" /\ mark # 0
    /\ check' = [NoCheck EXCEPT !.step = "scan", !.price = mark]
    /\ UNCHANGED <<mark, liquidationChan, adlChan, insuranceFund>>

\* Mutant: only longs are looked at.
MutScanned(price) ==
    {c \in {[key |-> key, pos |-> position[key]] : key \in Keys} :
        c.key[2] = "LONG" /\ NeedsLiquidation(c.key[2], c.pos, price)}

\* GetPositionsToLiquidate.
Scanned(price) ==
    {c \in {[key |-> key, pos |-> position[key]] : key \in Keys} :
        NeedsLiquidation(c.key[2], c.pos, price)}

Scan ==
    /\ check.step = "scan"
    /\ check' = [check EXCEPT !.step = "send", !.found = Scanned(check.price)]
    /\ UNCHANGED <<mark, liquidationChan, adlChan, insuranceFund>>

OrderFor(c, price) ==
    [key |-> c.key, price |-> price, qty |-> c.pos.qty,
     loss |-> - ProfitAndLoss(c.key[2], c.pos.entry, price, c.pos.qty)]

\* liquidatePosition, for the clones in any order; a full channel drops it.
LiquidatePosition ==
    /\ check.step = "send"
    /\ \E c \in check.found :
          /\ check' = [check EXCEPT !.found = @ \ {c}]
          /\ liquidationChan' =
                IF Len(liquidationChan) < LiquidationCapacity
                THEN Append(liquidationChan, OrderFor(c, check.price))
                ELSE liquidationChan
    /\ UNCHANGED <<mark, adlChan, insuranceFund>>

EndCheck ==
    /\ check.step = "send" /\ check.found = {}
    /\ check' = NoCheck
    /\ UNCHANGED <<mark, liquidationChan, adlChan, insuranceFund>>

Monitor == ReadMark \/ Scan \/ LiquidatePosition \/ EndCheck

-----------------------------------------------------------------------------
(* Called by the contract engine and by readers of the channels.             *)

\* UpdateMarkPrice, its first half.
SetMark(price) ==
    /\ mark' = price
    /\ UNCHANGED <<liquidationChan, adlChan, insuranceFund, check>>

\* A reader of the channel: a subscription, or who executes the orders.
Receive ==
    /\ liquidationChan # <<>>
    /\ liquidationChan' = Tail(liquidationChan)
    /\ UNCHANGED <<mark, adlChan, insuranceFund, check>>

\* ProcessLiquidationResult of an order executed for qty at an average price.
LiquidationSucceeded(order, price, qty) ==
    LET remaining == ProfitAndLoss(order.key[2], order.price, price, qty)
    IN  /\ insuranceFund' = IF remaining > 0 THEN insuranceFund + remaining
                            ELSE insuranceFund
        /\ UNCHANGED <<mark, liquidationChan, adlChan, check>>

\* ProcessLiquidationResult of one that was not executed: triggerADL.
LiquidationFailed(order) ==
    /\ adlChan' = IF Len(adlChan) < ADLCapacity THEN Append(adlChan, order) ELSE adlChan
    /\ UNCHANGED <<mark, liquidationChan, insuranceFund, check>>

LiquidationInit ==
    /\ mark = 0
    /\ liquidationChan = <<>>
    /\ adlChan = <<>>
    /\ insuranceFund = 0
    /\ check = NoCheck

-----------------------------------------------------------------------------
(* Properties.                                                              *)

LiquidationTyped ==
    /\ mark \in Prices \cup {0}
    /\ liquidationChan \in Seq(LiquidationOrder)
    /\ Len(liquidationChan) <= LiquidationCapacity
    /\ adlChan \in Seq(LiquidationOrder)
    /\ Len(adlChan) <= ADLCapacity
    /\ insuranceFund \in Nat
    /\ check \in [step : {"wait", "scan", "send"}, price : Prices \cup {0},
                  found : SUBSET Clone]
    /\ check.step # "wait" => check.price # 0
=============================================================================
