----------------------------- MODULE Positions ------------------------------
(***************************************************************************)
(* The position manager (pkg/position/manager.go): for every user a long and *)
(* a short position of one contract.  UpdatePosition enlarges a position at  *)
(* the weighted average of its prices, ReducePosition realizes profit, both  *)
(* under the manager's lock and each followed by a new margin and a new      *)
(* liquidation price.  A position that was never opened is treated like one  *)
(* whose quantity is zero everywhere, and is one here.                      *)
(*                                                                         *)
(* Prices, quantities and margins are integers, and a rate is an integer     *)
(* count of One-ths: each is in units of the last place a quotient keeps, the *)
(* sixteenth decimal in the code, so that One is 10^16 there.  A product keeps *)
(* all its places: a liquidation price is in One-ths of a price's unit.  Each *)
(* of the code's three divisions rounds: an average price, a margin and the   *)
(* rate that is one over a leverage.                                        *)
(***************************************************************************)
EXTENDS Integers

CONSTANTS
    Users,
    Prices,             \* the mark prices
    One,                \* the rate 1
    MaintenanceRate

ASSUME PositionAssumption ==
    /\ Prices \subseteq Nat \ {0}
    /\ One \in Nat \ {0}
    /\ MaintenanceRate \in 0 .. One

VARIABLES
    position,   \* positions
    cash        \* history: what a position's trades brought in, less what they cost

positionVars == <<position, cash>>

PositionSides == {"LONG", "SHORT"}
Keys == Users \X PositionSides

Position ==
    [qty : Nat, entry : Nat, leverage : Nat, margin : Nat, liquidation : Nat,
     mark : Nat, unrealized : Int, realized : Int]

NewPosition ==
    [qty |-> 0, entry |-> 0, leverage |-> 0, margin |-> 0, liquidation |-> 0,
     mark |-> 0, unrealized |-> 0, realized |-> 0]

-----------------------------------------------------------------------------
(* What is computed from a position.                                        *)

\* Profit of a quantity held from one price to another.
ProfitAndLoss(side, from, to, qty) ==
    IF side = "LONG" THEN (to - from) * qty ELSE (from - to) * qty

\* A decimal's Div: to the nearest unit, and up from the middle.
DivRound(a, b) == (2 * a + b) \div (2 * b)

CalculateMargin(pos) == DivRound(pos.qty * pos.entry, pos.leverage)

\* Mutant: a short's maintenance is added on the wrong side.
MutCalculateLiquidationPrice(side, pos) ==
    IF side = "LONG"
    THEN pos.entry * (One - DivRound(One, pos.leverage) + MaintenanceRate)
    ELSE pos.entry * (One + DivRound(One, pos.leverage) + MaintenanceRate)

CalculateLiquidationPrice(side, pos) ==
    IF side = "LONG"
    THEN pos.entry * (One - DivRound(One, pos.leverage) + MaintenanceRate)
    ELSE pos.entry * (One + DivRound(One, pos.leverage) - MaintenanceRate)

\* GetPositionsToLiquidate's condition.
NeedsLiquidation(side, pos, price) ==
    /\ pos.qty # 0
    /\ IF side = "LONG" THEN One * price <= pos.liquidation
                        ELSE One * price >= pos.liquidation

\* The liquidation engine's CalculateMaintenanceMargin, at a mark price, and the
\* margin that CalculateMarginRatio sets against the position's value.
CalculateMaintenanceMargin(pos, price) == MaintenanceRate * (pos.qty * price)
EffectiveMargin(side, pos, price) ==
    One * (pos.margin + ProfitAndLoss(side, pos.entry, price, pos.qty))

Refreshed(side, pos) ==
    [pos EXCEPT !.margin = CalculateMargin(pos),
                !.liquidation = CalculateLiquidationPrice(side, pos)]

-----------------------------------------------------------------------------
(* Operations.                                                              *)

\* Mutant: the last price replaces the average.
MutAveragePrice(pos, price, qty) == price

\* The entry price of a position enlarged by qty at price.
AveragePrice(pos, price, qty) ==
    IF pos.qty = 0 THEN price
    ELSE DivRound(pos.qty * pos.entry + qty * price, pos.qty + qty)

UpdatePosition(key, price, qty, leverage) ==
    LET pos == [position[key] EXCEPT !.qty = @ + qty, !.leverage = leverage,
                    !.entry = AveragePrice(position[key], price, qty)]
    IN  /\ position' = [position EXCEPT ![key] = Refreshed(key[2], pos)]
        /\ cash' = [cash EXCEPT ![key] =
                        @ + ProfitAndLoss(key[2], price, 0, qty)]

\* Mutant: the quantity is not compared with the position's.
MutReducible(key, qty) == position[key].qty # 0

\* ReducePosition finds a position, and it is large enough.
Reducible(key, qty) == position[key].qty # 0 /\ qty <= position[key].qty

\* An error of ReducePosition changes nothing.
ReducePosition(key, price, qty) ==
    LET old == position[key]
        pos == [old EXCEPT !.qty = @ - qty,
                    !.realized = @ + ProfitAndLoss(key[2], old.entry, price, qty)]
        left == IF pos.qty # 0 THEN Refreshed(key[2], pos)
                ELSE [pos EXCEPT !.margin = 0, !.liquidation = 0, !.entry = 0]
    IN  IF Reducible(key, qty)
        THEN /\ position' = [position EXCEPT ![key] = left]
             /\ cash' = [cash EXCEPT ![key] =
                             @ + ProfitAndLoss(key[2], 0, price, qty)]
        ELSE UNCHANGED positionVars

\* UpdateMarkPrice: every open position gets the price and its profit at it.
UpdatePositionMarks(price) ==
    /\ position' = [key \in Keys |->
           LET pos == position[key]
           IN  IF pos.qty = 0 THEN pos
               ELSE [pos EXCEPT !.mark = price,
                         !.unrealized = ProfitAndLoss(key[2], pos.entry, price, pos.qty)]]
    /\ UNCHANGED cash

PositionInit ==
    /\ position = [key \in Keys |-> NewPosition]
    /\ cash = [key \in Keys |-> 0]

-----------------------------------------------------------------------------
(* Properties.                                                              *)

PositionsTyped ==
    /\ position \in [Keys -> Position]
    /\ cash \in [Keys -> Int]

(* The profit a position has realized is the money its trades brought in,    *)
(* plus what its open part cost: averaging, reducing and reopening in any    *)
(* order neither make money nor lose it (manager.go:89-97, 134-145).         *)
PnlIsCash ==
    \A key \in Keys :
        position[key].realized =
            cash[key] - ProfitAndLoss(key[2], position[key].entry, 0, position[key].qty)

\* Twice what the two divisions behind margin and liquidation price can make
\* between them: half a unit each, where they round at all.
Slack(pos) ==
    LET value == pos.qty * pos.entry
    IN  (IF One % pos.leverage = 0 THEN 0 ELSE value)
        + (IF value % pos.leverage = 0 THEN 0 ELSE One)

\* A position's effective margin is at most the given maintenance: for certain,
\* and but for rounding.
SurelyBelow(side, pos, price, maintenance) ==
    pos.qty # 0 /\ 2 * EffectiveMargin(side, pos, price) + Slack(pos) <= 2 * maintenance
PerhapsBelow(side, pos, price, maintenance) ==
    pos.qty # 0 /\ 2 * EffectiveMargin(side, pos, price) <= 2 * maintenance + Slack(pos)

\* Maintenance on what the position was opened for, which is what README.md's
\* formulas for the liquidation price (212-219) come to.
EntryMaintenance(pos) == CalculateMaintenanceMargin(pos, pos.entry)
=============================================================================
