-------------------------- MODULE ContractsProofs ---------------------------
(***************************************************************************)
(* For every set of users, prices, orders and goroutines: whatever is in     *)
(* flight, positions, channels and frames stay within their types, and the   *)
(* monitor takes the positions that have come down to their maintenance, but *)
(* for what two divisions round; and for users whose ids hold no underscore,  *)
(* take-profit and stop-loss prices stand                                    *)
(* until a mark price has reached them, and the orders they then send are    *)
(* executed while positions are no larger than an order may be.             *)
(* Profits are the money of the trades but for what averages round.          *)
(*                                                                         *)
(* The invariant adds two things to the types: the margin and the            *)
(* liquidation price of an open position are those of its quantity, entry    *)
(* price and leverage, and no order that may change a position is without    *)
(* leverage, by which both divide.                                          *)
(*                                                                         *)
(* The last section is about the funding service.                           *)
(***************************************************************************)
EXTENDS ContractApi, Funding, FiniteSetTheorems, SequenceTheorems, TLAPS

USE PositionAssumption DEF PositionAssumption

-----------------------------------------------------------------------------
(* Arithmetic.                                                              *)

(* A price the book offers, and a mark price, are numbers.                   *)
LEMMA PriceTyped ==
    /\ \A price \in TradePrices : price \in Nat
    /\ \A price \in Prices : price \in Nat
BY ContractAssumption DEF ContractAssumption

LEMMA Products ==
    ASSUME NEW a \in Nat, NEW b \in Nat
    PROVE  a * b \in Nat
OBVIOUS

LEMMA IntProducts ==
    ASSUME NEW a \in Int, NEW b \in Int
    PROVE  a * b \in Int
OBVIOUS

\* Quotient and remainder.
LEMMA Divided ==
    ASSUME NEW t \in Nat, NEW a \in Nat \ {0}
    PROVE  /\ t \div a \in Nat /\ t % a \in 0 .. a - 1
           /\ t = a * (t \div a) + (t % a)
OBVIOUS

\* A difference of one factor, and a quotient, are what they are once only.
LEMMA ProductGrows ==
    ASSUME NEW a \in Nat, NEW p \in Int, NEW q \in Int, q < p
    PROVE  a * q + a <= a * p
<1>1. p - q - 1 \in Nat
  OBVIOUS
<1>2. a * (p - q - 1) \in Nat
  BY <1>1, Products
<1>3. a * (p - q - 1) = a * p - a * q - a
  OBVIOUS
<1>4. a * p \in Int /\ a * q \in Int
  BY IntProducts
<1>5. QED
  BY <1>2, <1>3, <1>4

LEMMA QuotientUnique ==
    ASSUME NEW a \in Nat, NEW p \in Int, NEW q \in Int,
           NEW x \in Nat, x < a, NEW y \in Nat, y < a, a * p + x = a * q + y
    PROVE  p = q
<1>1. a * p \in Int /\ a * q \in Int
  BY IntProducts
<1>2. ASSUME p < q PROVE FALSE
  <2>1. a * p + a <= a * q
    BY <1>2, ProductGrows
  <2>2. QED
    BY <1>1, <2>1
<1>3. ASSUME q < p PROVE FALSE
  <2>1. a * q + a <= a * p
    BY <1>3, ProductGrows
  <2>2. QED
    BY <1>1, <2>1
<1>4. QED
  BY <1>2, <1>3

\* A factor that is positive, and one that is not negative, keep an inequality.
LEMMA FactorCancels ==
    ASSUME NEW a \in Nat \ {0}, NEW x \in Int, NEW y \in Int, a * x <= a * y
    PROVE  x <= y
<1>1. a * x \in Int /\ a * y \in Int
  BY IntProducts
<1>2. SUFFICES ASSUME y < x PROVE FALSE
  OBVIOUS
<1>3. a * y + a <= a * x
  BY <1>2, ProductGrows
<1>4. QED
  BY <1>1, <1>3

LEMMA FactorKeeps ==
    ASSUME NEW a \in Nat, NEW x \in Int, NEW y \in Int, x <= y
    PROVE  a * x <= a * y
<1>1. a * x \in Int /\ a * y \in Int
  BY IntProducts
<1>2. CASE x = y
  BY <1>1, <1>2
<1>3. CASE x < y
  <2>1. a * x + a <= a * y
    BY <1>3, ProductGrows
  <2>2. QED
    BY <1>1, <2>1
<1>4. QED
  BY <1>2, <1>3

\* What a quotient, times the divisor, is beyond the dividend.
Excess(a, b) == b * DivRound(a, b) - a

\* It is half the divisor at most, and nothing when the division is exact.
LEMMA Rounded ==
    ASSUME NEW a \in Nat, NEW b \in Nat \ {0}
    PROVE  /\ DivRound(a, b) \in Nat /\ Excess(a, b) \in Int
           /\ b * DivRound(a, b) = a + Excess(a, b)
           /\ 2 * Excess(a, b) <= b /\ - (2 * Excess(a, b)) <= b
           /\ a % b = 0 => Excess(a, b) = 0
<1> DEFINE t == 2 * a + b
           c == 2 * b
           d == t \div c
           r == t % c
<1>1. t \in Nat /\ c \in Nat \ {0} /\ DivRound(a, b) = d
  BY DEF DivRound
<1>2. d \in Nat /\ r \in 0 .. c - 1 /\ t = c * d + r
  BY <1>1, Divided
<1>3. b * d \in Nat /\ c * d = 2 * (b * d)
  BY <1>2, Products
<1> HIDE DEF d, r
<1>4. 2 * (b * d) = 2 * a + b - r /\ r \in 0 .. 2 * b - 1
  BY <1>2, <1>3
<1>5. /\ Excess(a, b) \in Int /\ b * d = a + Excess(a, b)
      /\ 2 * Excess(a, b) <= b /\ - (2 * Excess(a, b)) <= b
  BY <1>1, <1>3, <1>4 DEF Excess
<1>6. ASSUME a % b = 0 PROVE Excess(a, b) = 0
  <2> DEFINE k == a \div b
  <2>1. k \in Nat /\ a = b * k
    BY <1>6, Divided
  <2> HIDE DEF k
  <2>2. b * k \in Nat /\ c * k = 2 * (b * k)
    BY <2>1, Products
  <2>3. c * d + r = c * k + b /\ b < c /\ r < c /\ c \in Nat /\ r \in Nat
    BY <1>2, <1>4, <2>1, <2>2
  <2>4. d = k
    <3> HIDE DEF c, t
    <3>1. QED
      BY <1>2, <2>1, <2>3, QuotientUnique
  <2>5. QED
    BY <1>1, <2>1, <2>2, <2>4 DEF Excess
<1> QED
  BY <1>1, <1>2, <1>5, <1>6

\* The initial margin rate of a leverage.
LEMMA Rates ==
    ASSUME NEW leverage \in Nat \ {0}
    PROVE  DivRound(One, leverage) \in 0 .. One
<1> DEFINE d == DivRound(One, leverage)
<1>1. One \in Nat \ {0}
  BY PositionAssumption
<1>2. /\ d \in Nat /\ Excess(One, leverage) \in Int
      /\ leverage * d = One + Excess(One, leverage)
      /\ 2 * Excess(One, leverage) <= leverage
  BY <1>1, Rounded
<1> HIDE DEF d
<1>3. SUFFICES ASSUME One < d PROVE FALSE
  BY <1>1, <1>2 DEF d
<1>4. leverage * One + leverage <= leverage * d
  BY <1>1, <1>2, <1>3, ProductGrows
<1>5. One * 1 <= One * leverage /\ One * leverage = leverage * One
  BY <1>1, FactorKeeps
<1>6. leverage * One \in Int /\ One <= leverage * One
  BY <1>1, <1>5, IntProducts
<1>7. QED
  BY <1>1, <1>2, <1>4, <1>6

LEMMA Averages ==
    ASSUME NEW a \in Nat, NEW b \in Nat \ {0}
    PROVE  DivRound(a, b) \in Nat
BY Rounded

(* A product with a positive factor is at most zero when the other is.       *)
LEMMA SignOfProduct ==
    ASSUME NEW q \in Nat \ {0}, NEW x \in Int
    PROVE  q * x <= 0 <=> x <= 0
OBVIOUS

-----------------------------------------------------------------------------
(* Positions.                                                               *)

\* Margin and liquidation price are those of the open position.
Solid(side, pos) ==
    /\ pos \in Position
    /\ pos.qty # 0 =>
          /\ pos.leverage # 0
          /\ pos.margin = CalculateMargin(pos)
          /\ pos.liquidation = CalculateLiquidationPrice(side, pos)

LEMMA ProfitTyped ==
    ASSUME NEW side \in PositionSides, NEW from \in Int, NEW to \in Int, NEW qty \in Int
    PROVE  ProfitAndLoss(side, from, to, qty) \in Int
BY IntProducts DEF ProfitAndLoss

LEMMA MarginTyped ==
    ASSUME NEW pos \in Position, pos.leverage # 0
    PROVE  CalculateMargin(pos) \in Nat
<1>1. pos.qty \in Nat /\ pos.entry \in Nat /\ pos.leverage \in Nat \ {0}
  BY DEF Position
<1>2. pos.qty * pos.entry \in Nat
  BY <1>1, Products
<1>3. QED
  BY <1>1, <1>2, Averages DEF CalculateMargin

LEMMA LiquidationPriceTyped ==
    ASSUME NEW side \in PositionSides, NEW pos \in Position, pos.leverage # 0
    PROVE  CalculateLiquidationPrice(side, pos) \in Nat
<1> DEFINE rate == DivRound(One, pos.leverage)
<1>1. pos.entry \in Nat /\ pos.leverage \in Nat \ {0}
  BY DEF Position
<1>2. rate \in 0 .. One /\ One \in Nat /\ MaintenanceRate \in 0 .. One
  BY <1>1, Rates, PositionAssumption
<1> HIDE DEF rate
<1>3. /\ One - rate + MaintenanceRate \in Nat
      /\ One + rate - MaintenanceRate \in Nat
  BY <1>2
<1>4. /\ pos.entry * (One - rate + MaintenanceRate) \in Nat
      /\ pos.entry * (One + rate - MaintenanceRate) \in Nat
  BY <1>1, <1>3, Products
<1>5. QED
  BY <1>4 DEF CalculateLiquidationPrice, rate

LEMMA RefreshedSolid ==
    ASSUME NEW side \in PositionSides, NEW pos \in Position, pos.leverage # 0
    PROVE  Solid(side, Refreshed(side, pos))
<1> DEFINE new == Refreshed(side, pos)
<1>1. CalculateMargin(pos) \in Nat /\ CalculateLiquidationPrice(side, pos) \in Nat
  BY MarginTyped, LiquidationPriceTyped
<1>2. new \in Position
  BY <1>1 DEF Refreshed, Position
<1>3. /\ new.qty = pos.qty /\ new.entry = pos.entry /\ new.leverage = pos.leverage
      /\ new.margin = CalculateMargin(pos)
      /\ new.liquidation = CalculateLiquidationPrice(side, pos)
  BY DEF Refreshed, Position
<1>4. /\ CalculateMargin(new) = CalculateMargin(pos)
      /\ CalculateLiquidationPrice(side, new) = CalculateLiquidationPrice(side, pos)
  BY <1>3 DEF CalculateMargin, CalculateLiquidationPrice
<1>5. QED
  BY <1>2, <1>3, <1>4 DEF Solid

\* A margin and a rate of one over the leverage, each rounded, differ by no more
\* than Slack, twice, whatever the leverage.
LEMMA MarginGap ==
    ASSUME NEW value \in Nat, NEW leverage \in Nat \ {0},
           NEW pos, pos.qty * pos.entry = value, pos.leverage = leverage
    PROVE  \E gap \in Int :
               /\ value * DivRound(One, leverage)
                      = One * DivRound(value, leverage) + gap
               /\ Slack(pos) \in Nat
               /\ 2 * gap <= Slack(pos) /\ - (2 * gap) <= Slack(pos)
<1> DEFINE rate == DivRound(One, leverage)
           margin == DivRound(value, leverage)
           x == Excess(One, leverage)
           y == Excess(value, leverage)
           gap == value * rate - One * margin
           sx == IF One % leverage = 0 THEN 0 ELSE value
           sy == IF value % leverage = 0 THEN 0 ELSE One
<1>1. One \in Nat \ {0}
  BY PositionAssumption
<1>2. /\ rate \in Nat /\ x \in Int /\ leverage * rate = One + x
      /\ 2 * x <= leverage /\ - (2 * x) <= leverage
      /\ One % leverage = 0 => x = 0
  BY <1>1, Rounded
<1>3. /\ margin \in Nat /\ y \in Int /\ leverage * margin = value + y
      /\ 2 * y <= leverage /\ - (2 * y) <= leverage
      /\ value % leverage = 0 => y = 0
  BY Rounded
<1>4. Slack(pos) = sx + sy /\ sx \in Nat /\ sy \in Nat
  BY <1>1 DEF Slack
<1>5. (sx = 0 /\ x = 0) \/ sx = value
  BY <1>2
<1>6. (sy = 0 /\ y = 0) \/ sy = One
  BY <1>3
<1> HIDE DEF rate, margin, x, y, sx, sy
<1>7. gap \in Int
  <2>1. value * rate \in Int /\ One * margin \in Int
    BY <1>1, <1>2, <1>3, IntProducts
  <2>2. QED
    BY <2>1
<1>8. leverage * gap = value * x - One * y
  <2>1. /\ leverage * (value * rate) = value * (leverage * rate)
        /\ leverage * (One * margin) = One * (leverage * margin)
    BY <1>1, <1>2, <1>3
  <2>2. value * (One + x) = value * One + value * x
    BY <1>1, <1>2
  <2>3. One * (value + y) = value * One + One * y
    BY <1>1, <1>3
  <2>4. /\ value * rate \in Int /\ One * margin \in Int /\ value * One \in Int
        /\ value * x \in Int /\ One * y \in Int
    BY <1>1, <1>2, <1>3, IntProducts
  <2>5. leverage * gap = leverage * (value * rate) - leverage * (One * margin)
    BY <2>4
  <2>6. leverage * gap = (value * One + value * x) - (value * One + One * y)
    BY <1>2, <1>3, <2>1, <2>2, <2>3, <2>5
  <2>7. QED
    BY ONLY <2>4, <2>6
<1>9. 2 * (value * x) <= leverage * sx /\ - (2 * (value * x)) <= leverage * sx
  <2>1. CASE sx = 0 /\ x = 0
    BY <2>1
  <2>2. CASE sx = value
    <3>1. value * (2 * x) <= value * leverage /\ value * (- (2 * x)) <= value * leverage
      BY <1>2, FactorKeeps
    <3>2. /\ value * (2 * x) = 2 * (value * x)
          /\ value * (- (2 * x)) = - (2 * (value * x))
          /\ value * leverage = leverage * value
      BY <1>2
    <3>3. QED
      BY <2>2, <3>1, <3>2
  <2>3. QED
    BY <1>5, <2>1, <2>2
<1>10. 2 * (One * y) <= leverage * sy /\ - (2 * (One * y)) <= leverage * sy
  <2>1. CASE sy = 0 /\ y = 0
    BY <1>1, <2>1
  <2>2. CASE sy = One
    <3>1. One * (2 * y) <= One * leverage /\ One * (- (2 * y)) <= One * leverage
      BY <1>1, <1>3, FactorKeeps
    <3>2. /\ One * (2 * y) = 2 * (One * y)
          /\ One * (- (2 * y)) = - (2 * (One * y))
          /\ One * leverage = leverage * One
      BY <1>1, <1>3
    <3>3. QED
      BY <2>2, <3>1, <3>2
  <2>3. QED
    BY <1>6, <2>1, <2>2
<1>11. 2 * gap <= sx + sy /\ - (2 * gap) <= sx + sy
  <2>1. /\ value * x \in Int /\ One * y \in Int /\ leverage * sx \in Int
        /\ leverage * sy \in Int
    BY <1>1, <1>2, <1>3, <1>4, IntProducts
  <2> HIDE DEF gap
  <2>2. /\ leverage * (2 * gap) = 2 * (leverage * gap)
        /\ leverage * (- (2 * gap)) = - (2 * (leverage * gap))
        /\ leverage * (sx + sy) = leverage * sx + leverage * sy
    BY <1>4, <1>7
  <2>3. /\ leverage * (2 * gap) <= leverage * (sx + sy)
        /\ leverage * (- (2 * gap)) <= leverage * (sx + sy)
    BY ONLY <1>8, <1>9, <1>10, <2>1, <2>2
  <2>4. 2 * gap \in Int /\ - (2 * gap) \in Int /\ sx + sy \in Int
    BY <1>4, <1>7
  <2>5. QED
    BY <2>3, <2>4, FactorCancels
<1>12. value * rate = One * margin + gap
  <2>1. value * rate \in Int /\ One * margin \in Int
    BY <1>1, <1>2, <1>3, IntProducts
  <2>2. QED
    BY <2>1
<1> HIDE DEF gap
<1> QED
  BY <1>4, <1>7, <1>11, <1>12 DEF rate, margin

(* The liquidation price is reached when what the margin, its rounding undone, *)
(* and the profit leave is no more than the maintenance of the entry value:  *)
(* the quantity cancels.                                                    *)
LEMMA LiquidationAgrees ==
    ASSUME NEW side \in PositionSides, NEW pos, Solid(side, pos), pos.qty # 0,
           NEW price \in Nat
    PROVE  \E gap \in Int :
               /\ EffectiveMargin(side, pos, price) \in Int
               /\ EntryMaintenance(pos) \in Int
               /\ Slack(pos) \in Nat
               /\ 2 * gap <= Slack(pos) /\ - (2 * gap) <= Slack(pos)
               /\ NeedsLiquidation(side, pos, price)
                      <=> EffectiveMargin(side, pos, price) + gap <= EntryMaintenance(pos)
<1> DEFINE q == pos.qty
           e == pos.entry
           L == DivRound(One, pos.leverage)
           M == MaintenanceRate
           margin == DivRound(q * e, pos.leverage)
<1>1. /\ q \in Nat \ {0} /\ e \in Nat /\ M \in Nat /\ One \in Nat \ {0}
      /\ pos.leverage \in Nat \ {0}
      /\ pos.margin = margin
      /\ pos.liquidation = CalculateLiquidationPrice(side, pos)
  BY PositionAssumption DEF Solid, Position, CalculateMargin
<1>2. q * e \in Nat
  BY <1>1, Products
<1>3. L \in Nat /\ margin \in Nat
  BY <1>1, <1>2, Averages
<1>4. PICK gap \in Int :
          /\ (q * e) * L = One * margin + gap
          /\ Slack(pos) \in Nat
          /\ 2 * gap <= Slack(pos) /\ - (2 * gap) <= Slack(pos)
  BY <1>1, <1>2, MarginGap
<1> HIDE DEF margin
<1>5. pos.liquidation = IF side = "LONG" THEN e * (One - L + M) ELSE e * (One + L - M)
  BY <1>1 DEF CalculateLiquidationPrice
<1>6. EntryMaintenance(pos) = M * (q * e) /\ M * (q * e) \in Int
  BY <1>1, <1>2, IntProducts DEF EntryMaintenance, CalculateMaintenanceMargin
<1> DEFINE pnl == IF side = "LONG" THEN (price - e) * q ELSE (e - price) * q
<1>7. /\ EffectiveMargin(side, pos, price) = One * (margin + pnl)
      /\ NeedsLiquidation(side, pos, price) <=>
             IF side = "LONG" THEN One * price <= e * (One - L + M)
                              ELSE One * price >= e * (One + L - M)
  BY <1>1, <1>5 DEF EffectiveMargin, ProfitAndLoss, NeedsLiquidation
<1> HIDE DEF q, e, L, M
<1> DEFINE x == IF side = "LONG" THEN One * price - e * (One - L + M)
                                 ELSE e * (One + L - M) - One * price
<1>8. x \in Int /\ pnl \in Int /\ One * margin \in Int /\ One * pnl \in Int
      /\ (q * e) * L \in Int
  <2>1. /\ One * price \in Int /\ e * (One - L + M) \in Int /\ e * (One + L - M) \in Int
        /\ (price - e) * q \in Int /\ (e - price) * q \in Int /\ One * margin \in Int
        /\ (q * e) * L \in Int
    BY <1>1, <1>2, <1>3, IntProducts
  <2>2. x \in Int /\ pnl \in Int
    BY <2>1
  <2>3. One * pnl \in Int
    BY <1>1, <2>2, IntProducts
  <2>4. QED
    BY <2>1, <2>2, <2>3
<1>9. NeedsLiquidation(side, pos, price) <=> x <= 0
  <2>1. /\ One * price \in Int /\ e * (One - L + M) \in Int /\ e * (One + L - M) \in Int
    BY <1>1, <1>3, IntProducts
  <2>2. QED
    BY <1>7, <2>1
<1>10. q * x = One * pnl + (q * e) * L - M * (q * e)
  <2>1. CASE side = "LONG"
    <3>1. q * (One * price - e * (One - L + M))
              = One * ((price - e) * q) + (q * e) * L - M * (q * e)
      BY <1>1, <1>3
    <3>2. QED
      BY <2>1, <3>1
  <2>2. CASE side # "LONG"
    <3>1. q * (e * (One + L - M) - One * price)
              = One * ((e - price) * q) + (q * e) * L - M * (q * e)
      BY <1>1, <1>3
    <3>2. QED
      BY <2>2, <3>1
  <2>3. QED
    BY <2>1, <2>2
<1>11. One * (margin + pnl) = One * margin + One * pnl
  <2> HIDE DEF pnl
  <2>1. QED
    BY <1>1, <1>3, <1>8
<1> HIDE DEF x, pnl
<1>12. x <= 0 <=> One * (margin + pnl) + gap <= M * (q * e)
  <2>1. x <= 0 <=> q * x <= 0
    BY <1>1, <1>8, SignOfProduct
  <2>2. QED
    BY ONLY <1>4, <1>6, <1>8, <1>10, <1>11, <2>1
<1>13. One * (margin + pnl) \in Int
  BY <1>8, <1>11
<1> QED
  BY <1>4, <1>6, <1>7, <1>9, <1>12, <1>13

(* Maintenance at a mark price is less than at the entry price when the mark   *)
(* price is.                                                                *)
LEMMA MaintenanceGrows ==
    ASSUME NEW pos \in Position, NEW low \in Nat, NEW high \in Nat, low <= high
    PROVE  /\ CalculateMaintenanceMargin(pos, low) \in Int
           /\ CalculateMaintenanceMargin(pos, high) \in Int
           /\ CalculateMaintenanceMargin(pos, low)
                  <= CalculateMaintenanceMargin(pos, high)
<1>1. pos.qty \in Nat /\ MaintenanceRate \in Nat
  BY PositionAssumption DEF Position
<1>2. /\ pos.qty * low \in Int /\ pos.qty * high \in Int
      /\ pos.qty * low <= pos.qty * high
  BY <1>1, IntProducts, FactorKeeps
<1>3. QED
  BY <1>1, <1>2, IntProducts, FactorKeeps DEF CalculateMaintenanceMargin

(* What LiquidationExact says of one position.                              *)
LEMMA LiquidationSound ==
    ASSUME NEW side \in PositionSides, NEW pos, Solid(side, pos), NEW price \in Nat
    PROVE  LET taken == NeedsLiquidation(side, pos, price)
               atMark == CalculateMaintenanceMargin(pos, price)
           IN  /\ SurelyBelow(side, pos, price, EntryMaintenance(pos)) => taken
               /\ taken => PerhapsBelow(side, pos, price, EntryMaintenance(pos))
               /\ side = "LONG" /\ price <= pos.entry =>
                      (SurelyBelow(side, pos, price, atMark) => taken)
               /\ side = "SHORT" /\ price >= pos.entry =>
                      (taken => PerhapsBelow(side, pos, price, atMark))
<1>1. CASE pos.qty = 0
  BY <1>1 DEF NeedsLiquidation, SurelyBelow, PerhapsBelow
<1>2. CASE pos.qty # 0
  <2> DEFINE left == EffectiveMargin(side, pos, price)
             entry == EntryMaintenance(pos)
             atMark == CalculateMaintenanceMargin(pos, price)
  <2>1. PICK gap \in Int :
               /\ left \in Int /\ entry \in Int /\ Slack(pos) \in Nat
               /\ 2 * gap <= Slack(pos) /\ - (2 * gap) <= Slack(pos)
               /\ NeedsLiquidation(side, pos, price) <=> left + gap <= entry
    BY <1>2, LiquidationAgrees
  <2>2. pos \in Position /\ pos.entry \in Nat
    BY DEF Solid, Position
  <2>3. /\ atMark \in Int
        /\ price <= pos.entry => atMark <= entry
        /\ price >= pos.entry => entry <= atMark
    BY <2>2, MaintenanceGrows DEF EntryMaintenance
  <2>4. \A amount : /\ SurelyBelow(side, pos, price, amount) <=>
                           2 * left + Slack(pos) <= 2 * amount
                    /\ PerhapsBelow(side, pos, price, amount) <=>
                           2 * left <= 2 * amount + Slack(pos)
    BY <1>2 DEF SurelyBelow, PerhapsBelow
  <2> HIDE DEF left, entry, atMark
  <2>5. SurelyBelow(side, pos, price, entry) => NeedsLiquidation(side, pos, price)
    BY ONLY <2>1, <2>4
  <2>6. NeedsLiquidation(side, pos, price) => PerhapsBelow(side, pos, price, entry)
    BY ONLY <2>1, <2>4
  <2>7. atMark <= entry /\ SurelyBelow(side, pos, price, atMark)
            => SurelyBelow(side, pos, price, entry)
    BY ONLY <2>1, <2>3, <2>4
  <2>8. entry <= atMark /\ PerhapsBelow(side, pos, price, entry)
            => PerhapsBelow(side, pos, price, atMark)
    BY ONLY <2>1, <2>3, <2>4
  <2>9. QED
    BY <2>3, <2>5, <2>6, <2>7, <2>8 DEF entry, atMark
<1>3. QED
  BY <1>1, <1>2

(* What the two operations leave of a position.                             *)
LEMMA Enlarged ==
    ASSUME NEW side \in PositionSides, NEW old, Solid(side, old),
           NEW price \in Nat, NEW qty \in Nat, NEW leverage \in Nat \ {0}
    PROVE  Solid(side, Refreshed(side,
               [old EXCEPT !.qty = @ + qty, !.leverage = leverage,
                           !.entry = AveragePrice(old, price, qty)]))
<1> DEFINE pos == [old EXCEPT !.qty = @ + qty, !.leverage = leverage,
                              !.entry = AveragePrice(old, price, qty)]
<1>1. old \in Position /\ old.qty \in Nat /\ old.entry \in Nat
  BY DEF Solid, Position
<1>2. AveragePrice(old, price, qty) \in Nat
  <2>1. CASE old.qty = 0
    BY <2>1 DEF AveragePrice
  <2>2. CASE old.qty # 0
    <3>1. old.qty * old.entry + qty * price \in Nat
      <4>1. old.qty * old.entry \in Nat /\ qty * price \in Nat
        BY <1>1, Products
      <4>2. QED
        BY <4>1
    <3>2. old.qty + qty \in Nat \ {0}
      BY <1>1, <2>2
    <3>3. QED
      BY <2>2, <3>1, <3>2, Averages DEF AveragePrice
  <2>3. QED
    BY <2>1, <2>2
<1>3. old.qty + qty \in Nat
  BY <1>1
<1>4. pos \in Position /\ pos.leverage = leverage
  BY <1>1, <1>2, <1>3 DEF Position
<1>5. QED
  BY <1>4, RefreshedSolid

LEMMA Reduced ==
    ASSUME NEW side \in PositionSides, NEW old, Solid(side, old),
           NEW price \in Nat, NEW qty \in Nat, old.qty # 0, qty <= old.qty,
           NEW pos, pos = [old EXCEPT !.qty = @ - qty,
                               !.realized = @ + ProfitAndLoss(side, old.entry, price, qty)]
    PROVE  Solid(side, IF pos.qty # 0 THEN Refreshed(side, pos)
                       ELSE [pos EXCEPT !.margin = 0, !.liquidation = 0, !.entry = 0])
<1>1. /\ old \in Position /\ old.qty \in Nat /\ old.entry \in Nat
      /\ old.leverage # 0 /\ old.realized \in Int
  BY DEF Solid, Position
<1>2. ProfitAndLoss(side, old.entry, price, qty) \in Int
  BY <1>1, ProfitTyped
<1>3. pos \in Position /\ pos.leverage # 0
  <2>1. old.qty - qty \in Nat
    BY <1>1
  <2>2. old.realized + ProfitAndLoss(side, old.entry, price, qty) \in Int
    BY <1>1, <1>2
  <2>3. QED
    BY <1>1, <2>1, <2>2 DEF Position
<1>4. CASE pos.qty # 0
  BY <1>3, <1>4, RefreshedSolid
<1>5. CASE pos.qty = 0
  BY <1>3, <1>5 DEF Solid, Position
<1>6. QED
  BY <1>4, <1>5

-----------------------------------------------------------------------------
(* The invariant.                                                           *)

PositionsOK == PositionsTyped /\ \A key \in Keys : Solid(key[2], position[key])

\* Whatever may change a position has a leverage.
Levered(f) == f.step \in {"match", "settle"} => f.order.leverage # 0

CallsOK ==
    /\ call \in [Goroutines -> Frame]
    /\ calls \in 0 .. MaxCalls
    /\ \A g \in Goroutines : Levered(call[g])

EntriesOK == tpsl \in [TPSLNames -> [tp : Nat, sl : Nat]]

IInv ==
    /\ PositionsOK /\ LiquidationTyped /\ CallsOK /\ EntriesOK
    /\ unsettled \in Nat

LEMMA KeyParts ==
    ASSUME NEW key \in Keys
    PROVE  key[1] \in Users /\ key[2] \in PositionSides
BY DEF Keys

-----------------------------------------------------------------------------
(* Operations on positions keep them.                                       *)

LEMMA UpdateKeeps ==
    ASSUME PositionsOK, NEW key \in Keys, NEW price \in Nat, NEW qty \in Nat,
           NEW leverage \in Nat \ {0}, UpdatePosition(key, price, qty, leverage)
    PROVE  PositionsOK'
<1> DEFINE new == Refreshed(key[2],
                      [position[key] EXCEPT !.qty = @ + qty, !.leverage = leverage,
                           !.entry = AveragePrice(position[key], price, qty)])
<1>1. key[2] \in PositionSides
  BY KeyParts
<1>2. /\ position \in [Keys -> Position] /\ cash \in [Keys -> Int]
      /\ \A k \in Keys : Solid(k[2], position[k])
  BY DEF PositionsOK, PositionsTyped
<1>3. Solid(key[2], new)
  BY <1>1, <1>2, Enlarged
<1>4. position' = [position EXCEPT ![key] = new]
  BY DEF UpdatePosition
<1>5. cash' \in [Keys -> Int]
  <2>1. ProfitAndLoss(key[2], price, 0, qty) \in Int
    BY <1>1, ProfitTyped
  <2>2. cash[key] + ProfitAndLoss(key[2], price, 0, qty) \in Int
    BY <1>2, <2>1
  <2>3. QED
    BY <1>2, <2>2 DEF UpdatePosition
<1> HIDE DEF new
<1>6. new \in Position
  BY <1>3 DEF Solid
<1>7. position' \in [Keys -> Position]
  BY <1>2, <1>4, <1>6
<1>8. ASSUME NEW k \in Keys
      PROVE  Solid(k[2], position'[k])
  <2>1. CASE k = key
    BY <1>2, <1>3, <1>4, <2>1
  <2>2. CASE k # key
    BY <1>2, <1>4, <2>2
  <2>3. QED
    BY <2>1, <2>2
<1>9. QED
  BY <1>5, <1>7, <1>8 DEF PositionsOK, PositionsTyped, Solid

LEMMA ReduceKeeps ==
    ASSUME PositionsOK, NEW key \in Keys, NEW price \in Nat, NEW qty \in Nat,
           ReducePosition(key, price, qty)
    PROVE  PositionsOK'
<1> DEFINE old == position[key]
           pos == [old EXCEPT !.qty = @ - qty,
                       !.realized = @ + ProfitAndLoss(key[2], old.entry, price, qty)]
           new == IF pos.qty # 0 THEN Refreshed(key[2], pos)
                  ELSE [pos EXCEPT !.margin = 0, !.liquidation = 0, !.entry = 0]
<1>1. key[2] \in PositionSides
  BY KeyParts
<1>2. /\ position \in [Keys -> Position] /\ cash \in [Keys -> Int]
      /\ \A k \in Keys : Solid(k[2], position[k])
  BY DEF PositionsOK, PositionsTyped
<1>3. CASE Reducible(key, qty)
  <2>1. old.qty # 0 /\ qty <= old.qty
    BY <1>3 DEF Reducible
  <2>2. Solid(key[2], new)
    BY <1>1, <1>2, <2>1, Reduced
  <2>3. position' = [position EXCEPT ![key] = new]
    BY <1>3 DEF ReducePosition
  <2>4. cash' \in [Keys -> Int]
    <3>1. ProfitAndLoss(key[2], 0, price, qty) \in Int
      BY <1>1, ProfitTyped
    <3>2. cash[key] + ProfitAndLoss(key[2], 0, price, qty) \in Int
      BY <1>2, <3>1
    <3>3. QED
      BY <1>2, <1>3, <3>2 DEF ReducePosition
  <2> HIDE DEF new
  <2>5. new \in Position
    BY <2>2 DEF Solid
  <2>6. position' \in [Keys -> Position]
    BY <1>2, <2>3, <2>5
  <2>7. ASSUME NEW k \in Keys
        PROVE  Solid(k[2], position'[k])
    <3>1. CASE k = key
      BY <1>2, <2>2, <2>3, <3>1
    <3>2. CASE k # key
      BY <1>2, <2>3, <3>2
    <3>3. QED
      BY <3>1, <3>2
  <2>8. QED
    BY <2>4, <2>6, <2>7 DEF PositionsOK, PositionsTyped, Solid
<1>4. CASE ~ Reducible(key, qty)
  BY <1>4 DEF ReducePosition, positionVars, PositionsOK, PositionsTyped, Solid
<1>5. QED
  BY <1>3, <1>4

LEMMA MarksKeep ==
    ASSUME PositionsOK, NEW price \in Nat, UpdatePositionMarks(price)
    PROVE  PositionsOK'
<1> DEFINE Marked(key) == [position[key] EXCEPT !.mark = price,
               !.unrealized = ProfitAndLoss(key[2], position[key].entry, price,
                                            position[key].qty)]
<1>1. /\ position \in [Keys -> Position] /\ cash \in [Keys -> Int]
      /\ \A k \in Keys : Solid(k[2], position[k])
  BY DEF PositionsOK, PositionsTyped
<1>2. ASSUME NEW key \in Keys
      PROVE  Solid(key[2], Marked(key))
  <2>1. position[key] \in Position
    BY <1>1
  <2>2. ProfitAndLoss(key[2], position[key].entry, price, position[key].qty) \in Int
    BY <2>1, KeyParts, ProfitTyped DEF Position
  <2>3. Marked(key) \in Position
    BY <2>1, <2>2 DEF Position
  <2>4. /\ Marked(key).qty = position[key].qty /\ Marked(key).entry = position[key].entry
        /\ Marked(key).leverage = position[key].leverage
        /\ Marked(key).margin = position[key].margin
        /\ Marked(key).liquidation = position[key].liquidation
    BY <2>1 DEF Position
  <2> HIDE DEF Marked
  <2>5. /\ CalculateMargin(Marked(key)) = CalculateMargin(position[key])
        /\ CalculateLiquidationPrice(key[2], Marked(key))
              = CalculateLiquidationPrice(key[2], position[key])
    BY <2>4 DEF CalculateMargin, CalculateLiquidationPrice
  <2>6. Solid(key[2], position[key])
    BY <1>1
  <2>7. QED
    BY <2>3, <2>4, <2>5, <2>6 DEF Solid
<1>3. position' = [key \in Keys |->
                      IF position[key].qty = 0 THEN position[key] ELSE Marked(key)]
  BY DEF UpdatePositionMarks
<1> HIDE DEF Marked
<1>4. ASSUME NEW key \in Keys
      PROVE  Solid(key[2], position'[key])
  BY <1>1, <1>2, <1>3
<1>5. position' \in [Keys -> Position]
  BY <1>3, <1>4 DEF Solid
<1>6. QED
  BY <1>1, <1>4, <1>5 DEF PositionsOK, PositionsTyped, UpdatePositionMarks, Solid

(* Nothing happens to the positions.                                        *)
LEMMA PositionsStay ==
    ASSUME PositionsOK, UNCHANGED positionVars
    PROVE  PositionsOK'
BY DEF PositionsOK, PositionsTyped, positionVars, Solid

-----------------------------------------------------------------------------
(* The liquidation engine keeps its types.                                  *)

LEMMA OrderTyped ==
    ASSUME NEW c \in Clone, NEW price \in Prices
    PROVE  OrderFor(c, price) \in LiquidationOrder
<1>1. /\ c.key \in Keys /\ c.pos \in Position
      /\ c.pos.qty \in Nat /\ c.pos.entry \in Nat /\ price \in Nat
  BY DEF Clone, Position
<1>2. ProfitAndLoss(c.key[2], c.pos.entry, price, c.pos.qty) \in Int
  BY <1>1, KeyParts, ProfitTyped
<1>3. - ProfitAndLoss(c.key[2], c.pos.entry, price, c.pos.qty) \in Int
  BY <1>2
<1>4. QED
  BY <1>1, <1>3 DEF OrderFor, LiquidationOrder

LEMMA MonitorKeeps ==
    ASSUME PositionsTyped, LiquidationTyped, Monitor
    PROVE  LiquidationTyped'
<1> USE LiquidationAssumption DEF LiquidationAssumption
<1>1. CASE ReadMark
  <2>1. check' = [step |-> "scan", price |-> mark, found |-> {}]
    BY <1>1 DEF ReadMark, NoCheck
  <2>2. QED
    BY <1>1, <2>1 DEF ReadMark, LiquidationTyped
<1>2. CASE Scan
  <2>1. Scanned(check.price) \subseteq Clone
    BY DEF Scanned, Clone, PositionsTyped
  <2>2. check' = [step |-> "send", price |-> check.price, found |-> Scanned(check.price)]
    BY <1>2 DEF Scan, LiquidationTyped
  <2>3. QED
    BY <1>2, <2>1, <2>2 DEF Scan, LiquidationTyped
<1>3. CASE LiquidatePosition
  <2>1. PICK c \in check.found :
            /\ check' = [check EXCEPT !.found = @ \ {c}]
            /\ liquidationChan' =
                  IF Len(liquidationChan) < LiquidationCapacity
                  THEN Append(liquidationChan, OrderFor(c, check.price))
                  ELSE liquidationChan
    BY <1>3 DEF LiquidatePosition
  <2>2. c \in Clone /\ check.price \in Prices
    BY <1>3 DEF LiquidationTyped, LiquidatePosition
  <2>3. OrderFor(c, check.price) \in LiquidationOrder
    BY <2>2, OrderTyped
  <2> DEFINE order == OrderFor(c, check.price)
  <2> HIDE DEF order
  <2>4. order \in LiquidationOrder
    BY <2>3 DEF order
  <2>5. /\ liquidationChan \in Seq(LiquidationOrder)
        /\ Len(liquidationChan) <= LiquidationCapacity
    BY DEF LiquidationTyped
  <2>6. liquidationChan' = IF Len(liquidationChan) < LiquidationCapacity
                           THEN Append(liquidationChan, order) ELSE liquidationChan
    BY <2>1 DEF order
  <2>7. /\ liquidationChan' \in Seq(LiquidationOrder)
        /\ Len(liquidationChan') <= LiquidationCapacity
    <3>1. CASE Len(liquidationChan) < LiquidationCapacity
      BY <2>4, <2>5, <2>6, <3>1
    <3>2. CASE ~ (Len(liquidationChan) < LiquidationCapacity)
      BY <2>5, <2>6, <3>2
    <3>3. QED
      BY <3>1, <3>2
  <2>8. check' = [step |-> check.step, price |-> check.price, found |-> check.found \ {c}]
    BY <2>1 DEF LiquidationTyped
  <2>9. QED
    BY <1>3, <2>7, <2>8 DEF LiquidatePosition, LiquidationTyped
<1>4. CASE EndCheck
  BY <1>4 DEF EndCheck, NoCheck, LiquidationTyped
<1>5. QED
  BY <1>1, <1>2, <1>3, <1>4 DEF Monitor

LEMMA ReceiveKeeps ==
    ASSUME LiquidationTyped, Receive
    PROVE  /\ LiquidationTyped'
           /\ Head(liquidationChan) \in LiquidationOrder
<1>1. /\ liquidationChan \in Seq(LiquidationOrder) /\ liquidationChan # <<>>
      /\ Len(liquidationChan) <= LiquidationCapacity
  BY DEF LiquidationTyped, Receive
<1>2. /\ Tail(liquidationChan) \in Seq(LiquidationOrder)
      /\ Len(Tail(liquidationChan)) <= LiquidationCapacity
      /\ Head(liquidationChan) \in LiquidationOrder
  BY <1>1, LiquidationAssumption DEF LiquidationAssumption
<1>3. QED
  BY <1>2 DEF Receive, LiquidationTyped

LEMMA MarkKeeps ==
    ASSUME LiquidationTyped, NEW price \in Prices, SetMark(price)
    PROVE  LiquidationTyped'
BY DEF SetMark, LiquidationTyped

LEMMA SucceededKeeps ==
    ASSUME LiquidationTyped, NEW order \in LiquidationOrder, NEW price \in Nat,
           NEW qty \in Nat, LiquidationSucceeded(order, price, qty)
    PROVE  LiquidationTyped'
<1> DEFINE remaining == ProfitAndLoss(order.key[2], order.price, price, qty)
<1>1. order.key \in Keys /\ order.price \in Int
  <2>1. order.key \in Keys /\ order.price \in Prices
    BY DEF LiquidationOrder
  <2>2. order.price \in Nat
    BY <2>1, PriceTyped
  <2>3. QED
    BY <2>1, <2>2
<1>2. remaining \in Int
  BY <1>1, KeyParts, ProfitTyped
<1>3. insuranceFund' = IF remaining > 0 THEN insuranceFund + remaining ELSE insuranceFund
  BY DEF LiquidationSucceeded
<1> HIDE DEF remaining
<1>4. insuranceFund' \in Nat
  BY <1>2, <1>3 DEF LiquidationTyped
<1>5. QED
  BY <1>4 DEF LiquidationSucceeded, LiquidationTyped

LEMMA FailedKeeps ==
    ASSUME LiquidationTyped, NEW order \in LiquidationOrder, LiquidationFailed(order)
    PROVE  LiquidationTyped'
<1>1. adlChan \in Seq(LiquidationOrder) /\ Len(adlChan) <= ADLCapacity
  BY DEF LiquidationTyped
<1>2. adlChan' = IF Len(adlChan) < ADLCapacity THEN Append(adlChan, order) ELSE adlChan
  BY DEF LiquidationFailed
<1>3. adlChan' \in Seq(LiquidationOrder) /\ Len(adlChan') <= ADLCapacity
  <2>1. CASE Len(adlChan) < ADLCapacity
    BY <1>1, <1>2, <2>1, LiquidationAssumption DEF LiquidationAssumption
  <2>2. CASE ~ (Len(adlChan) < ADLCapacity)
    BY <1>1, <1>2, <2>2
  <2>3. QED
    BY <2>1, <2>2
<1>4. QED
  BY <1>3 DEF LiquidationFailed, LiquidationTyped

LEMMA LiquidationStays ==
    ASSUME LiquidationTyped, UNCHANGED liquidationVars
    PROVE  LiquidationTyped'
BY DEF LiquidationTyped, liquidationVars

-----------------------------------------------------------------------------
(* Calls.                                                                   *)

(* What each step's frame holds.                                            *)
LEMMA FrameKinds ==
    ASSUME NEW f \in Frame
    PROVE  /\ f.step = "orders" => f.todo \in Seq(ContractForm) \ {<<>>}
           /\ f.step \in {"match", "settle"} =>
                 f.order \in ContractOrder /\ f.todo \in Seq(ContractForm)
           /\ f.step = "settle" => f.price \in TradePrices /\ f.qty \in Nat
           /\ f.step = "close" => f.key \in Keys /\ f.price \in Prices
           /\ f.step = "reduce" => f.key \in Keys /\ f.price \in Prices /\ f.qty \in Nat
           /\ f.step \in {"validate", "set"} => f.key \in Keys /\ f.prices \in TPSLPrices
           /\ f.step \in {"mark", "check"} => f.price \in Prices
           /\ f.step \in {"liquidate", "liquidated"} => f.order \in LiquidationOrder
           /\ f.step = "liquidated" => f.price \in TradePrices /\ f.qty \in Nat
BY DEF Frame, Free

LEMMA OrdersFrame ==
    ASSUME NEW todo \in Seq(ContractForm)
    PROVE  /\ Orders(todo) \in Frame /\ Levered(Orders(todo))
           /\ Orders(todo).step \in {"free", "orders"}
BY DEF Orders, Frame, Free, Levered

(* Two fields of a call change.                                             *)
LEMMA ContinueKeeps ==
    ASSUME CallsOK, NEW g \in Goroutines, NEW f \in Frame, Levered(f), Continue(g, f)
    PROVE  CallsOK'
<1>1. call' = [call EXCEPT ![g] = f] /\ calls' = calls
  BY DEF Continue
<1>2. call' \in [Goroutines -> Frame]
  BY <1>1 DEF CallsOK
<1>3. ASSUME NEW h \in Goroutines
      PROVE  Levered(call'[h])
  BY <1>1 DEF CallsOK
<1>4. QED
  BY <1>1, <1>2, <1>3 DEF CallsOK, Levered

LEMMA BeginKeeps ==
    ASSUME CallsOK, NEW g \in Goroutines, NEW f \in Frame, Levered(f), Begin(g, f)
    PROVE  CallsOK'
<1>1. call' = [call EXCEPT ![g] = f] /\ calls' = calls + 1 /\ calls < MaxCalls
  BY DEF Begin
<1>2. call' \in [Goroutines -> Frame]
  BY <1>1 DEF CallsOK
<1>3. ASSUME NEW h \in Goroutines
      PROVE  Levered(call'[h])
  BY <1>1 DEF CallsOK
<1>4. calls' \in 0 .. MaxCalls
  BY <1>1, ContractAssumption DEF CallsOK, ContractAssumption
<1>5. QED
  BY <1>2, <1>3, <1>4 DEF CallsOK, Levered

(* An order that is admitted is one, and has a leverage.                    *)
LEMMA AdmissionTyped ==
    ASSUME PositionsTyped, NEW f \in ContractForm, NEW o \in Admission(f)
    PROVE  o \in ContractOrder /\ o.leverage # 0
<1> DEFINE reduces == f.reduceOnly \/ f.closePosition
           key == <<f.user, IF reduces THEN GetOppositePositionSide(f)
                            ELSE GetPositionSide(f)>>
           held == position[key].qty
           qty == IF f.reduceOnly THEN (IF f.qty > held THEN held ELSE f.qty)
                  ELSE IF f.closePosition THEN held ELSE f.qty
<1>1. /\ f.user \in Users /\ f.side \in OrderSides /\ f.type \in OrderTypes
      /\ f.price \in Int /\ reduces \in BOOLEAN
      /\ f.positionSide \in PositionSides \cup {"BOTH"}
  BY DEF ContractForm
<1>2. GetOppositePositionSide(f) \in PositionSides /\ GetPositionSide(f) \in PositionSides
  BY <1>1 DEF GetOppositePositionSide, GetPositionSide, PositionSides
<1>3. key \in Keys
  BY <1>1, <1>2 DEF Keys
<1>4. held \in Nat
  BY <1>3 DEF PositionsTyped, Position
<1>5. /\ o = [key |-> key, reduces |-> reduces, side |-> f.side, type |-> f.type,
              price |-> f.price, qty |-> qty, leverage |-> f.leverage]
      /\ Valid(f)
  BY DEF Admission
<1>6. f.leverage \in Nat \ {0} /\ f.qty \in Nat /\ qty \in Nat
  <2>1. f.leverage \in 1 .. MaxLeverage /\ f.qty \in 1 .. MaxOrderQty
    BY <1>5 DEF Valid
  <2>2. f.leverage \in Nat \ {0} /\ f.qty \in Nat
    BY <2>1, ContractAssumption DEF ContractAssumption
  <2>3. QED
    BY <1>4, <2>2
<1> HIDE DEF key, held, qty, reduces
<1>7. o \in ContractOrder
  BY <1>1, <1>3, <1>5, <1>6 DEF ContractOrder
<1>8. QED
  BY <1>5, <1>6, <1>7

LEMMA ProcessFrame ==
    ASSUME PositionsTyped, NEW f \in ContractForm, NEW todo \in Seq(ContractForm)
    PROVE  Process(f, todo) \in Frame /\ Levered(Process(f, todo))
<1>1. CASE Admission(f) = {}
  BY <1>1, OrdersFrame DEF Process
<1>2. CASE Admission(f) # {}
  <2> DEFINE o == CHOOSE x \in Admission(f) : TRUE
  <2>1. o \in Admission(f)
    BY <1>2
  <2>2. Process(f, todo) = [step |-> "match", order |-> o, todo |-> todo]
    BY <1>2 DEF Process
  <2> HIDE DEF o
  <2>3. o \in ContractOrder /\ o.leverage # 0
    BY <2>1, AdmissionTyped
  <2>4. QED
    BY <2>2, <2>3 DEF Frame, Levered
<1>3. QED
  BY <1>1, <1>2

-----------------------------------------------------------------------------
(* Every action keeps the invariant.                                        *)

LEMMA InitEstablishes == Init => IInv
<1> SUFFICES ASSUME Init
             PROVE  IInv
  OBVIOUS
<1>1. PositionsOK
  <2>1. NewPosition \in Position /\ NewPosition.qty = 0
    BY DEF NewPosition, Position
  <2>2. QED
    BY <2>1 DEF Init, PositionInit, PositionsOK, PositionsTyped, Solid
<1>2. LiquidationTyped
  BY LiquidationAssumption
     DEF Init, LiquidationInit, LiquidationTyped, NoCheck, LiquidationAssumption
<1>3. CallsOK
  BY ContractAssumption DEF Init, CallsOK, Frame, Free, Levered, ContractAssumption
<1>4. EntriesOK
  BY DEF Init, EntriesOK, NoTPSL
<1>5. QED
  BY <1>1, <1>2, <1>3, <1>4 DEF Init, IInv

LEMMA ClientKeeps ==
    ASSUME IInv, NEW g \in Goroutines, Client(g)
    PROVE  IInv'
<1> USE DEF IInv
<1>1. Free \in Frame /\ Levered(Free)
  BY DEF Frame, Free, Levered
<1>2. ASSUME NEW f \in ContractForms, CreateContractOrder(g, f)
      PROVE  IInv'
  <2>1. f \in ContractForm /\ <<>> \in Seq(ContractForm)
    BY FormsAssumption DEF FormsAssumption
  <2>2. Process(f, <<>>) \in Frame /\ Levered(Process(f, <<>>))
    BY <2>1, ProcessFrame DEF PositionsOK
  <2>3. CallsOK'
    BY <1>2, <2>2, BeginKeeps DEF CreateContractOrder
  <2>4. QED
    BY <1>2, <2>3, PositionsStay, LiquidationStays DEF CreateContractOrder, EntriesOK
<1>3. ASSUME NEW key \in Keys, ClosePosition(g, key)
      PROVE  IInv'
  <2> DEFINE f == [step |-> "close", key |-> key, price |-> mark]
  <2>1. mark \in Prices
    BY <1>3 DEF LiquidationTyped, ClosePosition
  <2>2. f \in Frame /\ Levered(f)
    BY <2>1 DEF Frame, Levered
  <2>3. CallsOK'
    BY <1>3, <2>2, BeginKeeps DEF ClosePosition
  <2>4. QED
    BY <1>3, <2>3, PositionsStay, LiquidationStays DEF ClosePosition, EntriesOK
<1>4. ASSUME NEW key \in Keys, CancelPositionTPSL(g, key)
      PROVE  IInv'
  <2>1. CallsOK'
    BY <1>1, <1>4, BeginKeeps DEF CancelPositionTPSL
  <2>2. EntriesOK'
    BY <1>4 DEF CancelPositionTPSL, EntriesOK, NoTPSL
  <2>3. QED
    BY <1>4, <2>1, <2>2, PositionsStay, LiquidationStays DEF CancelPositionTPSL
<1>5. ASSUME NEW key \in Keys, NEW prices \in TPSLPrices, SetPositionTPSL(g, key, prices)
      PROVE  IInv'
  <2> DEFINE f == [step |-> "validate", key |-> key, prices |-> prices]
  <2>1. f \in Frame /\ Levered(f)
    BY DEF Frame, Levered
  <2>2. CallsOK'
    BY <1>5, <2>1, BeginKeeps DEF SetPositionTPSL
  <2>3. QED
    BY <1>5, <2>2, PositionsStay, LiquidationStays DEF SetPositionTPSL, EntriesOK
<1>6. ASSUME NEW price \in Prices, UpdateMarkPrice(g, price)
      PROVE  IInv'
  <2> DEFINE f == [step |-> "mark", price |-> price]
  <2>1. f \in Frame /\ Levered(f)
    BY DEF Frame, Levered
  <2>2. CallsOK'
    BY <1>6, <2>1, BeginKeeps DEF UpdateMarkPrice
  <2>3. QED
    BY <1>6, <2>2, PositionsStay, MarkKeeps DEF UpdateMarkPrice, EntriesOK
<1>7. QED
  BY <1>2, <1>3, <1>4, <1>5, <1>6 DEF Client

LEMMA EngineKeeps ==
    ASSUME IInv, NEW g \in Goroutines, Engine(g)
    PROVE  IInv'
<1> USE DEF IInv
<1> DEFINE f == call[g]
<1>1. f \in Frame /\ Levered(f) /\ PositionsTyped
  BY DEF CallsOK, PositionsOK
<1>2. Free \in Frame /\ Levered(Free)
  BY DEF Frame, Free, Levered
<1>3. CASE ProcessTriggered(g)
  <2>1. f.todo \in Seq(ContractForm) \ {<<>>}
    BY <1>1, <1>3, FrameKinds DEF ProcessTriggered
  <2>2. Head(f.todo) \in ContractForm /\ Tail(f.todo) \in Seq(ContractForm)
    BY <2>1
  <2> DEFINE next == Process(Head(f.todo), Tail(f.todo))
  <2>3. next \in Frame /\ Levered(next)
    BY <1>1, <2>2, ProcessFrame
  <2>4. CallsOK'
    BY <1>3, <2>3, ContinueKeeps DEF ProcessTriggered
  <2>5. QED
    BY <1>3, <2>4, PositionsStay, LiquidationStays DEF ProcessTriggered, EntriesOK
<1>4. CASE Match(g)
  <2>1. f.order \in ContractOrder /\ f.todo \in Seq(ContractForm) /\ f.order.leverage # 0
    BY <1>1, <1>4, FrameKinds DEF Match, Levered
  <2>2. CASE Continue(g, Orders(f.todo))
    <3>1. CallsOK'
      BY <2>1, <2>2, OrdersFrame, ContinueKeeps
    <3>2. QED
      BY <1>4, <3>1, PositionsStay, LiquidationStays DEF Match, EntriesOK
  <2>3. ASSUME NEW qty \in 1 .. f.order.qty, NEW price \in TradePrices,
               Continue(g, [step |-> "settle", order |-> f.order, price |-> price,
                            qty |-> qty, todo |-> f.todo])
        PROVE  IInv'
    <3> DEFINE next == [step |-> "settle", order |-> f.order, price |-> price,
                        qty |-> qty, todo |-> f.todo]
    <3>1. qty \in Nat
      BY <2>1 DEF ContractOrder
    <3>2. next \in Frame /\ Levered(next)
      BY <2>1, <3>1 DEF Frame, Levered
    <3>3. CallsOK'
      BY <2>3, <3>2, ContinueKeeps
    <3>4. QED
      BY <1>4, <3>3, PositionsStay, LiquidationStays DEF Match, EntriesOK
  <2>4. QED
    BY <1>4, <2>2, <2>3 DEF Match
<1>5. CASE Settle(g)
  <2>1. /\ f.order \in ContractOrder /\ f.todo \in Seq(ContractForm)
        /\ f.order.leverage # 0 /\ f.price \in TradePrices /\ f.qty \in Nat
    BY <1>1, <1>5, FrameKinds DEF Settle, Levered
  <2>2. /\ f.order.key \in Keys /\ f.price \in Nat /\ f.order.leverage \in Nat \ {0}
    BY <2>1, PriceTyped DEF ContractOrder
  <2>3. PositionsOK' /\ unsettled' \in Nat
    <3>1. CASE f.order.reduces
      <4>1. Reduce(f.order.key, f.price, f.qty)
        BY <1>5, <3>1 DEF Settle
      <4>2. PositionsOK'
        BY <2>1, <2>2, <4>1, ReduceKeeps DEF Reduce
      <4>3. QED
        BY <2>1, <4>1, <4>2 DEF Reduce
    <3>2. CASE ~ f.order.reduces
      <4>1. UpdatePosition(f.order.key, f.price, f.qty, f.order.leverage)
        BY <1>5, <3>2 DEF Settle
      <4>2. PositionsOK'
        BY <2>1, <2>2, <4>1, UpdateKeeps
      <4>3. QED
        BY <1>5, <3>2, <4>2 DEF Settle
    <3>3. QED
      BY <3>1, <3>2
  <2>4. CallsOK'
    BY <1>5, <2>1, OrdersFrame, ContinueKeeps DEF Settle
  <2>5. QED
    BY <1>5, <2>3, <2>4, LiquidationStays DEF Settle, EntriesOK
<1>6. CASE CloseAll(g)
  <2>1. f.key \in Keys /\ f.price \in Prices
    BY <1>1, <1>6, FrameKinds DEF CloseAll
  <2> DEFINE held == position[f.key].qty
             next == IF held = 0 THEN Free
                     ELSE [step |-> "reduce", key |-> f.key, price |-> f.price, qty |-> held]
  <2>2. held \in Nat
    BY <1>1, <2>1 DEF PositionsTyped, Position
  <2>3. next \in Frame /\ Levered(next)
    BY <1>2, <2>1, <2>2 DEF Frame, Levered
  <2>4. CallsOK'
    BY <1>6, <2>3, ContinueKeeps DEF CloseAll
  <2>5. QED
    BY <1>6, <2>4, PositionsStay, LiquidationStays DEF CloseAll, EntriesOK
<1>7. CASE CloseReduce(g)
  <2>1. f.key \in Keys /\ f.price \in Nat /\ f.qty \in Nat
    BY <1>1, <1>7, FrameKinds, PriceTyped DEF CloseReduce
  <2>2. PositionsOK'
    BY <1>7, <2>1, ReduceKeeps DEF CloseReduce
  <2>3. CallsOK'
    BY <1>2, <1>7, ContinueKeeps DEF CloseReduce
  <2>4. QED
    BY <1>7, <2>2, <2>3, LiquidationStays DEF CloseReduce, EntriesOK
<1>8. CASE ValidateTPSL(g)
  <2>1. f.key \in Keys /\ f.prices \in TPSLPrices
    BY <1>1, <1>8, FrameKinds DEF ValidateTPSL
  <2>2. [f EXCEPT !.step = "set"] = [step |-> "set", key |-> f.key, prices |-> f.prices]
    BY <1>1, <1>8 DEF ValidateTPSL, Frame, Free
  <2>3. [f EXCEPT !.step = "set"] \in Frame /\ Levered([f EXCEPT !.step = "set"])
    BY <2>1, <2>2 DEF Frame, Levered
  <2>4. CallsOK'
    BY <1>2, <1>8, <2>3, ContinueKeeps DEF ValidateTPSL
  <2>5. QED
    BY <1>8, <2>4, PositionsStay, LiquidationStays DEF ValidateTPSL, EntriesOK
<1>9. CASE StoreTPSL(g)
  <2>1. f.prices \in [tp : Nat, sl : Nat]
    BY <1>1, <1>9, FrameKinds, ContractAssumption DEF StoreTPSL, ContractAssumption
  <2>2. EntriesOK'
    BY <1>9, <2>1 DEF StoreTPSL, EntriesOK
  <2>3. CallsOK'
    BY <1>2, <1>9, ContinueKeeps DEF StoreTPSL
  <2>4. QED
    BY <1>9, <2>2, <2>3, PositionsStay, LiquidationStays DEF StoreTPSL
<1>10. CASE MarkPositions(g)
  <2>1. f.price \in Prices /\ f.price \in Nat
    BY <1>1, <1>10, FrameKinds, PriceTyped DEF MarkPositions
  <2>2. PositionsOK'
    BY <1>10, <2>1, MarksKeep DEF MarkPositions
  <2>3. [f EXCEPT !.step = "check"] = [step |-> "check", price |-> f.price]
    BY <1>1, <1>10 DEF MarkPositions, Frame, Free
  <2>4. [f EXCEPT !.step = "check"] \in Frame /\ Levered([f EXCEPT !.step = "check"])
    BY <2>1, <2>3 DEF Frame, Levered
  <2>5. CallsOK'
    BY <1>10, <2>4, ContinueKeeps DEF MarkPositions
  <2>6. QED
    BY <1>10, <2>2, <2>5, LiquidationStays DEF MarkPositions, EntriesOK
<1>11. CASE CheckTPSLTriggers(g)
  <2> DEFINE closing == {CloseOrder(key) :
                        key \in UNION {PositionOf(name) :
                            name \in {n \in TPSLNames : Triggered(n, f.price)}}}
  <2>1. closing \subseteq ContractForm
    <3>1. ASSUME NEW key \in Keys
          PROVE  CloseOrder(key) \in ContractForm
      <4>1. position[key] \in Position
        BY <1>1 DEF PositionsTyped
      <4>2. position[key].qty \in Nat /\ position[key].leverage \in Nat
        BY <4>1 DEF Position
      <4>3. QED
        BY <4>2, KeyParts DEF CloseOrder, ContractForm, OrderSides, OrderTypes
    <3>2. QED
      BY <3>1 DEF PositionOf
  <2>2. PICK todo \in Bijection(1 .. Cardinality(closing), closing) : Continue(g, Orders(todo))
    BY <1>11 DEF CheckTPSLTriggers
  <2>3. todo \in Seq(ContractForm)
    <3>1. todo \in [1 .. Cardinality(closing) -> closing]
      BY DEF Bijection, Injection, Surjection
    <3>2. Cardinality(closing) \in Nat
      <4> DEFINE keys == UNION {PositionOf(name) :
                             name \in {n \in TPSLNames : Triggered(n, f.price)}}
      <4>1. IsFiniteSet(Keys)
        <5>1. IsFiniteSet({"LONG"}) /\ PositionSides = {"LONG"} \cup {"SHORT"}
          BY FS_Singleton DEF PositionSides
        <5>2. IsFiniteSet(PositionSides)
          BY <5>1, FS_AddElement
        <5>3. QED
          BY <5>2, ContractAssumption, FS_Product DEF Keys, ContractAssumption
      <4>2. keys \subseteq Keys
        BY DEF PositionOf
      <4>3. IsFiniteSet(keys)
        BY <4>1, <4>2, FS_Subset
      <4>4. closing = {CloseOrder(key) : key \in keys}
        OBVIOUS
      <4> HIDE DEF keys, closing
      <4>5. [key \in keys |-> CloseOrder(key)] \in Surjection(keys, closing)
        BY <4>4 DEF Surjection
      <4>6. QED
        BY <4>3, <4>5, FS_Surjection, FS_CardinalityType
    <3> HIDE DEF closing
    <3>3. QED
      BY <2>1, <3>1, <3>2
  <2>4. CallsOK'
    BY <2>2, <2>3, OrdersFrame, ContinueKeeps
  <2>5. EntriesOK'
    BY <1>11 DEF CheckTPSLTriggers, EntriesOK, NoTPSL
  <2>6. QED
    BY <1>11, <2>4, <2>5, PositionsStay, LiquidationStays DEF CheckTPSLTriggers
<1>12. QED
  BY <1>3, <1>4, <1>5, <1>6, <1>7, <1>8, <1>9, <1>10, <1>11 DEF Engine

LEMMA LiquidatorKeeps ==
    ASSUME IInv, NEW g \in Goroutines, Liquidator(g)
    PROVE  IInv'
<1> USE DEF IInv
<1> DEFINE f == call[g]
<1>1. f \in Frame
  BY DEF CallsOK
<1>2. Free \in Frame /\ Levered(Free)
  BY DEF Frame, Free, Levered
<1>3. CASE TakeLiquidation(g)
  <2> DEFINE next == [step |-> "liquidate", order |-> Head(liquidationChan)]
  <2>1. LiquidationTyped' /\ Head(liquidationChan) \in LiquidationOrder
    BY <1>3, ReceiveKeeps DEF TakeLiquidation
  <2>2. next \in Frame /\ Levered(next)
    BY <2>1 DEF Frame, Levered
  <2>3. CallsOK'
    BY <1>3, <2>2, BeginKeeps DEF TakeLiquidation
  <2>4. QED
    BY <1>3, <2>1, <2>3, PositionsStay DEF TakeLiquidation, EntriesOK
<1>4. CASE MatchLiquidation(g)
  <2>1. f.order \in LiquidationOrder
    BY <1>1, <1>4, FrameKinds DEF MatchLiquidation
  <2>2. CASE LiquidationFailed(f.order) /\ Continue(g, Free)
    <3>1. LiquidationTyped'
      BY <2>1, <2>2, FailedKeeps
    <3>2. CallsOK'
      BY <1>2, <2>2, ContinueKeeps
    <3>3. QED
      BY <1>4, <3>1, <3>2, PositionsStay DEF MatchLiquidation, EntriesOK
  <2>3. ASSUME NEW qty \in 1 .. f.order.qty, NEW price \in TradePrices,
               Continue(g, [step |-> "liquidated", order |-> f.order, price |-> price,
                            qty |-> qty]),
               UNCHANGED liquidationVars
        PROVE  IInv'
    <3> DEFINE next == [step |-> "liquidated", order |-> f.order, price |-> price,
                        qty |-> qty]
    <3>1. qty \in Nat
      BY <2>1 DEF LiquidationOrder
    <3>2. next \in Frame /\ Levered(next)
      BY <2>1, <3>1 DEF Frame, Levered
    <3>3. CallsOK'
      BY <2>3, <3>2, ContinueKeeps
    <3>4. QED
      BY <1>4, <2>3, <3>3, PositionsStay, LiquidationStays DEF MatchLiquidation, EntriesOK
  <2>4. QED
    BY <1>4, <2>2, <2>3 DEF MatchLiquidation
<1>5. CASE SettleLiquidation(g)
  <2>1. /\ f.order \in LiquidationOrder /\ f.price \in Nat /\ f.qty \in Nat
        /\ f.order.key \in Keys
    BY <1>1, <1>5, FrameKinds, PriceTyped DEF SettleLiquidation, LiquidationOrder
  <2>2. PositionsOK' /\ unsettled' \in Nat
    BY <1>5, <2>1, ReduceKeeps DEF SettleLiquidation, Reduce
  <2>3. LiquidationTyped'
    BY <1>5, <2>1, SucceededKeeps DEF SettleLiquidation
  <2>4. CallsOK'
    BY <1>2, <1>5, ContinueKeeps DEF SettleLiquidation
  <2>5. QED
    BY <1>5, <2>2, <2>3, <2>4 DEF SettleLiquidation, EntriesOK
<1>6. QED
  BY <1>3, <1>4, <1>5 DEF Liquidator

LEMMA NextKeeps == IInv /\ [Next]_vars => IInv'
<1> SUFFICES ASSUME IInv, [Next]_vars
             PROVE  IInv'
  OBVIOUS
<1> USE DEF IInv
<1>1. ASSUME NEW g \in Goroutines, Client(g) \/ Engine(g)
      PROVE  IInv'
  BY <1>1, ClientKeeps, EngineKeeps
<1>2. ASSUME NEW g \in Liquidators, Liquidator(g)
      PROVE  IInv'
  BY <1>2, LiquidatorKeeps, ContractAssumption DEF ContractAssumption
<1>3. CASE MonitorStep
  <2>1. LiquidationTyped'
    BY <1>3, MonitorKeeps DEF MonitorStep, PositionsOK
  <2>2. QED
    BY <1>3, <2>1, PositionsStay
       DEF MonitorStep, contractVars, CallsOK, EntriesOK, Levered
<1>4. CASE SubscribeLiquidations
  <2>1. LiquidationTyped'
    BY <1>4, ReceiveKeeps DEF SubscribeLiquidations
  <2>2. QED
    BY <1>4, <2>1, PositionsStay
       DEF SubscribeLiquidations, contractVars, CallsOK, EntriesOK, Levered
<1>5. CASE UNCHANGED vars
  BY <1>5, PositionsStay, LiquidationStays
     DEF vars, contractVars, CallsOK, EntriesOK, Levered
<1>6. QED
  BY <1>1, <1>2, <1>3, <1>4, <1>5 DEF Next

LEMMA InvariantAlways == Spec => []IInv
BY InitEstablishes, NextKeeps, PTL DEF Spec

-----------------------------------------------------------------------------
(* Theorems.                                                                *)

(* Whatever the calls in flight, positions, channels, entries and frames stay *)
(* within their types: no quantity becomes negative although reductions work *)
(* on quantities read earlier, and no channel exceeds its capacity           *)
(* (position/manager.go:127-132, liquidation/engine.go:145-152).            *)
THEOREM ContractsTyped == Spec => []TypeOK
<1>1. IInv => TypeOK
  BY DEF IInv, TypeOK, PositionsOK, CallsOK, EntriesOK
<1>2. QED
  BY <1>1, InvariantAlways, PTL

(* At every scan, for every leverage, maintenance rate and unit of rounding,  *)
(* the monitor finds the positions whose effective margin at the price it     *)
(* read has come down to the maintenance of their entry value, and no other, *)
(* but for what the divisions behind margin and liquidation price round; and *)
(* against maintenance at the mark price it misses no long that has lost and *)
(* takes no short that has lost too early                                    *)
(* (position/manager.go:171-204, 270-294, liquidation/engine.go:239-249).   *)
THEOREM LiquidationExactAlways == Spec => LiquidationExact
<1> DEFINE Verdict(key) ==
        LET side == key[2]
            pos == position[key]
            price == check.price
            taken == [key |-> key, pos |-> pos] \in check'.found
            atMark == CalculateMaintenanceMargin(pos, price)
        IN  /\ SurelyBelow(side, pos, price, EntryMaintenance(pos)) => taken
            /\ taken => PerhapsBelow(side, pos, price, EntryMaintenance(pos))
            /\ side = "LONG" /\ price <= pos.entry =>
                   (SurelyBelow(side, pos, price, atMark) => taken)
            /\ side = "SHORT" /\ price >= pos.entry =>
                   (taken => PerhapsBelow(side, pos, price, atMark))
<1>1. IInv /\ [Next]_vars => [Scan => \A key \in Keys : Verdict(key)]_vars
  <2> SUFFICES ASSUME IInv, Scan, NEW key \in Keys
               PROVE  Verdict(key)
    OBVIOUS
  <2>1. check'.found = Scanned(check.price)
    BY DEF Scan, IInv, LiquidationTyped
  <2>2. [key |-> key, pos |-> position[key]] \in Scanned(check.price)
            <=> NeedsLiquidation(key[2], position[key], check.price)
    BY DEF Scanned
  <2>3. Solid(key[2], position[key]) /\ key[2] \in PositionSides
    BY KeyParts DEF IInv, PositionsOK
  <2>4. check.price \in Nat
    <3>1. check.price \in Prices \cup {0}
      BY DEF IInv, LiquidationTyped
    <3>2. CASE check.price \in Prices
      BY <3>2, PriceTyped
    <3>3. CASE check.price = 0
      BY <3>3
    <3>4. QED
      BY <3>1, <3>2, <3>3
  <2>5. QED
    BY <2>1, <2>2, <2>3, <2>4, LiquidationSound
<1>2. QED
  BY <1>1, InvariantAlways, PTL DEF Spec, LiquidationExact

(* A user id without underscores is a sequence of one part, and an entry's   *)
(* key leads back to its position.                                          *)
LEMMA KeyRecovered ==
    ASSUME NEW key \in Keys, Len(key[1]) = 1
    PROVE  PositionOf(TPSLName(key)) = {key}
<1>1. /\ key[1] \in Seq(STRING) /\ key = <<key[1], key[2]>>
      /\ \A k \in Keys : k = <<k[1], k[2]>>
  BY ContractAssumption DEF Keys, ContractAssumption
<1>2. key[1] = <<key[1][1]>>
  <2> DEFINE user == key[1]
  <2>1. user \in Seq(STRING) /\ Len(user) = 1
    BY <1>1
  <2> HIDE DEF user
  <2>2. user = <<user[1]>>
    BY <2>1
  <2>3. QED
    BY <2>2 DEF user
<1>3. TPSLName(key) = <<key[1][1], key[2]>>
  <2>1. ASSUME NEW a, NEW b
        PROVE  <<a>> \o <<b>> = <<a, b>>
    <3>1. <<a>> \in Seq({a, b}) /\ b \in {a, b}
      OBVIOUS
    <3>2. <<a>> \o <<b>> = Append(<<a>>, b)
      BY <3>1, AppendIsConcat
    <3>3. /\ Append(<<a>>, b) \in Seq({a, b}) /\ Len(Append(<<a>>, b)) = 2
          /\ Append(<<a>>, b)[1] = a /\ Append(<<a>>, b)[2] = b
      BY <3>1, AppendProperties
    <3>4. Append(<<a>>, b) = <<a, b>>
      <4>1. <<a, b>> \in Seq({a, b}) /\ Len(<<a, b>>) = 2
        OBVIOUS
      <4>2. \A i \in 1 .. 2 : Append(<<a>>, b)[i] = <<a, b>>[i]
        BY <3>3
      <4>3. QED
        BY <3>3, <4>1, <4>2, SeqEqual
    <3>5. QED
      BY <3>2, <3>4
  <2>2. TPSLName(key) = <<key[1][1]>> \o <<key[2]>>
    BY <1>2 DEF TPSLName
  <2>3. QED
    BY <2>1, <2>2
<1>4. <<Head(TPSLName(key))>> = key[1] /\ Tail(TPSLName(key)) = <<key[2]>>
  BY <1>2, <1>3
<1>5. ASSUME NEW k \in Keys
      PROVE  k[1] = key[1] /\ <<k[2]>> = <<key[2]>> <=> k = key
  BY <1>1
<1>6. QED
  BY <1>4, <1>5 DEF PositionOf

(* Where no user id holds an underscore, a take-profit or stop-loss price of  *)
(* an open position goes away only when its user replaces it or a mark price *)
(* has reached it (contract_engine.go:700-752, 769-794).                    *)
THEOREM TPSLStandsAlways ==
    ASSUME \A user \in Users : Len(user) = 1
    PROVE  Spec => TPSLStands
<1> DEFINE Name(key) == TPSLName(key)
           High(key) == IF key[2] = "LONG" THEN tpsl[Name(key)].tp ELSE tpsl[Name(key)].sl
           Low(key) == IF key[2] = "LONG" THEN tpsl[Name(key)].sl ELSE tpsl[Name(key)].tp
<1>1. ASSUME IInv, Next, NEW key \in Keys
      PROVE  EntryStands(key)
  <2>1. call \in [Goroutines -> Frame] /\ calls \in Nat /\ EntriesOK
    BY <1>1 DEF IInv, CallsOK
  <2>2. ASSUME NEW g \in Goroutines, StoreTPSL(g)
        PROVE  EntryStands(key)
    <3>1. call[g].step = "set" /\ call'[g] = Free
      BY <2>1, <2>2 DEF StoreTPSL, Continue
    <3>2. QED
      BY <3>1 DEF EntryStands
  <2>3. ASSUME NEW g \in Goroutines, NEW k \in Keys, CancelPositionTPSL(g, k)
        PROVE  EntryStands(key)
    <3>1. call[g] = Free /\ calls' > calls
      BY <2>1, <2>3 DEF CancelPositionTPSL, Begin
    <3>2. QED
      BY <3>1 DEF EntryStands
  <2>4. ASSUME NEW g \in Goroutines, CheckTPSLTriggers(g)
        PROVE  EntryStands(key)
    <3>1. /\ call[g].step = "check"
          /\ tpsl' = [name \in TPSLNames |->
                          IF Gone(name) \/ Triggered(name, call[g].price) THEN NoTPSL
                          ELSE tpsl[name]]
      BY <2>4 DEF CheckTPSLTriggers
    <3>2. call'[g] # call[g]
      <4>1. PICK todo : call' = [call EXCEPT ![g] = Orders(todo)]
        BY <2>4 DEF CheckTPSLTriggers, Continue
      <4>2. call'[g] = Orders(todo)
        BY <2>1, <4>1
      <4>3. Orders(todo).step # "check"
        BY DEF Orders, Free
      <4>4. QED
        BY <3>1, <4>2, <4>3
    <3>3. Name(key) \in TPSLNames
      BY DEF TPSLNames
    <3>4. PositionOf(Name(key)) = {key}
      BY KeyParts, KeyRecovered
    <3>5. CASE Gone(Name(key))
      BY <3>4, <3>5 DEF Gone, EntryStands
    <3>6. CASE Triggered(Name(key), call[g].price)
      <4>1. Reached(key, call[g].price)
        BY <3>4, <3>6 DEF Triggered
      <4>2. \/ High(key) # 0 /\ call[g].price >= High(key)
            \/ Low(key) # 0 /\ call[g].price <= Low(key)
        BY <4>1 DEF Reached
      <4>3. QED
        BY <3>1, <3>2, <4>2 DEF EntryStands
    <3>7. CASE ~ Gone(Name(key)) /\ ~ Triggered(Name(key), call[g].price)
      BY <3>1, <3>3, <3>7 DEF EntryStands
    <3>8. QED
      BY <3>5, <3>6, <3>7
  <2>5. CASE UNCHANGED tpsl
    BY <2>5 DEF EntryStands
  <2>6. QED
    BY <1>1, <2>2, <2>3, <2>4, <2>5
       DEF Next, Client, Engine, Liquidator, MonitorStep, contractVars,
           CreateContractOrder, ProcessTriggered, Match, Settle, ClosePosition, CloseAll,
           CloseReduce, SetPositionTPSL, ValidateTPSL, UpdateMarkPrice, MarkPositions,
           TakeLiquidation, MatchLiquidation, SettleLiquidation, SubscribeLiquidations
<1>2. IInv /\ [Next]_vars => [\A key \in Keys : EntryStands(key)]_vars
  BY <1>1
<1>3. QED
  BY <1>2, InvariantAlways, PTL DEF Spec, TPSLStands

-----------------------------------------------------------------------------
(* What positions realize and what their trades bring in.                   *)

\* What the open part of a position brought in.
Owed(side, pos) == ProfitAndLoss(side, pos.entry, 0, pos.qty)

\* The average of the entry price and a trade's is a price of the model.
Exact(pos, price, qty) ==
    pos.qty = 0 \/ (pos.qty * pos.entry + qty * price) % (pos.qty + qty) = 0

\* The amount a position has realized beyond what its trades account for.
Discrepancy(key) == position[key].realized - (cash[key] - Owed(key[2], position[key]))

\* What rounding an average price makes of a quantity: half a unit for each.
Rounding(qty, d) == 2 * d <= qty /\ - (2 * d) <= qty

\* What the average adds, of a position of a quantity of n at entry price e.
AverageOff(n, e, price, qty, r) ==
    /\ DivRound(n * e + qty * price, n + qty) * (n + qty) = n * e + qty * price + r
    /\ Rounding(n + qty, r)
    /\ (n * e + qty * price) % (n + qty) = 0 => r = 0

LEMMA AverageRounds ==
    ASSUME NEW n \in Nat \ {0}, NEW e \in Nat, NEW price \in Nat, NEW qty \in Nat
    PROVE  \E r \in Int : AverageOff(n, e, price, qty, r)
<1> DEFINE t == n * e + qty * price
           a == n + qty
<1>1. t \in Nat /\ a \in Nat \ {0}
  <2>1. n * e \in Nat /\ qty * price \in Nat
    BY Products
  <2>2. QED
    BY <2>1
<1> HIDE DEF t, a
<1>2. /\ DivRound(t, a) \in Nat /\ Excess(t, a) \in Int
      /\ a * DivRound(t, a) = t + Excess(t, a)
      /\ 2 * Excess(t, a) <= a /\ - (2 * Excess(t, a)) <= a
      /\ t % a = 0 => Excess(t, a) = 0
  BY <1>1, Rounded
<1>3. DivRound(t, a) * a = a * DivRound(t, a)
  BY <1>1, <1>2
<1>4. AverageOff(n, e, price, qty, Excess(t, a))
  BY <1>2, <1>3 DEF t, a, AverageOff, Rounding
<1>5. QED
  BY <1>2, <1>4

\* An enlarged position owes the trade's cost more, but for the rounding.
OwesMore(side, old, price, qty, new) ==
    /\ new.realized = old.realized
    /\ \E d \in Int :
          /\ d = 0 \/ (old.qty # 0 /\ Rounding(new.qty, d))
          /\ Exact(old, price, qty) => d = 0
          /\ Owed(side, new) = Owed(side, old) + ProfitAndLoss(side, price, 0, qty) + d

LEMMA EnlargedOwes ==
    ASSUME NEW side \in PositionSides, NEW old \in Position,
           NEW price \in Nat, NEW qty \in Nat, NEW leverage \in Nat
    PROVE  OwesMore(side, old, price, qty, Refreshed(side,
               [old EXCEPT !.qty = @ + qty, !.leverage = leverage,
                           !.entry = AveragePrice(old, price, qty)]))
<1> DEFINE avg == AveragePrice(old, price, qty)
           new == Refreshed(side, [old EXCEPT !.qty = @ + qty, !.leverage = leverage,
                                              !.entry = AveragePrice(old, price, qty)])
           n == old.qty
           e == old.entry
<1>1. n \in Nat /\ e \in Nat
  BY DEF Position
<1>2. /\ new.realized = old.realized /\ new.qty = n + qty /\ new.entry = avg
  BY DEF Refreshed, Position
<1>3. /\ Owed(side, new) = ProfitAndLoss(side, avg, 0, n + qty)
      /\ Owed(side, old) = ProfitAndLoss(side, e, 0, n)
  BY <1>2 DEF Owed
<1> DEFINE P(d) == /\ d = 0 \/ (old.qty # 0 /\ Rounding(new.qty, d))
                   /\ Exact(old, price, qty) => d = 0
                   /\ Owed(side, new) =
                          Owed(side, old) + ProfitAndLoss(side, price, 0, qty) + d
<1> HIDE DEF new
<1>4. CASE n = 0
  <2>1. avg = price
    BY <1>4 DEF AveragePrice
  <2>2. /\ ProfitAndLoss(side, price, 0, n + qty) = ProfitAndLoss(side, price, 0, qty)
        /\ ProfitAndLoss(side, e, 0, n) = 0
        /\ ProfitAndLoss(side, price, 0, qty) \in Int
    <3>1. n + qty = qty
      BY <1>4
    <3>2. (0 - e) * 0 = 0 /\ (e - 0) * 0 = 0
      BY <1>1
    <3>3. ProfitAndLoss(side, e, 0, 0) = 0
      BY <3>2 DEF ProfitAndLoss
    <3>4. ProfitAndLoss(side, price, 0, qty) \in Int
      BY ProfitTyped
    <3>5. QED
      BY <1>4, <3>1, <3>3, <3>4
  <2>3. Owed(side, new) = Owed(side, old) + ProfitAndLoss(side, price, 0, qty) + 0
    <3> HIDE DEF avg, n, e
    <3>1. Owed(side, new) = ProfitAndLoss(side, price, 0, qty) /\ Owed(side, old) = 0
      BY <1>3, <2>1, <2>2
    <3>2. QED
      BY ONLY <2>2, <3>1
  <2>4. P(0)
    BY ONLY <2>3
  <2> HIDE DEF P
  <2>5. \E d \in Int : P(d)
    BY ONLY <2>4
  <2>6. QED
    BY ONLY <1>2, <2>5 DEF new, P, OwesMore
<1>5. CASE n # 0
  <2> HIDE DEF n, e
  <2>0. n \in Nat \ {0}
    BY <1>1, <1>5
  <2>1. PICK r \in Int : AverageOff(n, e, price, qty, r)
    BY ONLY <1>1, <2>0, AverageRounds, qty \in Nat, price \in Nat
  <2>2. avg = DivRound(n * e + qty * price, n + qty)
    BY <1>5 DEF AveragePrice, n, e
  <2>3. avg \in Int
    <3>1. n * e + qty * price \in Nat
      <4>1. n * e \in Nat /\ qty * price \in Nat
        BY <1>1, Products
      <4>2. QED
        BY <4>1
    <3>2. n + qty \in Nat \ {0}
      BY <1>1, <1>5
    <3>3. QED
      BY <2>2, <3>1, <3>2, Averages
  <2>4. avg * (n + qty) = n * e + qty * price + r
    BY <2>1, <2>2 DEF AverageOff
  <2> DEFINE d == IF side = "LONG" THEN - r ELSE r
  <2>5. d \in Int /\ Rounding(n + qty, d) /\ (Exact(old, price, qty) => d = 0)
    <3>1. /\ Rounding(n + qty, r) /\ n + qty \in Int
          /\ (n * e + qty * price) % (n + qty) = 0 => r = 0
      BY <1>1, <2>1 DEF AverageOff
    <3>2. Exact(old, price, qty) => r = 0
      BY <1>5, <3>1 DEF Exact, n, e
    <3>3. QED
      BY <2>1, <3>1, <3>2 DEF Rounding
  <2>6. Owed(side, new) = Owed(side, old) + ProfitAndLoss(side, price, 0, qty) + d
    <3> HIDE DEF avg
    <3>1. r \in Int
      BY <2>1
    <3>2. /\ n * e \in Int /\ qty * price \in Int /\ avg * (n + qty) \in Int
          /\ (0 - avg) * (n + qty) = 0 - avg * (n + qty)
          /\ (avg - 0) * (n + qty) = avg * (n + qty)
          /\ (0 - e) * n = 0 - n * e /\ (e - 0) * n = n * e
          /\ (0 - price) * qty = 0 - qty * price /\ (price - 0) * qty = qty * price
      BY <1>1, <2>3, IntProducts
    <3>3. CASE side = "LONG"
      <4>1. /\ Owed(side, new) = 0 - avg * (n + qty) /\ Owed(side, old) = 0 - n * e
            /\ ProfitAndLoss(side, price, 0, qty) = 0 - qty * price /\ d = - r
        BY <1>3, <3>2, <3>3 DEF ProfitAndLoss
      <4>2. QED
        BY ONLY <2>4, <3>1, <3>2, <4>1
    <3>4. CASE side # "LONG"
      <4>1. /\ Owed(side, new) = avg * (n + qty) /\ Owed(side, old) = n * e
            /\ ProfitAndLoss(side, price, 0, qty) = qty * price /\ d = r
        BY <1>3, <3>2, <3>4 DEF ProfitAndLoss
      <4>2. QED
        BY ONLY <2>4, <3>1, <3>2, <4>1
    <3>5. QED
      BY <3>3, <3>4
  <2> HIDE DEF d
  <2>7. P(d)
    BY ONLY <1>2, <1>5, <2>5, <2>6 DEF n
  <2> HIDE DEF P
  <2>8. \E x \in Int : P(x)
    BY ONLY <2>5, <2>7
  <2>9. QED
    BY ONLY <1>2, <2>8 DEF new, P, n, OwesMore
<1>6. QED
  BY <1>4, <1>5

\* Splitting a quantity splits what it earns.
LEMMA ReducedOwes ==
    ASSUME NEW side \in PositionSides, NEW e \in Int, NEW price \in Int,
           NEW n \in Int, NEW qty \in Int
    PROVE  ProfitAndLoss(side, e, price, qty) + ProfitAndLoss(side, e, 0, n - qty)
               = ProfitAndLoss(side, 0, price, qty) + ProfitAndLoss(side, e, 0, n)
<1>1. /\ e * qty \in Int /\ price * qty \in Int /\ e * n \in Int
      /\ (price - e) * qty = price * qty - e * qty
      /\ (e - price) * qty = e * qty - price * qty
      /\ (0 - e) * (n - qty) = e * qty - e * n
      /\ (e - 0) * (n - qty) = e * n - e * qty
      /\ (price - 0) * qty = price * qty /\ (0 - price) * qty = 0 - price * qty
      /\ (0 - e) * n = 0 - e * n /\ (e - 0) * n = e * n
  BY IntProducts
<1>2. QED
  BY <1>1 DEF ProfitAndLoss

\* A step adds nothing to a position's discrepancy but what an average rounds.
RoundsOnly(key) ==
    LET d == Discrepancy(key)' - Discrepancy(key)
    IN  d = 0 \/ (position[key].qty # 0 /\ Rounding(position'[key].qty, d))

LEMMA OwedTyped ==
    ASSUME PositionsOK, NEW key \in Keys
    PROVE  /\ position[key] \in Position /\ key[2] \in PositionSides
           /\ position[key].realized \in Int /\ cash[key] \in Int
           /\ Owed(key[2], position[key]) \in Int /\ Discrepancy(key) \in Int
<1>1. /\ position[key] \in Position /\ key[2] \in PositionSides /\ cash[key] \in Int
  BY KeyParts DEF PositionsOK, PositionsTyped
<1>2. /\ position[key].entry \in Int /\ position[key].qty \in Int
      /\ position[key].realized \in Int
  BY <1>1 DEF Position
<1>3. Owed(key[2], position[key]) \in Int
  BY <1>1, <1>2, ProfitTyped DEF Owed
<1>4. QED
  BY <1>1, <1>2, <1>3 DEF Discrepancy

LEMMA SameDiscrepancy ==
    ASSUME PositionsOK, NEW key \in Keys, Discrepancy(key)' = Discrepancy(key)
    PROVE  RoundsOnly(key)
BY OwedTyped DEF RoundsOnly

LEMMA UpdateRounds ==
    ASSUME PositionsOK, NEW key \in Keys, NEW price \in Nat, NEW qty \in Nat,
           NEW leverage \in Nat \ {0}, UpdatePosition(key, price, qty, leverage),
           NEW k \in Keys
    PROVE  /\ RoundsOnly(k)
           /\ Exact(position[key], price, qty) => Discrepancy(k)' = Discrepancy(k)
<1>1. /\ position \in [Keys -> Position] /\ cash \in [Keys -> Int]
  BY DEF PositionsOK, PositionsTyped
<1>2. CASE k # key
  <2>1. position'[k] = position[k] /\ cash'[k] = cash[k]
    BY <1>1, <1>2 DEF UpdatePosition
  <2>2. Discrepancy(k)' = Discrepancy(k)
    BY <2>1 DEF Discrepancy
  <2>3. QED
    BY <2>2, SameDiscrepancy
<1>3. CASE k = key
  <2> DEFINE old == position[key]
             side == key[2]
             new == Refreshed(side, [old EXCEPT !.qty = @ + qty, !.leverage = leverage,
                                         !.entry = AveragePrice(old, price, qty)])
             paid == ProfitAndLoss(side, price, 0, qty)
  <2>1. /\ old \in Position /\ side \in PositionSides /\ old.realized \in Int
        /\ cash[key] \in Int /\ Owed(side, old) \in Int /\ Discrepancy(key) \in Int
    BY OwedTyped
  <2>2. OwesMore(side, old, price, qty, new)
    BY <2>1, EnlargedOwes
  <2>3. paid \in Int
    <3>1. price \in Int /\ qty \in Int /\ 0 \in Int
      OBVIOUS
    <3>2. QED
      BY ONLY <2>1, <3>1, ProfitTyped DEF paid
  <2>4. position'[key] = new /\ cash'[key] = cash[key] + paid
    BY <1>1 DEF UpdatePosition
  <2> HIDE DEF new, paid
  <2>5. PICK d \in Int :
              /\ d = 0 \/ (old.qty # 0 /\ Rounding(new.qty, d))
              /\ Exact(old, price, qty) => d = 0
              /\ Owed(side, new) = Owed(side, old) + paid + d
    BY ONLY <2>2 DEF OwesMore, paid
  <2>6. /\ Discrepancy(key) = old.realized - (cash[key] - Owed(side, old))
        /\ Discrepancy(key)' = new.realized - ((cash[key] + paid) - Owed(side, new))
    <3>1. Discrepancy(key) = position[key].realized - (cash[key] - Owed(side, position[key]))
      BY DEF Discrepancy
    <3>2. Discrepancy(key)' =
              position'[key].realized - (cash'[key] - Owed(side, position'[key]))
      BY DEF Discrepancy, Owed
    <3>3. QED
      BY <2>4, <3>1, <3>2
  <2>7. Discrepancy(key)' = Discrepancy(key) + d
    BY ONLY <2>1, <2>2, <2>3, <2>5, <2>6 DEF OwesMore
  <2>8. Discrepancy(key)' - Discrepancy(key) = d
    BY ONLY <2>1, <2>5, <2>7
  <2>9. RoundsOnly(key)
    BY <2>4, <2>5, <2>8 DEF RoundsOnly
  <2>10. Exact(old, price, qty) => Discrepancy(key)' = Discrepancy(key)
    BY <2>1, <2>5, <2>7
  <2>11. QED
    BY <1>3, <2>9, <2>10
<1>4. QED
  BY <1>2, <1>3

LEMMA ReduceRounds ==
    ASSUME PositionsOK, NEW key \in Keys, NEW price \in Nat, NEW qty \in Nat,
           ReducePosition(key, price, qty), NEW k \in Keys
    PROVE  Discrepancy(k)' = Discrepancy(k)
<1>1. /\ position \in [Keys -> Position] /\ cash \in [Keys -> Int]
  BY DEF PositionsOK, PositionsTyped
<1>2. CASE k # key \/ ~ Reducible(key, qty)
  <2>1. position'[k] = position[k] /\ cash'[k] = cash[k]
    BY <1>1, <1>2 DEF ReducePosition, positionVars
  <2>2. QED
    BY <2>1 DEF Discrepancy
<1>3. CASE k = key /\ Reducible(key, qty)
  <2> DEFINE old == position[key]
             side == key[2]
             made == ProfitAndLoss(side, old.entry, price, qty)
             paid == ProfitAndLoss(side, 0, price, qty)
             pos == [old EXCEPT !.qty = @ - qty, !.realized = @ + made]
             new == IF pos.qty # 0 THEN Refreshed(side, pos)
                    ELSE [pos EXCEPT !.margin = 0, !.liquidation = 0, !.entry = 0]
  <2>1. /\ old \in Position /\ side \in PositionSides /\ old.realized \in Int
        /\ cash[key] \in Int /\ Owed(side, old) \in Int
    BY OwedTyped
  <2>2. old.qty \in Nat /\ old.entry \in Nat
    BY <2>1 DEF Position
  <2>3. made \in Int /\ paid \in Int /\ ProfitAndLoss(side, old.entry, 0, old.qty - qty) \in Int
    <3>1. old.entry \in Int /\ old.qty - qty \in Int /\ 0 \in Int /\ price \in Int
          /\ qty \in Int
      BY <2>2
    <3> HIDE DEF old, side
    <3>2. QED
      BY ONLY <2>1, <3>1, ProfitTyped DEF made, paid
  <2>4. position'[key] = new /\ cash'[key] = cash[key] + paid
    BY <1>1, <1>3 DEF ReducePosition
  <2>5. /\ new.realized = old.realized + made
        /\ Owed(side, new) = ProfitAndLoss(side, old.entry, 0, old.qty - qty)
    <3>1. pos.qty = old.qty - qty /\ pos.realized = old.realized + made
          /\ pos.entry = old.entry
      BY <2>1 DEF Position
    <3>2. CASE pos.qty # 0
      <4>1. /\ new.qty = pos.qty /\ new.entry = pos.entry
            /\ new.realized = pos.realized
        BY <2>1, <3>2 DEF Refreshed, Position
      <4>2. QED
        BY <3>1, <4>1 DEF Owed
    <3>3. CASE pos.qty = 0
      <4>1. new.qty = pos.qty /\ new.entry = 0 /\ new.realized = pos.realized
        BY <2>1, <3>3 DEF Position
      <4>2. old.qty - qty = 0 /\ (0 - old.entry) * 0 = 0 /\ (old.entry - 0) * 0 = 0
        BY <2>2, <3>1, <3>3
      <4>3. ProfitAndLoss(side, old.entry, 0, old.qty - qty) = 0
        BY <4>2 DEF ProfitAndLoss
      <4>4. Owed(side, new) = ProfitAndLoss(side, 0, 0, 0)
        BY <3>3, <4>1 DEF Owed
      <4>5. ProfitAndLoss(side, 0, 0, 0) = 0
        BY DEF ProfitAndLoss
      <4>6. QED
        BY <3>1, <4>1, <4>3, <4>4, <4>5
    <3>4. QED
      BY <3>2, <3>3
  <2>6. made + ProfitAndLoss(side, old.entry, 0, old.qty - qty) = paid + Owed(side, old)
    BY <2>1, <2>2, ReducedOwes DEF Owed
  <2> DEFINE rest == ProfitAndLoss(side, old.entry, 0, old.qty - qty)
  <2> HIDE DEF new, pos, made, paid, rest
  <2>7. /\ Discrepancy(key) = old.realized - (cash[key] - Owed(side, old))
        /\ Discrepancy(key)' = new.realized - ((cash[key] + paid) - Owed(side, new))
    <3>1. Discrepancy(key) = position[key].realized - (cash[key] - Owed(side, position[key]))
      BY DEF Discrepancy
    <3>2. Discrepancy(key)' =
              position'[key].realized - (cash'[key] - Owed(side, position'[key]))
      BY DEF Discrepancy, Owed
    <3>3. QED
      BY <2>4, <3>1, <3>2
  <2>8. /\ Owed(side, new) = rest /\ rest \in Int /\ made + rest = paid + Owed(side, old)
    BY <2>3, <2>5, <2>6 DEF rest
  <2>9. Discrepancy(key)' = Discrepancy(key)
    BY ONLY <2>1, <2>3, <2>5, <2>7, <2>8
  <2>10. QED
    BY <1>3, <2>9
<1>4. QED
  BY <1>2, <1>3

LEMMA MarksRound ==
    ASSUME PositionsOK, NEW price \in Nat, UpdatePositionMarks(price), NEW k \in Keys
    PROVE  Discrepancy(k)' = Discrepancy(k)
<1>1. position[k] \in Position
  BY OwedTyped
<1>2. /\ position'[k].realized = position[k].realized /\ cash'[k] = cash[k]
      /\ position'[k].entry = position[k].entry /\ position'[k].qty = position[k].qty
  BY <1>1 DEF UpdatePositionMarks, Position
<1>3. QED
  BY <1>2 DEF Discrepancy, Owed

\* A reduction, wherever it comes from.
LEMMA ReductionRounds ==
    ASSUME PositionsOK, NEW key \in Keys, NEW price \in Nat, NEW qty \in Nat,
           Reduce(key, price, qty), NEW k \in Keys
    PROVE  Discrepancy(k)' = Discrepancy(k)
BY ReduceRounds DEF Reduce

\* The trades a goroutine is about to enter enlarge positions exactly.
AveragesExact ==
    \A g \in Goroutines :
        call[g].step = "settle" /\ ~ call[g].order.reduces =>
            Exact(position[call[g].order.key], call[g].price, call[g].qty)

LEMMA StepRounds ==
    ASSUME IInv, [Next]_vars, NEW k \in Keys
    PROVE  RoundsOnly(k) /\ (AveragesExact => Discrepancy(k)' = Discrepancy(k))
<1>1. PositionsOK /\ call \in [Goroutines -> Frame] /\ \A g \in Goroutines : Levered(call[g])
  BY DEF IInv, CallsOK
<1>2. SUFFICES \/ Discrepancy(k)' = Discrepancy(k)
               \/ RoundsOnly(k) /\ (AveragesExact => Discrepancy(k)' = Discrepancy(k))
  BY <1>1, SameDiscrepancy
<1>3. ASSUME UNCHANGED positionVars
      PROVE  Discrepancy(k)' = Discrepancy(k)
  BY <1>3 DEF positionVars, Discrepancy
<1>4. ASSUME NEW g \in Goroutines, Settle(g)
      PROVE  \/ Discrepancy(k)' = Discrepancy(k)
             \/ RoundsOnly(k) /\ (AveragesExact => Discrepancy(k)' = Discrepancy(k))
  <2> DEFINE f == call[g]
  <2>1. /\ f \in Frame /\ Levered(f) /\ f.step = "settle"
    BY <1>1, <1>4 DEF Settle
  <2>2. /\ f.order \in ContractOrder /\ f.order.leverage # 0
        /\ f.price \in TradePrices /\ f.qty \in Nat
    BY <2>1, FrameKinds DEF Levered
  <2>3. f.order.key \in Keys /\ f.price \in Nat /\ f.order.leverage \in Nat \ {0}
    BY <2>2, PriceTyped DEF ContractOrder
  <2>4. CASE f.order.reduces
    BY <1>1, <1>4, <2>2, <2>3, <2>4, ReductionRounds DEF Settle
  <2>5. CASE ~ f.order.reduces
    <3>1. UpdatePosition(f.order.key, f.price, f.qty, f.order.leverage)
      BY <1>4, <2>5 DEF Settle
    <3>2. /\ RoundsOnly(k)
          /\ Exact(position[f.order.key], f.price, f.qty) =>
                 Discrepancy(k)' = Discrepancy(k)
      BY <1>1, <2>2, <2>3, <3>1, UpdateRounds
    <3>3. AveragesExact => Exact(position[f.order.key], f.price, f.qty)
      BY <2>1, <2>5 DEF AveragesExact
    <3>4. QED
      BY <3>2, <3>3
  <2>6. QED
    BY <2>4, <2>5
<1>5. ASSUME NEW g \in Goroutines, CloseReduce(g)
      PROVE  Discrepancy(k)' = Discrepancy(k)
  <2>1. call[g].key \in Keys /\ call[g].price \in Nat /\ call[g].qty \in Nat
    BY <1>1, <1>5, FrameKinds, PriceTyped DEF CloseReduce
  <2>2. QED
    BY <1>1, <1>5, <2>1, ReduceRounds DEF CloseReduce
<1>6. ASSUME NEW g \in Goroutines, MarkPositions(g)
      PROVE  Discrepancy(k)' = Discrepancy(k)
  <2>1. call[g].price \in Nat
    BY <1>1, <1>6, FrameKinds, PriceTyped DEF MarkPositions
  <2>2. QED
    BY <1>1, <1>6, <2>1, MarksRound DEF MarkPositions
<1>7. ASSUME NEW g \in Goroutines, SettleLiquidation(g)
      PROVE  Discrepancy(k)' = Discrepancy(k)
  <2>1. /\ call[g].order \in LiquidationOrder /\ call[g].price \in Nat /\ call[g].qty \in Nat
    BY <1>1, <1>7, FrameKinds, PriceTyped DEF SettleLiquidation
  <2>2. call[g].order.key \in Keys
    BY <2>1 DEF LiquidationOrder
  <2>3. QED
    BY <1>1, <1>7, <2>1, <2>2, ReductionRounds DEF SettleLiquidation
<1>8. Liquidators \subseteq Goroutines
  BY ContractAssumption DEF ContractAssumption
<1>9. QED
  <2>1. \/ UNCHANGED positionVars
        \/ \E g \in Goroutines : \/ Settle(g) \/ CloseReduce(g) \/ MarkPositions(g)
                                 \/ SettleLiquidation(g)
    BY <1>8 DEF Next, vars, Client, Engine, Liquidator, MonitorStep,
           CreateContractOrder, ProcessTriggered, Match, ClosePosition, CloseAll,
           SetPositionTPSL, CancelPositionTPSL, ValidateTPSL, StoreTPSL,
           UpdateMarkPrice, CheckTPSLTriggers, TakeLiquidation, MatchLiquidation,
           SubscribeLiquidations
  <2>2. QED
    BY <1>3, <1>4, <1>5, <1>6, <1>7, <2>1

(* Whatever the calls in flight, no step makes more of a difference between    *)
(* the profit a position has realized and the money its trades brought in    *)
(* than one division rounds, half a unit for each of the position's quantity, *)
(* and only where a position is enlarged.  A reduction makes none            *)
(* (manager.go:89-97, 134-145).                                              *)
THEOREM OnlyAveragesRound == Spec => [][\A key \in Keys : RoundsOnly(key)]_vars
<1>1. IInv /\ [Next]_vars => [\A key \in Keys : RoundsOnly(key)]_vars
  BY StepRounds
<1>2. QED
  BY <1>1, InvariantAlways, PTL DEF Spec

(* Property PnlIsCash, for every run in which the averages of the prices are   *)
(* prices: averaging, reducing and reopening in any order, from any number   *)
(* of goroutines, neither make money nor lose it (manager.go:89-97, 134-145). *)
THEOREM PnlIsCashWhenExact == Spec /\ []AveragesExact => []PnlIsCash
<1> DEFINE None == \A key \in Keys : Discrepancy(key) = 0
<1>1. Init => None
  <2> SUFFICES ASSUME Init, NEW key \in Keys
               PROVE  Discrepancy(key) = 0
    OBVIOUS
  <2>1. position[key] = NewPosition /\ cash[key] = 0
    BY DEF Init, PositionInit
  <2>2. Owed(key[2], position[key]) = 0
    BY <2>1 DEF Owed, NewPosition, ProfitAndLoss
  <2>3. QED
    BY <2>1, <2>2 DEF Discrepancy, NewPosition
<1>2. None /\ IInv /\ AveragesExact /\ [Next]_vars => None'
  BY StepRounds
<1>3. None /\ IInv => PnlIsCash
  <2> SUFFICES ASSUME IInv, NEW key \in Keys, Discrepancy(key) = 0
               PROVE  position[key].realized = cash[key] - Owed(key[2], position[key])
    BY DEF PnlIsCash, Owed
  <2>1. PositionsOK
    BY DEF IInv
  <2>2. QED
    BY <2>1, OwedTyped DEF Discrepancy
<1>4. QED
  BY <1>1, <1>2, <1>3, InvariantAlways, PTL DEF Spec

-----------------------------------------------------------------------------
(* The orders of reached take-profit and stop-loss prices.                  *)

\* Positions no larger than an order may be.
PositionsSmall == \A key \in Keys : position[key].qty <= MaxOrderQty

\* What CheckTPSLTriggers sends: an order the validation has no reason to refuse.
Closing(f) ==
    /\ f.reduceOnly /\ f.positionSide # "BOTH" /\ f.type = "market"
    /\ f.leverage \in 1 .. MaxLeverage /\ f.qty \in 1 .. MaxOrderQty

\* A call that has such orders to process, and the leverage it may give a position.
Sendable(todo) == \A i \in DOMAIN todo : Closing(todo[i])

Ready(f) ==
    /\ f.step \in {"match", "settle"} => f.order.leverage \in 1 .. MaxLeverage
    /\ f.step \in {"orders", "match", "settle"} => Sendable(f.todo)

LeveragesBounded == \A key \in Keys : position[key].leverage <= MaxLeverage

TriggerInv == LeveragesBounded /\ \A g \in Goroutines : Ready(call[g])

LEMMA OrdersReady ==
    ASSUME NEW todo, Sendable(todo)
    PROVE  Ready(Orders(todo))
BY DEF Orders, Free, Ready

LEMMA NothingReady == Ready(Free)
BY DEF Free, Ready

\* The rest of a sequence of such orders, and its first.
LEMMA RestSendable ==
    ASSUME NEW todo \in Seq(ContractForm) \ {<<>>}, Sendable(todo)
    PROVE  /\ Closing(Head(todo)) /\ Head(todo) \in ContractForm
           /\ Sendable(Tail(todo)) /\ Tail(todo) \in Seq(ContractForm)
<1>1. 1 \in DOMAIN todo /\ Head(todo) = todo[1]
  OBVIOUS
<1>2. Closing(Head(todo))
  BY <1>1 DEF Sendable
<1>3. ASSUME NEW i \in DOMAIN Tail(todo)
      PROVE  i + 1 \in DOMAIN todo /\ Tail(todo)[i] = todo[i + 1]
  OBVIOUS
<1>4. Sendable(Tail(todo))
  BY <1>3 DEF Sendable
<1>5. QED
  BY <1>2, <1>4

LEMMA ProcessReady ==
    ASSUME NEW f \in ContractForm, NEW todo, Sendable(todo)
    PROVE  Ready(Process(f, todo))
<1>1. CASE Admission(f) = {}
  BY <1>1, OrdersReady DEF Process
<1>2. CASE Admission(f) # {}
  <2> DEFINE o == CHOOSE x \in Admission(f) : TRUE
  <2>1. o \in Admission(f)
    BY <1>2
  <2>2. Process(f, todo) = [step |-> "match", order |-> o, todo |-> todo]
    BY <1>2 DEF Process
  <2> HIDE DEF o
  <2>3. o.leverage = f.leverage /\ Valid(f)
    BY <2>1 DEF Admission
  <2>4. o.leverage \in 1 .. MaxLeverage
    BY <2>3 DEF Valid
  <2>5. QED
    BY <2>2, <2>4 DEF Ready
<1>3. QED
  BY <1>1, <1>2

\* An order that closes what is there is admitted.
LEMMA ClosingAdmitted ==
    ASSUME NEW f \in ContractForm, Closing(f), position[<<f.user, f.positionSide>>].qty # 0
    PROVE  Admission(f) # {}
<1>1. GetOppositePositionSide(f) = f.positionSide
  BY DEF Closing, GetOppositePositionSide
<1>2. Valid(f) /\ f.reduceOnly
  BY DEF Closing, Valid
<1>3. QED
  BY <1>1, <1>2 DEF Admission

\* Two fields of a call change.
LEMMA ContinueReady ==
    ASSUME CallsOK, \A g \in Goroutines : Ready(call[g]), NEW g \in Goroutines,
           NEW f, Ready(f), Continue(g, f) \/ Begin(g, f)
    PROVE  \A h \in Goroutines : Ready(call'[h])
<1>1. call' = [call EXCEPT ![g] = f] /\ DOMAIN call = Goroutines
  BY DEF Continue, Begin, CallsOK
<1>2. QED
  BY <1>1

\* The operations on positions and the leverage.
LEMMA UpdateBounded ==
    ASSUME PositionsOK, LeveragesBounded, NEW key \in Keys, NEW price \in Nat,
           NEW qty \in Nat, NEW leverage \in 1 .. MaxLeverage,
           UpdatePosition(key, price, qty, leverage)
    PROVE  LeveragesBounded'
<1>1. position \in [Keys -> Position]
  BY DEF PositionsOK, PositionsTyped
<1>2. ASSUME NEW k \in Keys
      PROVE  position'[k].leverage <= MaxLeverage
  <2>1. CASE k = key
    <3>1. position'[k].leverage = leverage
      BY <1>1, <2>1 DEF UpdatePosition, Refreshed, Position
    <3>2. QED
      BY <3>1, ContractAssumption DEF ContractAssumption
  <2>2. CASE k # key
    BY <1>1, <2>2 DEF UpdatePosition, LeveragesBounded
  <2>3. QED
    BY <2>1, <2>2
<1>3. QED
  BY <1>2 DEF LeveragesBounded

LEMMA ReduceBounded ==
    ASSUME PositionsOK, LeveragesBounded, NEW key \in Keys, NEW price \in Nat,
           NEW qty \in Nat, ReducePosition(key, price, qty)
    PROVE  LeveragesBounded'
<1>1. position \in [Keys -> Position]
  BY DEF PositionsOK, PositionsTyped
<1>2. ASSUME NEW k \in Keys
      PROVE  position'[k].leverage = position[k].leverage
  <2>1. CASE ~ Reducible(key, qty)
    BY <2>1 DEF ReducePosition, positionVars
  <2>2. CASE Reducible(key, qty) /\ k # key
    BY <1>1, <2>2 DEF ReducePosition
  <2>3. CASE Reducible(key, qty) /\ k = key
    <3> DEFINE pos == [position[key] EXCEPT !.qty = @ - qty,
                   !.realized = @ + ProfitAndLoss(key[2], position[key].entry, price, qty)]
               left == IF pos.qty # 0 THEN Refreshed(key[2], pos)
                       ELSE [pos EXCEPT !.margin = 0, !.liquidation = 0, !.entry = 0]
    <3>1. position'[key] = left
      BY <1>1, <2>3 DEF ReducePosition
    <3>2. left.leverage = position[key].leverage
      BY <1>1 DEF Refreshed, Position
    <3>3. QED
      BY <2>3, <3>1, <3>2
  <2>4. QED
    BY <2>1, <2>2, <2>3
<1>3. QED
  BY <1>2 DEF LeveragesBounded

LEMMA MarksBounded ==
    ASSUME PositionsOK, LeveragesBounded, NEW price \in Nat, UpdatePositionMarks(price)
    PROVE  LeveragesBounded'
<1>1. position \in [Keys -> Position]
  BY DEF PositionsOK, PositionsTyped
<1>2. ASSUME NEW k \in Keys
      PROVE  position'[k].leverage = position[k].leverage
  BY <1>1 DEF UpdatePositionMarks, Position
<1>3. QED
  BY <1>2 DEF LeveragesBounded

LEMMA ReductionBounded ==
    ASSUME PositionsOK, LeveragesBounded, NEW key \in Keys, NEW price \in Nat,
           NEW qty \in Nat, Reduce(key, price, qty)
    PROVE  LeveragesBounded'
BY ReduceBounded DEF Reduce

\* No more than one position is found for an entry, so that one is open.
LEMMA TriggeredOpen ==
    ASSUME NEW name, NEW price, Triggered(name, price), NEW key \in PositionOf(name)
    PROVE  position[key].qty # 0
<1>1. ASSUME NEW k \in PositionOf(name)
      PROVE  k = <<<<Head(name)>>, Tail(name)[1]>>
  <2>1. k \in Keys /\ k[1] = <<Head(name)>> /\ <<k[2]>> = Tail(name)
    BY DEF PositionOf
  <2>2. k = <<k[1], k[2]>>
    BY ONLY <2>1 DEF Keys
  <2>3. PICK x, y : x = <<Head(name)>> /\ y = Tail(name)
    OBVIOUS
  <2>4. y[1] = k[2]
    <3>1. PICK z : z = k[2]
      OBVIOUS
    <3>2. y = <<z>>
      BY ONLY <2>1, <2>3, <3>1
    <3>3. <<z>>[1] = z
      OBVIOUS
    <3>4. QED
      BY ONLY <3>1, <3>2, <3>3
  <2>5. k = <<x, y[1]>>
    BY ONLY <2>1, <2>2, <2>3, <2>4
  <2>6. QED
    BY ONLY <2>3, <2>5
<1>2. QED
  BY <1>1 DEF Triggered

\* What is sent for a position.
LEMMA CloseOrderClosing ==
    ASSUME IInv, LeveragesBounded, PositionsSmall, NEW key \in Keys, position[key].qty # 0
    PROVE  Closing(CloseOrder(key))
<1>1. /\ position[key] \in Position /\ Solid(key[2], position[key])
      /\ key[2] \in PositionSides
  BY KeyParts DEF IInv, PositionsOK, PositionsTyped
<1>2. /\ position[key].leverage \in Nat \ {0} /\ position[key].qty \in Nat \ {0}
      /\ position[key].leverage <= MaxLeverage /\ position[key].qty <= MaxOrderQty
  BY <1>1 DEF Solid, Position, LeveragesBounded, PositionsSmall
<1>3. /\ position[key].leverage \in 1 .. MaxLeverage
      /\ position[key].qty \in 1 .. MaxOrderQty
  BY <1>2, ContractAssumption DEF ContractAssumption
<1>4. QED
  BY <1>1, <1>3 DEF Closing, CloseOrder, PositionSides

LEMMA TriggersReady ==
    ASSUME IInv, TriggerInv, PositionsSmall, NEW g \in Goroutines, CheckTPSLTriggers(g)
    PROVE  \A h \in Goroutines : Ready(call'[h])
<1> DEFINE found == UNION {PositionOf(name) :
                              name \in {n \in TPSLNames : Triggered(n, call[g].price)}}
           closing == {CloseOrder(key) : key \in found}
<1>1. PICK todo \in Bijection(1 .. Cardinality(closing), closing) : Continue(g, Orders(todo))
  BY DEF CheckTPSLTriggers
<1>2. ASSUME NEW f \in closing
      PROVE  Closing(f)
  <2>1. PICK key \in found : f = CloseOrder(key)
    OBVIOUS
  <2>2. PICK name \in TPSLNames : Triggered(name, call[g].price) /\ key \in PositionOf(name)
    OBVIOUS
  <2>3. key \in Keys /\ position[key].qty # 0
    BY <2>2, TriggeredOpen DEF PositionOf
  <2>4. QED
    BY <2>1, <2>3, CloseOrderClosing DEF TriggerInv
<1> HIDE DEF closing
<1>3. todo \in [1 .. Cardinality(closing) -> closing]
  BY DEF Bijection, Injection, Surjection
<1>4. Sendable(todo)
  BY <1>2, <1>3 DEF Sendable
<1>5. QED
  BY <1>1, <1>4, OrdersReady, ContinueReady DEF IInv, TriggerInv

LEMMA TriggerKeeps == IInv /\ TriggerInv /\ PositionsSmall /\ [Next]_vars => TriggerInv'
<1> SUFFICES ASSUME IInv, TriggerInv, PositionsSmall, [Next]_vars
             PROVE  TriggerInv'
  OBVIOUS
<1>1. /\ PositionsOK /\ CallsOK /\ call \in [Goroutines -> Frame]
      /\ LeveragesBounded /\ \A g \in Goroutines : Ready(call[g])
  BY DEF IInv, CallsOK, TriggerInv
<1>2. Liquidators \subseteq Goroutines
  BY ContractAssumption DEF ContractAssumption
<1>3. LeveragesBounded'
  <2>1. CASE UNCHANGED positionVars
    BY <1>1, <2>1 DEF positionVars, LeveragesBounded
  <2>2. ASSUME NEW g \in Goroutines, Settle(g)
        PROVE  LeveragesBounded'
    <3> DEFINE f == call[g]
    <3>1. f \in Frame /\ Ready(f) /\ f.step = "settle"
      BY <1>1, <2>2 DEF Settle
    <3>2. /\ f.order \in ContractOrder /\ f.order.leverage \in 1 .. MaxLeverage
          /\ f.price \in TradePrices /\ f.qty \in Nat
      BY <3>1, FrameKinds DEF Ready
    <3>3. f.order.key \in Keys /\ f.price \in Nat
      BY <3>2, PriceTyped DEF ContractOrder
    <3>4. CASE f.order.reduces
      BY <1>1, <2>2, <3>2, <3>3, <3>4, ReductionBounded DEF Settle
    <3>5. CASE ~ f.order.reduces
      BY <1>1, <2>2, <3>2, <3>3, <3>5, UpdateBounded DEF Settle
    <3>6. QED
      BY <3>4, <3>5
  <2>3. ASSUME NEW g \in Goroutines, CloseReduce(g)
        PROVE  LeveragesBounded'
    <3>1. call[g].key \in Keys /\ call[g].price \in Nat /\ call[g].qty \in Nat
      BY <1>1, <2>3, FrameKinds, PriceTyped DEF CloseReduce
    <3>2. QED
      BY <1>1, <2>3, <3>1, ReduceBounded DEF CloseReduce
  <2>4. ASSUME NEW g \in Goroutines, MarkPositions(g)
        PROVE  LeveragesBounded'
    <3>1. call[g].price \in Nat
      BY <1>1, <2>4, FrameKinds, PriceTyped DEF MarkPositions
    <3>2. QED
      BY <1>1, <2>4, <3>1, MarksBounded DEF MarkPositions
  <2>5. ASSUME NEW g \in Goroutines, SettleLiquidation(g)
        PROVE  LeveragesBounded'
    <3>1. /\ call[g].order.key \in Keys /\ call[g].price \in Nat /\ call[g].qty \in Nat
      BY <1>1, <2>5, FrameKinds, PriceTyped DEF SettleLiquidation, LiquidationOrder
    <3>2. QED
      BY <1>1, <2>5, <3>1, ReductionBounded DEF SettleLiquidation
  <2>6. QED
    BY <1>2, <2>1, <2>2, <2>3, <2>4, <2>5
       DEF Next, vars, Client, Engine, Liquidator, MonitorStep,
           CreateContractOrder, ProcessTriggered, Match, ClosePosition, CloseAll,
           SetPositionTPSL, CancelPositionTPSL, ValidateTPSL, StoreTPSL,
           UpdateMarkPrice, CheckTPSLTriggers, TakeLiquidation, MatchLiquidation,
           SubscribeLiquidations
<1>4. \A g \in Goroutines : Ready(call'[g])
  <2>1. CASE UNCHANGED call
    BY <1>1, <2>1
  <2>2. ASSUME NEW g \in Goroutines, Client(g)
        PROVE  \A h \in Goroutines : Ready(call'[h])
    <3>1. PICK f : Ready(f) /\ Begin(g, f)
      <4>1. ASSUME NEW f \in ContractForms, CreateContractOrder(g, f)
            PROVE  \E x : Ready(x) /\ Begin(g, x)
        <5>1. f \in ContractForm /\ Sendable(<<>>)
          BY FormsAssumption DEF FormsAssumption, Sendable
        <5>2. QED
          BY <4>1, <5>1, ProcessReady DEF CreateContractOrder
      <4>2. ASSUME NEW key \in Keys, ClosePosition(g, key)
            PROVE  \E x : Ready(x) /\ Begin(g, x)
        BY <4>2 DEF ClosePosition, Ready
      <4>3. ASSUME NEW key \in Keys, CancelPositionTPSL(g, key)
            PROVE  \E x : Ready(x) /\ Begin(g, x)
        BY <4>3, NothingReady DEF CancelPositionTPSL
      <4>4. ASSUME NEW key \in Keys, NEW prices \in TPSLPrices,
                   SetPositionTPSL(g, key, prices)
            PROVE  \E x : Ready(x) /\ Begin(g, x)
        BY <4>4 DEF SetPositionTPSL, Ready
      <4>5. ASSUME NEW price \in Prices, UpdateMarkPrice(g, price)
            PROVE  \E x : Ready(x) /\ Begin(g, x)
        BY <4>5 DEF UpdateMarkPrice, Ready
      <4>6. QED
        BY <2>2, <4>1, <4>2, <4>3, <4>4, <4>5 DEF Client
    <3>2. QED
      BY <1>1, <3>1, ContinueReady
  <2>3. ASSUME NEW g \in Goroutines, Engine(g) \/ MatchLiquidation(g) \/ SettleLiquidation(g)
        PROVE  \A h \in Goroutines : Ready(call'[h])
    <3> DEFINE f == call[g]
               Next1 == \E x : Ready(x) /\ Continue(g, x)
    <3>1. f \in Frame /\ Ready(f) /\ Ready(Free)
      BY <1>1, NothingReady
    <3>2. CASE ProcessTriggered(g)
      <4>1. f.todo \in Seq(ContractForm) \ {<<>>} /\ Sendable(f.todo)
        BY <3>1, <3>2, FrameKinds DEF ProcessTriggered, Ready
      <4>2. Ready(Process(Head(f.todo), Tail(f.todo)))
        BY <4>1, RestSendable, ProcessReady
      <4>3. QED
        BY <1>1, <3>2, <4>2, ContinueReady DEF ProcessTriggered
    <3>3. CASE Match(g)
      <4>1. Sendable(f.todo) /\ f.order.leverage \in 1 .. MaxLeverage
        BY <3>1, <3>3 DEF Match, Ready
      <4>2. Ready(Orders(f.todo))
        BY <4>1, OrdersReady
      <4>3. ASSUME NEW price, NEW qty
            PROVE  Ready([step |-> "settle", order |-> f.order, price |-> price,
                          qty |-> qty, todo |-> f.todo])
        BY <4>1 DEF Ready
      <4>4. Next1
        BY <3>3, <4>2, <4>3 DEF Match
      <4>5. QED
        BY <1>1, <4>4, ContinueReady
    <3>4. CASE Settle(g)
      <4>1. Ready(Orders(f.todo))
        BY <3>1, <3>4, OrdersReady DEF Settle, Ready
      <4>2. QED
        BY <1>1, <3>4, <4>1, ContinueReady DEF Settle
    <3>5. CASE CloseAll(g)
      <4>1. Next1
        BY <3>1, <3>5 DEF CloseAll, Ready
      <4>2. QED
        BY <1>1, <4>1, ContinueReady
    <3>6. CASE CloseReduce(g) \/ StoreTPSL(g) \/ SettleLiquidation(g)
      BY <1>1, <3>1, <3>6, ContinueReady DEF CloseReduce, StoreTPSL, SettleLiquidation
    <3>7. CASE ValidateTPSL(g)
      <4>1. [f EXCEPT !.step = "set"].step = "set"
        BY <3>1, <3>7 DEF ValidateTPSL, Frame, Free
      <4>2. Ready([f EXCEPT !.step = "set"])
        BY <4>1 DEF Ready
      <4>3. QED
        BY <1>1, <3>1, <3>7, <4>2, ContinueReady DEF ValidateTPSL
    <3>8. CASE MarkPositions(g)
      <4>1. [f EXCEPT !.step = "check"].step = "check"
        BY <3>1, <3>8 DEF MarkPositions, Frame, Free
      <4>2. Ready([f EXCEPT !.step = "check"])
        BY <4>1 DEF Ready
      <4>3. QED
        BY <1>1, <3>8, <4>2, ContinueReady DEF MarkPositions
    <3>9. CASE CheckTPSLTriggers(g)
      BY <3>9, TriggersReady
    <3>10. CASE MatchLiquidation(g)
      <4>1. ASSUME NEW price, NEW qty
            PROVE  Ready([step |-> "liquidated", order |-> f.order, price |-> price,
                          qty |-> qty])
        BY DEF Ready
      <4>2. Next1
        BY <3>1, <3>10, <4>1 DEF MatchLiquidation
      <4>3. QED
        BY <1>1, <4>2, ContinueReady
    <3>11. QED
      BY <2>3, <3>2, <3>3, <3>4, <3>5, <3>6, <3>7, <3>8, <3>9, <3>10 DEF Engine
  <2>4. ASSUME NEW g \in Goroutines, TakeLiquidation(g)
        PROVE  \A h \in Goroutines : Ready(call'[h])
    <3>1. Ready([step |-> "liquidate", order |-> Head(liquidationChan)])
      BY DEF Ready
    <3>2. QED
      BY <1>1, <2>4, <3>1, ContinueReady DEF TakeLiquidation
  <2>5. QED
    BY <1>2, <2>1, <2>2, <2>3, <2>4
       DEF Next, vars, contractVars, Liquidator, MonitorStep, SubscribeLiquidations
<1>5. QED
  BY <1>3, <1>4 DEF TriggerInv, LeveragesBounded

\* A call with orders to process does nothing but process the first.
LEMMA OnlyProcesses ==
    ASSUME call \in [Goroutines -> Frame], Next, NEW g \in Goroutines,
           call[g].step = "orders", call'[g] # call[g]
    PROVE  ProcessTriggered(g)
<1>1. ASSUME NEW h \in Goroutines, NEW f, Begin(h, f)
      PROVE  FALSE
  <2>1. call[h].step = "free" /\ call' = [call EXCEPT ![h] = f]
    BY <1>1 DEF Begin, Free
  <2>2. QED
    BY <2>1
<1>2. ASSUME NEW h \in Goroutines, NEW f, Continue(h, f), h # g
      PROVE  FALSE
  <2>1. call' = [call EXCEPT ![h] = f]
    BY <1>2 DEF Continue
  <2>2. QED
    BY <1>2, <2>1
<1>3. ASSUME NEW h \in Goroutines, Client(h)
      PROVE  FALSE
  BY <1>1, <1>3 DEF Client, CreateContractOrder, ClosePosition, CancelPositionTPSL,
                    SetPositionTPSL, UpdateMarkPrice
<1>4. ASSUME NEW h \in Goroutines, Engine(h)
      PROVE  h = g /\ ProcessTriggered(h)
  <2>1. h = g
    BY <1>2, <1>4 DEF Engine, ProcessTriggered, Match, Settle, CloseAll, CloseReduce,
           ValidateTPSL, StoreTPSL, MarkPositions, CheckTPSLTriggers
  <2>2. QED
    BY <1>4, <2>1 DEF Engine, Match, Settle, CloseAll, CloseReduce, ValidateTPSL,
           StoreTPSL, MarkPositions, CheckTPSLTriggers
<1>5. ASSUME NEW h \in Liquidators, Liquidator(h)
      PROVE  FALSE
  <2>1. h \in Goroutines
    BY ContractAssumption DEF ContractAssumption
  <2>2. CASE TakeLiquidation(h)
    BY <1>1, <2>1, <2>2 DEF TakeLiquidation
  <2>3. CASE MatchLiquidation(h) \/ SettleLiquidation(h)
    <3>1. h # g
      BY <2>3 DEF MatchLiquidation, SettleLiquidation
    <3>2. QED
      BY <1>2, <2>1, <2>3, <3>1 DEF MatchLiquidation, SettleLiquidation
  <2>4. QED
    BY <1>5, <2>2, <2>3 DEF Liquidator
<1>6. QED
  BY <1>3, <1>4, <1>5 DEF Next, MonitorStep, SubscribeLiquidations, contractVars

(* Property TriggeredExecutes, as long as no position is larger than an order  *)
(* may be: the order of a reached price passes the validation it is put       *)
(* through a second time, however long after, since the leverage it took     *)
(* from the position was validated when the position was opened              *)
(* (contract_engine.go:700-752, README.md:240).                              *)
THEOREM TriggeredExecutesWhenSmall == Spec /\ []PositionsSmall => TriggeredExecutes
<1> DEFINE Executes ==
        \A g \in Goroutines :
           call[g].step = "orders" /\ call'[g] # call[g] =>
               LET f == Head(call[g].todo)
               IN  \/ position[<<f.user, f.positionSide>>].qty = 0
                   \/ call'[g].step = "match"
<1>1. Init => TriggerInv
  BY ContractAssumption, NothingReady
     DEF Init, PositionInit, NewPosition, TriggerInv, LeveragesBounded, ContractAssumption
<1>2. IInv /\ TriggerInv /\ [Next]_vars => [Executes]_vars
  <2> SUFFICES ASSUME IInv, TriggerInv, Next, NEW g \in Goroutines,
                      call[g].step = "orders", call'[g] # call[g],
                      position[<<Head(call[g].todo).user,
                                 Head(call[g].todo).positionSide>>].qty # 0
               PROVE  call'[g].step = "match"
    OBVIOUS
  <2> DEFINE todo == call[g].todo
  <2>1. call \in [Goroutines -> Frame]
    BY DEF IInv, CallsOK
  <2>2. ProcessTriggered(g)
    BY <2>1, OnlyProcesses
  <2>3. call'[g] = Process(Head(todo), Tail(todo))
    BY <2>1, <2>2 DEF ProcessTriggered, Continue
  <2>4. todo \in Seq(ContractForm) \ {<<>>} /\ Sendable(todo)
    BY <2>1, FrameKinds DEF TriggerInv, Ready
  <2>5. Closing(Head(todo)) /\ Head(todo) \in ContractForm
    BY <2>4, RestSendable
  <2>6. Admission(Head(todo)) # {}
    BY <2>5, ClosingAdmitted
  <2>7. QED
    BY <2>3, <2>6 DEF Process
<1>3. QED
  BY <1>1, <1>2, InvariantAlways, TriggerKeeps, PTL DEF Spec, TriggeredExecutes

-----------------------------------------------------------------------------
(* The messages.                                                            *)

\* A price or a quantity is read from the text it was written to.
LEMMA TextRead ==
    ASSUME NEW n
    PROVE  ValueOf(TextOf(n)) = n
BY DEF ValueOf, TextOf

\* What a request's text makes of a number is one.
LEMMA ValueTyped ==
    ASSUME NEW text \in Text
    PROVE  text.value \in Int /\ ValueOf(text) \in Int
BY DEF Text, ValueOf

(* Whatever numbers a client puts into the enum fields, a request that        *)
(* CreateContractOrder does not refuse becomes an order of the model, of the *)
(* type it names: what names none is a limit order.  Since the price is read *)
(* of requests that say LIMIT only, no limit order is admitted but one that  *)
(* was asked for as such, with a positive price: none comes to the book at   *)
(* price zero for a type or a price left out (contract_server.go:49-94,       *)
(* contract_engine.go:136-141).                                             *)
THEOREM EveryContractRequestDecodes ==
    ASSUME NEW req \in CreateContractOrderRequest, ~ Refused(req)
    PROVE  LET f == ContractFormOf(req)
           IN  /\ f \in ContractForm
               /\ f.type = "limit" \/ convertOrderTypeToProto(f.type) = req.type
               /\ Valid(f) /\ f.type = "limit" =>
                      /\ req.type = OrderType.LIMIT
                      /\ req.price.is = "number" /\ req.price.value = f.price
                      /\ f.price > 0
<1> DEFINE f == ContractFormOf(req)
<1>1. req.user \in Users
  BY DEF Refused, CreateContractOrderRequest
<1>2. convertOrderSide(req.side) \in OrderSides
  BY DEF convertOrderSide, OrderSide, OrderSides
<1>3. convertPositionSide(req.positionSide) \in PositionSides \cup {"BOTH"}
  BY DEF convertPositionSide, PositionSide, PositionSides
<1>4. /\ req.quantity \in Text /\ req.price \in Text /\ req.leverage \in Int
      /\ req.reduceOnly \in BOOLEAN /\ req.closePosition \in BOOLEAN
  BY DEF CreateContractOrderRequest
<1>5. req.quantity.value \in Int /\ req.price.value \in Int
  BY <1>4, ValueTyped
<1>6. convertOrderType(req.type) \in OrderTypes
  BY DEF convertOrderType, OrderType, OrderTypes
<1>7. (IF ReadsPrice(req) THEN req.price.value ELSE 0) \in Int
  BY <1>5
<1>8. f \in ContractForm
  BY <1>1, <1>2, <1>3, <1>4, <1>5, <1>6, <1>7 DEF ContractFormOf, ContractForm
<1>9. /\ f.type = convertOrderType(req.type)
      /\ f.price = IF ReadsPrice(req) THEN req.price.value ELSE 0
  BY DEF ContractFormOf
<1>10. f.type = "limit" \/ convertOrderTypeToProto(f.type) = req.type
  BY <1>9 DEF convertOrderType, convertOrderTypeToProto, OrderType
<1>11. ASSUME Valid(f), f.type = "limit"
       PROVE  /\ req.type = OrderType.LIMIT
              /\ req.price.is = "number" /\ req.price.value = f.price
              /\ f.price > 0
  <2>1. f.price > 0
    BY <1>11 DEF Valid
  <2>2. ReadsPrice(req) /\ f.price = req.price.value
    BY <1>9, <2>1
  <2>3. req.price.is = "number"
    BY <1>4, <2>2 DEF ReadsPrice, Refused, Text
  <2>4. QED
    BY <2>1, <2>2, <2>3 DEF ReadsPrice
<1> QED
  BY <1>8, <1>10, <1>11

(* What a client is told of a position is the position, and whose it is:      *)
(* read back with the tables requests are read with, every field is the       *)
(* manager's (contract_server.go:677-734).                                   *)
THEOREM PositionsToldTrue ==
    ASSUME NEW symbol, NEW key \in Keys, NEW pos \in Position
    PROVE  ReadPosition(convertPositionToPb(symbol, key, pos))
               = [key |-> key, pos |-> pos]
<1>1. key = <<key[1], key[2]>> /\ key[2] \in PositionSides
  BY DEF Keys
<1>2. convertPositionSide(convertPositionSideToPb(key[2])) = key[2]
  BY <1>1 DEF PositionSides, PositionSide, convertPositionSide,
              convertPositionSideToPb
<1>3. pos = [qty |-> pos.qty, entry |-> pos.entry, leverage |-> pos.leverage,
             margin |-> pos.margin, liquidation |-> pos.liquidation,
             mark |-> pos.mark, unrealized |-> pos.unrealized,
             realized |-> pos.realized]
  BY DEF Position
<1> QED
  BY <1>1, <1>2, <1>3, TextRead DEF ReadPosition, convertPositionToPb

(* A liquidation event names the side of the position that is liquidated,     *)
(* although the order it is made from has only the side of the order, and     *)
(* two tables a file apart translate one into the other                      *)
(* (liquidation/engine.go:124-128, contract_server.go:358-363).              *)
THEOREM LiquidationsToldTrue ==
    ASSUME NEW symbol, NEW o \in LiquidationOrder
    PROVE  LET m == LiquidationTold(symbol, o)
           IN  <<m.user, convertPositionSide(m.positionSide)>> = o.key
<1>1. o.key = <<o.key[1], o.key[2]>> /\ o.key[2] \in PositionSides
  BY DEF LiquidationOrder, Keys
<1> QED
  BY <1>1 DEF LiquidationTold, LiquidationSide, convertPositionSide,
              PositionSide, PositionSides

-----------------------------------------------------------------------------
(* The times of the funding settlements.                                    *)

\* Products and quotients of naturals.
LEMMA TimesTyped ==
    /\ SlotsPerMinute \in Nat \ {0} /\ MinutesPerHour \in Nat \ {0}
    /\ Hour \in Nat \ {0} /\ Interval \in Nat \ {0} /\ SlotsPerMinute <= Hour
    /\ Hour <= Interval
<1> DEFINE P == SlotsPerMinute
           M == MinutesPerHour
<1>1. P \in Nat \ {0} /\ M \in Nat \ {0}
  BY TimeAssumption
<1>2. Hour = P * M /\ Interval = 8 * Hour
  BY DEF Hour, Interval
<1> HIDE DEF P, M
<1>3. P * M \in Nat /\ P * (M - 1) \in Nat /\ P * (M - 1) = P * M - P
  <2>1. M - 1 \in Nat
    BY <1>1
  <2>2. P * M \in Nat /\ P * (M - 1) \in Nat
    BY <1>1, <2>1, Products
  <2>3. QED
    BY <1>1, <2>2
<1>4. QED
  BY <1>1, <1>2, <1>3 DEF P, M

\* A settlement minute is the first of a whole number of intervals.
LEMMA SettlementMinute ==
    ASSUME NEW t \in Nat, SettlementTime(t)
    PROVE  \E k \in Nat : \E r \in 0 .. SlotsPerMinute - 1 : t = Interval * k + r
<1> DEFINE P == SlotsPerMinute
           M == MinutesPerHour
           h == t \div Hour
           x == t % Hour
           m == t \div P
           r == t % P
           b == m \div M
<1>1. P \in Nat \ {0} /\ M \in Nat \ {0} /\ Hour \in Nat \ {0} /\ P <= Hour
  BY TimesTyped
<1>2. h \in Nat /\ x \in 0 .. Hour - 1 /\ t = Hour * h + x
  BY <1>1, Divided
<1>3. m \in Nat /\ r \in 0 .. P - 1 /\ t = P * m + r
  BY <1>1, Divided
<1>4. h % 24 \in {0, 8, 16} /\ m % M = 0
  BY DEF SettlementTime, HourOf, MinuteOf
<1>5. b \in Nat /\ m = M * b
  <2> HIDE DEF m
  <2>1. b \in Nat /\ m = M * b + (m % M)
    BY <1>1, <1>3, Divided
  <2>2. M * b \in Nat
    BY <1>1, <2>1, Products
  <2>3. QED
    BY <1>4, <2>1, <2>2
<1> HIDE DEF h, x, m, r, b, P, M
<1>6. PICK k \in Nat : h = 8 * k
  <2>1. h = 24 * (h \div 24) + (h % 24) /\ h \div 24 \in Nat
    BY <1>2, Divided
  <2> DEFINE c == h \div 24
  <2>2. h = 8 * (3 * c) \/ h = 8 * (3 * c + 1) \/ h = 8 * (3 * c + 2)
    BY <1>4, <2>1
  <2>3. 3 * c \in Nat /\ 3 * c + 1 \in Nat /\ 3 * c + 2 \in Nat
    BY <2>1
  <2>4. QED
    BY <2>2, <2>3
<1>7. t = Hour * b + r
  <2>1. Hour = P * M
    BY DEF Hour, P, M
  <2>2. P * (M * b) = (P * M) * b
    BY <1>1, <1>5
  <2>3. QED
    BY <1>3, <1>5, <2>1, <2>2
<1>8. h = b
  <2>1. x \in Nat /\ x < Hour /\ r \in Nat /\ r < Hour /\ Hour * h + x = Hour * b + r
    BY <1>1, <1>2, <1>3, <1>7
  <2>2. QED
    BY <1>1, <1>2, <1>5, <2>1, QuotientUnique
<1>9. t = Interval * k + r
  <2>1. Interval = 8 * Hour
    BY DEF Interval
  <2>2. Hour * (8 * k) = (8 * Hour) * k
    BY <1>1
  <2>3. QED
    BY <1>6, <1>7, <1>8, <2>1, <2>2
<1>10. QED
  BY <1>3, <1>9 DEF P

\* What was announced at time u for a settlement at time n, and a settlement in
\* minute t.
LEMMA Announced ==
    ASSUME NEW t \in Nat, NEW u \in Nat, u <= t, SettlementTime(t), NEW n \in Int,
           n - SlotsPerMinute < (u \div Interval + 1) * Interval
    PROVE  t + SlotsPerMinute > n \/ t - u < SlotsPerMinute
<1> DEFINE I == Interval
           P == SlotsPerMinute
           m == u \div I
           y == u % I
<1>1. I \in Nat \ {0} /\ P \in Nat \ {0} /\ P <= I
  BY TimesTyped
<1>2. m \in Nat /\ y \in 0 .. I - 1 /\ u = I * m + y
  BY <1>1, Divided
<1>3. n - P < (m + 1) * I
  OBVIOUS
<1>4. PICK k \in Nat : \E r \in 0 .. P - 1 : t = I * k + r
  BY SettlementMinute
<1>5. PICK r \in 0 .. P - 1 : t = I * k + r
  BY <1>4
<1> HIDE DEF I, P, m, y
<1>6. I * m \in Nat /\ I * k \in Nat /\ (m + 1) * I = I * m + I
  BY <1>1, <1>2, Products
<1>7. CASE m < k
  <2>1. I * m + I <= I * k
    BY <1>1, <1>2, <1>7, ProductGrows
  <2>2. QED
    BY <1>1, <1>3, <1>5, <1>6, <2>1 DEF P
<1>8. CASE m = k
  BY <1>1, <1>2, <1>5, <1>6, <1>8 DEF P
<1>9. CASE k < m
  <2>1. I * k + I <= I * m
    BY <1>1, <1>2, <1>9, ProductGrows
  <2>2. QED
    BY <1>1, <1>2, <1>5, <1>6, <2>1
<1>10. QED
  BY <1>2, <1>7, <1>8, <1>9

RateFields == {"rate", "mark", "index", "next", "since"}

\* A settlement a symbol was promised: its time is that of the first interval
\* that ends after the promise, or less than a minute later.
Promised(s) ==
    /\ rates[s].since \in Nat /\ rates[s].since <= clock /\ rates[s].next \in Int
    /\ rates[s].next - SlotsPerMinute
          < (rates[s].since \div Interval + 1) * Interval

\* The inductive invariant behind SettledWhenDue.
FundingInv ==
    /\ clock \in Nat
    /\ DOMAIN rates = FundingSymbols /\ DOMAIN history = FundingSymbols
    /\ \A s \in FundingSymbols : DOMAIN rates[s] = RateFields
    /\ \A s \in Known : Promised(s)
    /\ settling \subseteq Known
    /\ settling # {} => SettlementTime(clock)

LEMMA PromiseKept ==
    ASSUME FundingInv, NEW s \in Known, clock' \in Nat, clock <= clock',
           rates'[s].since = rates[s].since, rates'[s].next = rates[s].next
    PROVE  Promised(s)'
<1>1. Promised(s) /\ clock \in Nat
  BY DEF FundingInv
<1>2. QED
  BY <1>1 DEF Promised

LEMMA FundingKeeps == FundingInv /\ [FundingNext]_fundingVars => FundingInv'
<1> SUFFICES ASSUME FundingInv, [FundingNext]_fundingVars PROVE FundingInv'
  OBVIOUS
<1> USE DEF FundingInv
<1>1. ASSUME NEW s \in FundingSymbols, NEW mark1 \in FundingPrices,
             NEW index \in FundingPrices, UpdatePrices(s, mark1, index)
      PROVE  FundingInv'
  <2> DEFINE new == IF s \in Known THEN [rates[s] EXCEPT !.mark = mark1, !.index = index]
                    ELSE [rate |-> 0, mark |-> mark1, index |-> index,
                          next |-> getNextFundingTime(clock), since |-> clock]
  <2>1. rates' = [rates EXCEPT ![s] = new] /\ UNCHANGED <<clock, settling, history>>
    BY <1>1 DEF UpdatePrices
  <2>2. /\ DOMAIN new = RateFields
        /\ s \in Known => new.since = rates[s].since /\ new.next = rates[s].next
        /\ s \notin Known => /\ new.since = clock
                             /\ new.next = (clock \div Interval + 1) * Interval
    BY DEF RateFields, getNextFundingTime
  <2> HIDE DEF new
  <2>3. /\ rates'[s] = new /\ \A t \in FundingSymbols \ {s} : rates'[t] = rates[t]
        /\ DOMAIN rates' = FundingSymbols
    BY <2>1
  <2>4. Known' \subseteq Known \cup {s}
    BY <2>3 DEF Known
  <2>5. ASSUME NEW t \in Known PROVE Promised(t)'
    <3>1. t \in FundingSymbols
      BY DEF Known
    <3>2. rates'[t].since = rates[t].since /\ rates'[t].next = rates[t].next
      BY <2>2, <2>3, <2>5, <3>1
    <3>3. QED
      BY <2>1, <3>2, PromiseKept
  <2>6. ASSUME s \notin Known PROVE Promised(s)'
    <3>1. /\ rates'[s].since = clock
          /\ rates'[s].next = (clock \div Interval + 1) * Interval
      BY <2>2, <2>3, <2>6
    <3> DEFINE n == (clock \div Interval + 1) * Interval
    <3>2. n \in Int /\ SlotsPerMinute > 0 /\ SlotsPerMinute \in Nat
      <4>1. clock \div Interval \in Nat /\ Interval \in Nat
        BY TimesTyped, Divided
      <4>2. QED
        BY <4>1, TimesTyped, Products
    <3>3. n - SlotsPerMinute < n
      <4> HIDE DEF n
      <4>1. QED
        BY <3>2
    <3> HIDE DEF n
    <3>4. /\ rates'[s].since \in Nat /\ rates'[s].since <= clock'
          /\ rates'[s].next \in Int
          /\ rates'[s].next - SlotsPerMinute < (rates'[s].since \div Interval + 1) * Interval
      BY <2>1, <3>1, <3>2, <3>3 DEF n
    <3>5. QED
      BY <3>4 DEF Promised
  <2>7. \A t \in Known' : Promised(t)'
    BY <2>4, <2>5, <2>6
  <2>8. Known \subseteq Known'
    <3>1. ASSUME NEW t \in Known PROVE rates'[t] # NoRate
      <4>1. Promised(t)'
        BY <2>5
      <4>2. rates'[t].since \in Nat
        BY <4>1 DEF Promised
      <4>3. QED
        BY <4>2 DEF NoRate
    <3>2. QED
      BY <3>1 DEF Known
  <2>9. QED
    BY <2>1, <2>2, <2>3, <2>7, <2>8
<1>2. CASE CalculateAll
  <2>1. /\ UNCHANGED <<clock, settling, history>>
        /\ rates' = [s \in FundingSymbols |->
              IF s \in Known THEN [rates[s] EXCEPT !.rate = FundingRate(rates[s])]
              ELSE rates[s]]
    BY <1>2 DEF CalculateAll
  <2>2. ASSUME NEW s \in FundingSymbols
        PROVE  /\ DOMAIN rates'[s] = RateFields
               /\ s \in Known => /\ rates'[s].since = rates[s].since
                                 /\ rates'[s].next = rates[s].next
               /\ s \notin Known => rates'[s] = rates[s]
    BY <2>1 DEF RateFields
  <2>3. ASSUME NEW s \in Known PROVE Promised(s)' /\ rates'[s] # NoRate
    <3>1. Promised(s)'
      <4>1. s \in FundingSymbols
        BY DEF Known
      <4>2. clock' \in Nat /\ clock <= clock'
        BY <2>1
      <4>3. rates'[s].since = rates[s].since /\ rates'[s].next = rates[s].next
        BY <2>2, <4>1
      <4>4. QED
        BY <4>2, <4>3, PromiseKept
    <3>2. rates'[s].since \in Nat
      BY <3>1 DEF Promised
    <3>3. QED
      BY <3>1, <3>2 DEF NoRate
  <2>4. Known' = Known
    BY <2>2, <2>3 DEF Known
  <2>5. QED
    BY <2>1, <2>2, <2>3, <2>4
<1>3. CASE SettlementTick
  <2>1. /\ UNCHANGED <<clock, rates, history>>
        /\ settling' = IF SettlementTime(clock) THEN Known ELSE {}
    BY <1>3 DEF SettlementTick
  <2>2. Known' = Known
    BY <2>1 DEF Known
  <2>3. \A s \in Known : Promised(s)'
    BY <2>1 DEF Promised
  <2>4. QED
    BY <2>1, <2>2, <2>3
<1>4. CASE Advance
  <2>1. clock' = clock + 1 /\ UNCHANGED <<settling, rates, history>> /\ settling = {}
    BY <1>4 DEF Advance
  <2>2. Known' = Known
    BY <2>1 DEF Known
  <2>3. \A s \in Known : Promised(s)'
    BY <2>1, PromiseKept
  <2>4. QED
    BY <2>1, <2>2, <2>3
<1>5. ASSUME NEW s \in FundingSymbols, SettleFunding(s)
      PROVE  FundingInv'
  <2>1. /\ settling' = settling \ {s} /\ s \in settling /\ s \in Known
        /\ rates' = [rates EXCEPT ![s].next = clock + Interval, ![s].since = clock]
        /\ DOMAIN history' = DOMAIN history /\ clock' = clock
        /\ SettlementTime(clock)
    BY <1>5 DEF SettleFunding
  <2>2. /\ rates'[s].next = clock + Interval /\ rates'[s].since = clock
        /\ DOMAIN rates'[s] = RateFields
        /\ \A t \in FundingSymbols \ {s} : rates'[t] = rates[t]
        /\ DOMAIN rates' = FundingSymbols
    BY <2>1 DEF RateFields
  <2>3. Promised(s)'
    <3> DEFINE m == clock \div Interval
               y == clock % Interval
    <3>1. Interval \in Nat \ {0} /\ SlotsPerMinute \in Nat \ {0} /\ SlotsPerMinute <= Interval
      BY TimesTyped
    <3>2. m \in Nat /\ y \in 0 .. Interval - 1 /\ clock = Interval * m + y
      BY <3>1, Divided
    <3>3. PICK k \in Nat : \E r \in 0 .. SlotsPerMinute - 1 : clock = Interval * k + r
      BY <2>1, SettlementMinute
    <3>4. PICK r \in 0 .. SlotsPerMinute - 1 : clock = Interval * k + r
      BY <3>3
    <3> HIDE DEF m, y
    <3>5. m = k
      <4>1. y \in Nat /\ y < Interval /\ r \in Nat /\ r < Interval
            /\ Interval * m + y = Interval * k + r
        BY <3>1, <3>2, <3>4
      <4>2. QED
        BY <3>1, <3>2, <4>1, QuotientUnique
    <3>6. Interval * m \in Nat /\ (m + 1) * Interval = Interval * m + Interval
      BY <3>1, <3>2, Products
    <3>7. clock + Interval - SlotsPerMinute < (m + 1) * Interval
      BY <3>1, <3>4, <3>5, <3>6
    <3>8. /\ rates'[s].since \in Nat /\ rates'[s].since <= clock' /\ rates'[s].next \in Int
          /\ rates'[s].next - SlotsPerMinute < (rates'[s].since \div Interval + 1) * Interval
      BY <2>1, <2>2, <3>1, <3>7 DEF m
    <3>9. QED
      BY <3>8 DEF Promised
  <2>4. ASSUME NEW t \in Known \ {s} PROVE Promised(t)'
    <3>1. t \in FundingSymbols
      BY DEF Known
    <3>2. QED
      BY <2>1, <2>2, <3>1, PromiseKept
  <2>5. rates'[s] # NoRate
    <3>1. rates'[s].since \in Nat
      BY <2>3 DEF Promised
    <3>2. QED
      BY <3>1 DEF NoRate
  <2>6. Known' = Known
    BY <2>1, <2>2, <2>5 DEF Known
  <2>7. QED
    BY <2>1, <2>2, <2>3, <2>4, <2>6
<1>6. CASE UNCHANGED fundingVars
  <2>1. UNCHANGED <<clock, settling, rates, history>>
    BY <1>6 DEF fundingVars
  <2>2. Known' = Known /\ \A s \in Known : Promised(s)'
    BY <2>1 DEF Known, Promised
  <2>3. QED
    BY <2>1, <2>2
<1>7. QED
  BY <1>1, <1>2, <1>3, <1>4, <1>5, <1>6 DEF FundingNext

(* Property SettledWhenDue: a symbol is settled no earlier than a minute      *)
(* before the time it was last told, unless less than a minute ago - for any  *)
(* phase of the tickers and however late they are (service.go:58-79,          *)
(* :211-255).  A settlement is made in the first minute of an interval only,  *)
(* and what is told is the end of the interval it is told in.                *)
THEOREM SettledWhenDueAlways == FundingSpec => SettledWhenDue
<1>1. FundingInit => FundingInv
  <2> SUFFICES ASSUME FundingInit PROVE FundingInv
    OBVIOUS
  <2>1. clock \in Nat
    BY TimesTyped DEF FundingInit
  <2>2. /\ rates = [s \in FundingSymbols |-> NoRate] /\ settling = {}
        /\ history = [s \in FundingSymbols |-> <<>>]
    BY DEF FundingInit
  <2>3. Known = {}
    BY <2>2 DEF Known
  <2>4. DOMAIN NoRate = RateFields
    BY DEF NoRate, RateFields
  <2>5. QED
    BY <2>1, <2>2, <2>3, <2>4 DEF FundingInv
<1>2. ASSUME FundingInv, [FundingNext]_fundingVars
      PROVE  [\A s \in FundingSymbols :
                 history'[s] # history[s] =>
                    \/ clock + SlotsPerMinute > rates[s].next
                    \/ clock - rates[s].since < SlotsPerMinute]_fundingVars
  <2> SUFFICES ASSUME NEW s \in FundingSymbols, history'[s] # history[s]
               PROVE  \/ clock + SlotsPerMinute > rates[s].next
                      \/ clock - rates[s].since < SlotsPerMinute
    OBVIOUS
  <2>1. s \in settling
    BY <1>2 DEF FundingNext, UpdatePrices, CalculateAll, SettlementTick, Advance,
                SettleFunding, fundingVars, FundingInv
  <2>2. clock \in Nat /\ Promised(s) /\ SettlementTime(clock)
    BY <1>2, <2>1 DEF FundingInv
  <2>3. QED
    BY <2>2, Announced DEF Promised
<1>3. QED
  BY <1>1, <1>2, FundingKeeps, PTL DEF FundingSpec, SettledWhenDue
=============================================================================
