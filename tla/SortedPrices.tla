---------------------------- MODULE SortedPrices ----------------------------
(***************************************************************************)
(* What a side of the order book promises about its price levels: it holds *)
(* a set of prices, and Best is the extremal one - the highest price on the *)
(* bid side, the lowest one on the ask side.  Nothing is said of how the   *)
(* levels are stored or searched; PriceLevelTree is shown to implement it. *)
(***************************************************************************)
EXTENDS Integers

CONSTANTS
    Prices,      \* the prices an order can carry
    Descending   \* TRUE on the bid side, FALSE on the ask side

VARIABLES
    prices,      \* the set of prices that have a level
    best         \* {} when there is no level, else {the price of Best()}

absVars == <<prices, best>>

\* p comes strictly before q in the order of this side.
Precedes(p, q) == IF Descending THEN p > q ELSE p < q

\* The prices of S that no other price of S precedes: one of them, or none.
BestOf(S) == {p \in S : \A q \in S \ {p} : Precedes(p, q)}

AbsInit == prices = {} /\ best = {}

Open(p) == /\ p \notin prices
           /\ prices' = prices \cup {p}
           /\ best' = BestOf(prices')

Close(p) == /\ p \in prices
            /\ prices' = prices \ {p}
            /\ best' = BestOf(prices')

Empty == prices' = {} /\ best' = {}

AbsNext == Empty \/ \E p \in Prices : Open(p) \/ Close(p)

AbsSpec == AbsInit /\ [][AbsNext]_absVars
=============================================================================
