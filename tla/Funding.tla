------------------------------- MODULE Funding ------------------------------
(***************************************************************************)
(* The funding service: prices that are set from outside, a loop that turns  *)
(* them into a rate every minute, and a loop that settles when a minute tick *)
(* falls into the first minute of the hours 0, 8 and 16.                     *)
(*                                                                          *)
(* Time is counted in slots.  The tickers tick once a minute, in a phase set *)
(* by when the service was started, and a tick may be late; the hour and the *)
(* minute are read from the time of the tick.  Rates are in hundredths of a  *)
(* percent, rounded down.  Nothing in the repository starts the service or   *)
(* reads its payments.                                                      *)
(***************************************************************************)
EXTENDS Integers, Sequences

CONSTANTS
    FundingSymbols,  \* contracts that may be given prices
    FundingPrices,   \* the marks and indices they may have, zero included
    SlotsPerMinute,
    MinutesPerHour,  \* 60
    MaxDelay,        \* how many slots a tick may be late
    Horizon          \* bound: the last slot

ASSUME FundingPricesAssumption == FundingPrices \subseteq Nat
ASSUME TimeAssumption ==
    SlotsPerMinute \in Nat \ {0} /\ MinutesPerHour \in Nat \ {0}
    /\ MaxDelay \in Nat /\ Horizon \in Nat

VARIABLES
    clock,       \* the time; 0 is a midnight, and the service starts in the minute after
    due,         \* when the settlement ticker's next tick is due
    settling,    \* the symbols settleAllSymbols has still to settle
    rates,       \* Service.fundingRates, and when next was set (since)
    history,     \* Service.history
    calcDue      \* when the other ticker's next tick is due

fundingVars == <<clock, due, settling, rates, history, calcDue>>

Hour == SlotsPerMinute * MinutesPerHour
Interval == 8 * Hour

HourOf(t) == (t \div Hour) % 24
MinuteOf(t) == (t \div SlotsPerMinute) % MinutesPerHour

NoRate == [rate |-> 0, mark |-> 0, index |-> 0, next |-> -1, since |-> -1]

FundingInit ==
    /\ clock \in 0 .. SlotsPerMinute - 1
    /\ due = clock + SlotsPerMinute
    /\ calcDue = due
    /\ settling = {}
    /\ rates = [s \in FundingSymbols |-> NoRate]
    /\ history = [s \in FundingSymbols |-> <<>>]

Known == {s \in FundingSymbols : rates[s] # NoRate}

\* The settlement times are a whole number of intervals after midnight.
getNextFundingTime(t) == (t \div Interval + 1) * Interval

UpdatePrices(s, mark, index) ==
    /\ rates' = [rates EXCEPT ![s] =
          IF s \in Known THEN [@ EXCEPT !.mark = mark, !.index = index]
          ELSE [rate |-> 0, mark |-> mark, index |-> index,
                next |-> getNextFundingTime(clock), since |-> clock]]
    /\ UNCHANGED <<clock, due, settling, history, calcDue>>

MaxRate == 75
BaseRate == 1

Clamp(r) == IF r > MaxRate THEN MaxRate ELSE IF r < -MaxRate THEN -MaxRate ELSE r

FundingRate(r) ==
    IF r.index = 0 THEN r.rate
    ELSE Clamp(((r.mark - r.index) * 10000) \div r.index + BaseRate)

CalculateAll ==
    /\ clock >= calcDue
    /\ calcDue' = calcDue + SlotsPerMinute
    /\ rates' = [s \in FundingSymbols |->
          IF s \in Known THEN [rates[s] EXCEPT !.rate = FundingRate(rates[s])] ELSE rates[s]]
    /\ UNCHANGED <<clock, due, settling, history>>

\* Mutant: every minute of the hour counts.
MutSettlementTime(t) == HourOf(t) \in {0, 8, 16}

SettlementTime(t) == HourOf(t) \in {0, 8, 16} /\ MinuteOf(t) = 0

SettlementTick ==
    /\ settling = {}
    /\ clock >= due
    /\ due' = due + SlotsPerMinute
    /\ settling' = IF SettlementTime(clock) THEN Known ELSE {}
    /\ UNCHANGED <<clock, rates, history, calcDue>>

SettleFunding(s) ==
    /\ s \in settling
    /\ settling' = settling \ {s}
    /\ history' = [history EXCEPT ![s] = Append(@, [rate |-> rates[s].rate, time |-> clock])]
    /\ rates' = [rates EXCEPT ![s].next = clock + Interval, ![s].since = clock]
    /\ UNCHANGED <<clock, due, calcDue>>

\* No tick is later than MaxDelay, and settling takes no longer.
Advance ==
    /\ clock < Horizon
    /\ settling = {}
    /\ clock < due + MaxDelay /\ clock < calcDue + MaxDelay
    /\ clock' = clock + 1
    /\ UNCHANGED <<due, settling, rates, history, calcDue>>

FundingNext ==
    \/ \E s \in FundingSymbols, mark, index \in FundingPrices : UpdatePrices(s, mark, index)
    \/ CalculateAll \/ SettlementTick \/ Advance
    \/ \E s \in FundingSymbols : SettleFunding(s)

FundingSpec == FundingInit /\ [][FundingNext]_fundingVars
-----------------------------------------------------------------------------
(* A settlement comes no earlier than a minute before the time announced for *)
(* it, unless it is less than a minute since that was announced: a symbol    *)
(* first priced in a settlement minute is settled in it, and a settlement is *)
(* made once more when a tick was late.                                      *)
SettledWhenDue ==
    [][\A s \in FundingSymbols :
          history'[s] # history[s] =>
              \/ clock + SlotsPerMinute > rates[s].next
              \/ clock - rates[s].since < SlotsPerMinute]_fundingVars
=============================================================================
