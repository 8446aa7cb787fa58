--------------------------- MODULE PriceLevelTree ---------------------------
(***************************************************************************)
(* The price levels of one side of an order book, pkg/orderbook/           *)
(* pricetree.go: a slice `levels` kept in priority order, a map from price  *)
(* to slice index, and a binary search that finds where a new level goes.   *)
(* The search is modelled step by step, because its correctness is what     *)
(* everything else rests on: Best() is just levels[0].                      *)
(*                                                                         *)
(* A level is represented by its price (its queue is OrderBook's concern).  *)
(* Slice indexes are the code's: 0-based, so levels[i] is levels[i + 1].    *)
(***************************************************************************)
EXTENDS Integers, Sequences, SequencesExt

CONSTANTS
    Prices,      \* the prices an order can carry
    Descending   \* the `descending` field: TRUE for bids, FALSE for asks

ASSUME PricesAssumption == Prices \subseteq Int /\ Prices # {}
ASSUME DescendingAssumption == Descending \in BOOLEAN

VARIABLES
    levels,      \* the slice, as a sequence of prices
    priceMap,    \* price -> index in the slice
    pc,          \* "idle", or "search" while insert looks for the position
    price,       \* the price being inserted
    left, right  \* the window of the binary search

vars == <<levels, priceMap, pc, price, left, right>>

-----------------------------------------------------------------------------

\* Mutant: the comparison forgets the descending side.
MutBefore(a, b) == a < b

\* price.Cmp of the search: a goes strictly before b on this side.
Before(a, b) == IF Descending THEN a > b ELSE a < b

\* rebuildPriceMap: a later slot with the same price would overwrite.
RebuildPriceMap(ls) ==
    [p \in ToSet(ls) |->
        CHOOSE i \in 0 .. Len(ls) - 1 :
            /\ ls[i + 1] = p
            /\ \A j \in i + 1 .. Len(ls) - 1 : ls[j + 1] # p]

Init ==
    /\ levels = <<>>
    /\ priceMap = RebuildPriceMap(<<>>)
    /\ pc = "idle"
    /\ price \in Prices
    /\ left = 0
    /\ right = 0

\* GetOrCreate for a price that has no level yet, up to the start of
\* findInsertPosition.  (For a price that has one it returns that level.)
StartInsert(p) ==
    /\ pc = "idle"
    /\ p \notin DOMAIN priceMap
    /\ pc' = "search"
    /\ price' = p
    /\ left' = 0
    /\ right' = Len(levels)
    /\ UNCHANGED <<levels, priceMap>>

\* Mutant, off by one: the loop forgets that mid itself was already ruled out.
MutSearchStep ==
    /\ pc = "search"
    /\ left < right
    /\ LET mid == (left + right) \div 2
       IN IF Before(price, levels[mid + 1])
          THEN right' = mid /\ UNCHANGED left
          ELSE left' = mid /\ UNCHANGED right
    /\ UNCHANGED <<levels, priceMap, pc, price>>

\* One iteration of the loop of findInsertPosition.
SearchStep ==
    /\ pc = "search"
    /\ left < right
    /\ LET mid == (left + right) \div 2
       IN IF Before(price, levels[mid + 1])
          THEN right' = mid /\ UNCHANGED left
          ELSE left' = mid + 1 /\ UNCHANGED right
    /\ UNCHANGED <<levels, priceMap, pc, price>>

\* Mutant: only the new level is indexed, the shifted ones keep their slot.
MutNoRenumber ==
    /\ pc = "search"
    /\ left >= right
    /\ levels' = InsertAt(levels, left + 1, price)
    /\ priceMap' = [p \in ToSet(levels') |->
                       IF p = price THEN left ELSE priceMap[p]]
    /\ pc' = "idle"
    /\ left' = 0 /\ right' = 0
    /\ UNCHANGED price

\* The rest of insert: shift the tail by one, store the level, reindex.
FinishInsert ==
    /\ pc = "search"
    /\ left >= right
    /\ levels' = InsertAt(levels, left + 1, price)
    /\ priceMap' = RebuildPriceMap(levels')
    /\ pc' = "idle"
    /\ left' = 0 /\ right' = 0
    /\ UNCHANGED price

\* Remove: cut the slot the map names, reindex.
RemoveLevel(p) ==
    /\ pc = "idle"
    /\ p \in DOMAIN priceMap
    /\ levels' = RemoveAt(levels, priceMap[p] + 1)
    /\ priceMap' = RebuildPriceMap(levels')
    /\ UNCHANGED <<pc, price, left, right>>

\* Clear: drop everything.
Clear ==
    /\ pc = "idle"
    /\ levels' = <<>>
    /\ priceMap' = RebuildPriceMap(<<>>)
    /\ UNCHANGED <<pc, price, left, right>>

Next ==
    \/ \E p \in Prices : StartInsert(p) \/ RemoveLevel(p)
    \/ SearchStep
    \/ FinishInsert
    \/ Clear

\* insert is a straight run of code: once started it is carried through.
Fairness == WF_vars(SearchStep) /\ WF_vars(FinishInsert)

Spec == Init /\ [][Next]_vars /\ Fairness

-----------------------------------------------------------------------------

\* The abstract view: the set of prices with a level, and the first level.
Abstract == INSTANCE SortedPrices WITH
    prices <- ToSet(levels),
    best <- IF levels = <<>> THEN {} ELSE {levels[1]}

TypeOK ==
    /\ levels \in Seq(Prices)
    /\ pc \in {"idle", "search"}
    /\ price \in Prices
    /\ left \in 0 .. Len(levels)
    /\ right \in 0 .. Len(levels)

(* The slice is in strict priority order: no price has two levels, and the  *)
(* best level is first.  (Best(), pricetree.go:118, returns slot 0.)        *)
Sorted ==
    \A i, j \in 1 .. Len(levels) : i < j => Abstract!Precedes(levels[i], levels[j])

(* The map and the slice agree after every operation: Get returns the level *)
(* of the price asked for, and every level can be found.  An insertion that *)
(* shifts the tail must renumber it.                                        *)
MapAgrees ==
    /\ DOMAIN priceMap = ToSet(levels)
    /\ \A p \in DOMAIN priceMap :
          /\ priceMap[p] \in 0 .. Len(levels) - 1
          /\ levels[priceMap[p] + 1] = p

(* The loop invariant of findInsertPosition: the slots below `left` stay    *)
(* before the new price, the slots from `right` on stay after it.           *)
Window ==
    /\ pc = "idle" => left = 0 /\ right = 0
    /\ pc = "search" =>
          /\ left <= right
          /\ price \notin ToSet(levels)
          /\ \A i \in 1 .. left : Before(levels[i], price)
          /\ \A i \in right + 1 .. Len(levels) : Before(price, levels[i])

\* The inductive invariant of the proof.
IInv == TypeOK /\ Sorted /\ MapAgrees /\ Window

(* Every insertion ends: the binary search closes its window.              *)
InsertEnds == (pc = "search") ~> (pc = "idle")

(* The slice with its search implements a plain set of prices with an      *)
(* extremal Best: nobody can tell that the levels are kept in a slice.      *)
ImplementsSortedPrices == Abstract!AbsSpec
=============================================================================
