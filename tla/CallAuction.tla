---------------------------- MODULE CallAuction -----------------------------
(***************************************************************************)
(* The call auction of one symbol, pkg/engine/auction_engine.go: limit      *)
(* orders are collected while the phase is CALL; EndAuction finds the price  *)
(* at which most can be executed, pairs the orders that accept it, first     *)
(* against first, all at that one price, and reports what stays unmatched.   *)
(*                                                                         *)
(* Every method holds e.mu.  EndAuction is taken in steps, one per trade,    *)
(* because it updates orders the clients hold too, and because its loop is   *)
(* what can go wrong: BeginMatch up to the loop, Pair one iteration, EndMatch*)
(* the rest.  A stable order of the collected orders is their address: the   *)
(* auction numbers them (SequenceID) in the order in which they arrive.      *)
(*                                                                         *)
(* Left out: events, trade records (their quantities add up in `volume`),    *)
(* the indicative price, which changes nothing.                             *)
(***************************************************************************)
EXTENDS Orders, FiniteSets, SequencesExt, FiniteSetsExt

CONSTANTS
    AuctionForms,   \* the limit orders clients send, without their ids
    MaxCollected    \* bound: how many orders are sent

AuctionForm == [user : Users, side : Sides, tif : TimesInForce, price : Prices,
                qty : Nat \ {0}]

ASSUME AuctionAssumption ==
    AuctionForms \subseteq AuctionForm /\ MaxCollected \in Nat

VARIABLES
    phase,      \* NONE, CALL, MATCH, END
    collected,  \* buyOrders and sellOrders
    \* the locals of match():
    open,       \* openPrice, zero when there is none
    matchable,  \* matchableBuys and matchableSells
    next,       \* buyIdx and sellIdx, counted from 1
    volume,     \* result.MaxVolume
    unmatched   \* result.UnmatchedBuys and result.UnmatchedSells

locals == <<open, matchable, next, volume, unmatched>>
auctionVars == <<phase, collected, locals>>
vars == <<order, auctionVars>>

NoOrders == [s \in Sides |-> <<>>]

-----------------------------------------------------------------------------
(* The opening price.                                                       *)

\* An order of the side may be executed at price p.
Accepts(o, p) == IF o.side = "buy" THEN o.price >= p ELSE o.price <= p

\* What orders of a side ask for at price p.
VolumeAt(refs, p) ==
    LET accepting == {r \in ToSet(refs) : Accepts(order[r], p)}
    IN  SumFunction([r \in accepting |-> RemainingQty(order[r])])

\* Mutant: the volume of a price is that of its larger side.
MutMatchVolume(p) ==
    LET buys == VolumeAt(collected["buy"], p)
        sells == VolumeAt(collected["sell"], p)
    IN  IF buys > sells THEN buys ELSE sells

\* What can be executed at price p.
MatchVolume(p) ==
    LET buys == VolumeAt(collected["buy"], p)
        sells == VolumeAt(collected["sell"], p)
    IN  IF buys < sells THEN buys ELSE sells

\* The prices of the collected orders.
AskedPrices == {order[r].price : r \in UNION {ToSet(collected[s]) : s \in Sides}}

\* Where the search over ascending prices ends: at the first of those at which
\* most can be executed.
BestOpenPrices ==
    {p \in AskedPrices :
        /\ MatchVolume(p) > 0
        /\ \A q \in AskedPrices :
              IF q < p THEN MatchVolume(q) < MatchVolume(p)
                       ELSE MatchVolume(q) <= MatchVolume(p)}

\* calculateOpenPrice, zero when nothing can be executed at any price.
CalculateOpenPrice ==
    IF BestOpenPrices = {} THEN NoPrice ELSE CHOOSE p \in BestOpenPrices : TRUE

-----------------------------------------------------------------------------
(* Collection.                                                              *)

\* What a match() that is over leaves in its locals is of no use to anyone.
NoLocals ==
    /\ open' = NoPrice
    /\ matchable' = NoOrders
    /\ next' = [s \in Sides |-> 1]
    /\ volume' = 0
    /\ unmatched' = NoOrders

\* StartAuction, from any phase: what was collected is dropped.
StartAuction ==
    /\ phase' = "CALL"
    /\ collected' = NoOrders
    /\ NoLocals
    /\ UNCHANGED order

\* AddOrder.  (An order of another type, or in another phase, is refused and
\* changes nothing.)
AddOrder(f, id) ==
    LET r == Len(order) + 1
        o == [id |-> id, user |-> f.user, side |-> f.side, type |-> "limit",
              tif |-> f.tif, price |-> f.price, stop |-> NoPrice, qty |-> f.qty,
              visible |-> 0, filled |-> 0, status |-> "NEW", root |-> r,
              done |-> 0]
    IN  /\ phase = "CALL"
        /\ order' = Append(order, o)
        /\ collected' = [collected EXCEPT ![f.side] = Append(@, r)]
        /\ UNCHANGED <<phase, locals>>

\* The collected orders with an id: CancelOrder takes the first, buys first.
Found(id) ==
    LET sameID(r) == order[r].id = id
    IN  IF SelectSeq(collected["buy"], sameID) # <<>>
        THEN SelectSeq(collected["buy"], sameID)
        ELSE SelectSeq(collected["sell"], sameID)

\* CancelOrder, when it finds the order.
CancelOrder(id) ==
    /\ phase = "CALL"
    /\ Found(id) # <<>>
    /\ LET r == Head(Found(id)) IN
       /\ order' = [order EXCEPT ![r].status = "CANCELED"]
       /\ collected' = [collected EXCEPT ![order[r].side] = RemoveFirst(@, r)]
    /\ UNCHANGED <<phase, locals>>

Reset ==
    /\ phase' = "NONE"
    /\ collected' = NoOrders
    /\ NoLocals
    /\ UNCHANGED order

-----------------------------------------------------------------------------
(* EndAuction.                                                              *)

\* The comparison of sort.Slice: the better price first, then the earlier.
Precedes(r, k) ==
    \/ /\ order[r].price # order[k].price
       /\ IF order[r].side = "buy" THEN order[r].price > order[k].price
                                   ELSE order[r].price < order[k].price
    \/ order[r].price = order[k].price /\ r < k

\* sort.Slice: the same orders, in order of precedence.
Sorted(refs) ==
    {s \in [1 .. Len(refs) -> ToSet(refs)] :
        /\ ToSet(s) = ToSet(refs)
        /\ \A i, j \in 1 .. Len(refs) : i < j => Precedes(s[i], s[j])}

\* Mutant: an order at the opening price itself is left out.
MutAccepting(refs, p) ==
    Max({0} \cup {i \in 1 .. Len(refs) :
                     Accepts(order[refs[i]], p) /\ order[refs[i]].price # p})

\* How many orders of a sorted list accept the price.  They come first, so
\* that the filter loops of match() cut the list in two.
Accepting(refs, p) ==
    Max({0} \cup {i \in 1 .. Len(refs) : Accepts(order[refs[i]], p)})

\* EndAuction and match() up to the loop, with a side empty: nothing is sorted.
BeginEmpty ==
    /\ phase = "CALL"
    /\ \E s \in Sides : collected[s] = <<>>
    /\ phase' = "MATCH"
    /\ open' = NoPrice
    /\ matchable' = NoOrders
    /\ unmatched' = collected
    /\ next' = [s \in Sides |-> 1]
    /\ volume' = 0
    /\ UNCHANGED <<order, collected>>

\* The same with orders on both sides.  When nothing can be executed at any
\* price all of them stay unmatched.
BeginMatch ==
    /\ phase = "CALL"
    /\ \A s \in Sides : collected[s] # <<>>
    /\ phase' = "MATCH"
    /\ open' = CalculateOpenPrice
    /\ \E buys \in Sorted(collected["buy"]), sells \in Sorted(collected["sell"]) :
          LET both == [buy |-> buys, sell |-> sells]
              cut == [s \in Sides |-> IF open' = NoPrice THEN 0
                                      ELSE Accepting(both[s], open')]
          IN  /\ collected' = both
              /\ matchable' = [s \in Sides |-> SubSeq(both[s], 1, cut[s])]
              /\ unmatched' =
                    [s \in Sides |-> SubSeq(both[s], cut[s] + 1, Len(both[s]))]
    /\ next' = [s \in Sides |-> 1]
    /\ volume' = 0
    /\ UNCHANGED order

\* The loop goes on.
Pairing == phase = "MATCH" /\ \A s \in Sides : next[s] <= Len(matchable[s])

\* The heap after q more of an order is filled.
Fill(heap, r, q) ==
    LET filled == heap[r].filled + q
        hit == [heap EXCEPT ![r].filled = filled]
        told == [hit EXCEPT ![r].status = IF filled >= heap[r].qty
                                          THEN "FILLED" ELSE "PARTIALLY_FILLED"]
    IN  [told EXCEPT ![heap[r].root].done = @ + q]

\* Mutant: an order is passed over only once it is filled beyond its quantity.
MutPassed(o) == IF o.filled > o.qty THEN 1 ELSE 0

\* What an index moves by, past a filled order.
Passed(o) == IF IsFilled(o) THEN 1 ELSE 0

\* Mutant: the trade takes all the buyer wants.
MutPair ==
    /\ Pairing
    /\ LET b == matchable["buy"][next["buy"]]
           a == matchable["sell"][next["sell"]]
           q == RemainingQty(order[b])
       IN  /\ order' = Fill(Fill(order, b, q), a, q)
           /\ next' = [buy |-> next["buy"] + Passed(order'[b]),
                       sell |-> next["sell"] + Passed(order'[a])]
           /\ volume' = volume + q
    /\ UNCHANGED <<phase, collected, open, matchable, unmatched>>

\* One iteration: the first buy and the first sell that are not filled trade.
Pair ==
    /\ Pairing
    /\ LET b == matchable["buy"][next["buy"]]
           a == matchable["sell"][next["sell"]]
           bought == RemainingQty(order[b])
           sold == RemainingQty(order[a])
           q == IF bought < sold THEN bought ELSE sold
       IN  /\ order' = Fill(Fill(order, b, q), a, q)
           /\ next' = [buy |-> next["buy"] + Passed(order'[b]),
                       sell |-> next["sell"] + Passed(order'[a])]
           /\ volume' = volume + q
    /\ UNCHANGED <<phase, collected, open, matchable, unmatched>>

\* The orders of a list that are not filled, behind those of another.
WithUnfilled(list, rest) ==
    FoldLeft(LAMBDA kept, r : IF IsFilled(order[r]) THEN kept ELSE Append(kept, r),
             list, rest)

\* Mutant: the orders the loop stopped at are not reported.
MutLeftover(s) ==
    WithUnfilled(unmatched[s], SubSeq(matchable[s], next[s] + 1, Len(matchable[s])))

\* What stays of a side after the loop, as the result reports it.
Leftover(s) ==
    WithUnfilled(unmatched[s], SubSeq(matchable[s], next[s], Len(matchable[s])))

\* The loop is over: the result is complete and the phase is END.
EndMatch ==
    /\ phase = "MATCH" /\ ~ Pairing
    /\ phase' = "END"
    /\ unmatched' = [s \in Sides |-> Leftover(s)]
    /\ UNCHANGED <<order, collected, open, matchable, next, volume>>

-----------------------------------------------------------------------------

AuctionInit ==
    /\ phase = "NONE"
    /\ collected = NoOrders
    /\ open = NoPrice
    /\ matchable = NoOrders
    /\ next = [s \in Sides |-> 1]
    /\ volume = 0
    /\ unmatched = NoOrders

Init == order = <<>> /\ AuctionInit

\* The steps of an EndAuction in progress.
Step == Pair \/ EndMatch

\* Other methods wait for e.mu while EndAuction has it.
Next ==
    \/ phase # "MATCH" /\ (StartAuction \/ Reset)
    \/ /\ Len(order) < MaxCollected
       /\ \E f \in AuctionForms, id \in {"client"} \X ClientIDs : AddOrder(f, id)
    \/ \E id \in {"client"} \X ClientIDs : CancelOrder(id)
    \/ BeginEmpty \/ BeginMatch
    \/ Step

Spec == Init /\ [][Next]_vars

-----------------------------------------------------------------------------
(* The inductive invariant of the proof.                                    *)

\* (What `unmatched` holds at the end is left to AuctionComplete.)
TypeOK ==
    /\ order \in Seq(Order)
    /\ phase \in {"NONE", "CALL", "MATCH", "END"}
    /\ collected \in [Sides -> Seq(DOMAIN order)]
    /\ open \in Prices \cup {NoPrice}
    /\ matchable \in [Sides -> Seq(DOMAIN order)]
    /\ next \in [Sides -> Nat \ {0}]
    /\ volume \in Nat

\* Collected orders are of their side, name a price and ask for something; no
\* auction executed anything of them before.
CollectedOK ==
    phase \in {"CALL", "MATCH"} =>
        \A s \in Sides : \A i \in 1 .. Len(collected[s]) :
            LET o == order[collected[s][i]] IN
            /\ o.side = s /\ o.price \in Prices /\ o.qty > 0
            /\ phase = "CALL" => o.filled = 0

\* During the loop the orders to match are the first of a sorted list, and
\* accept the price; those before the index are filled, those after it are
\* untouched.
MatchOK ==
    phase = "MATCH" =>
        \A s \in Sides :
            /\ Len(matchable[s]) <= Len(collected[s])
            /\ next[s] <= Len(matchable[s]) + 1
            /\ matchable[s] # <<>> =>
                  \A i, j \in 1 .. Len(collected[s]) :
                      i < j => Precedes(collected[s][i], collected[s][j])
            /\ \A i \in 1 .. Len(matchable[s]) :
                  /\ matchable[s][i] = collected[s][i]
                  /\ Accepts(order[collected[s][i]], open)
            /\ \A i \in 1 .. Len(collected[s]) :
                  LET o == order[collected[s][i]] IN
                  /\ o.filled <= o.qty
                  /\ i < next[s] <=> IsFilled(o)
                  /\ i > next[s] \/ i > Len(matchable[s]) => o.filled = 0

\* What the collected orders of a side ask for at price p, executed or not.
Demand(s, p) ==
    LET accepting == {r \in ToSet(collected[s]) : Accepts(order[r], p)}
    IN  SumFunction([r \in accepting |-> order[r].qty])

\* During the loop either side has executed what was traded, and the orders
\* that are not to be matched do not accept the price.
VolumeOK ==
    phase = "MATCH" =>
        \A s \in Sides :
            /\ volume = SumFunction([r \in ToSet(collected[s]) |-> order[r].filled])
            /\ open # NoPrice =>
                  \A i \in 1 .. Len(collected[s]) :
                      Accepts(order[collected[s][i]], open) => i <= Len(matchable[s])

\* At no price is more asked for, on the side that asks for less, than either
\* side asks for at the opening price; without one, nothing can be executed.
OpenOK ==
    phase = "MATCH" =>
        \A p \in Prices : \E s \in Sides :
            IF open = NoPrice THEN Demand(s, p) = 0
                              ELSE \A t \in Sides : Demand(s, p) <= Demand(t, open)

IInv == TypeOK /\ CollectedOK /\ MatchOK

\* The sums, on top of it.
SumsInv == IInv /\ VolumeOK /\ OpenOK

\* No order is collected twice, and what is not to be matched waits in
\* `unmatched`.
ListsOK ==
    \A s \in Sides :
        /\ phase \in {"CALL", "MATCH"} => IsInjective(collected[s])
        /\ phase = "MATCH" =>
              unmatched[s] =
                  SubSeq(collected[s], Len(matchable[s]) + 1, Len(collected[s]))

ListsInv == IInv /\ ListsOK

-----------------------------------------------------------------------------
(* Properties.  They speak of the time EndAuction holds the lock: what it    *)
(* leaves behind is changed by others afterwards.                           *)

\* The loop has ended and its result is about to be reported.
Paired == phase = "MATCH" /\ ~ Pairing

(* The auction executes as much as can be executed at any one price (the     *)
(* comment on calculateOpenPrice, auction_engine.go:323: the principle of    *)
(* maximum volume): the price is chosen by sums over the orders, the volume  *)
(* comes about trade by trade.  No order had been filled before.            *)
VolumeMaximal ==
    Paired =>
        \A p \in Prices : \E s \in Sides : volume >= Demand(s, p)

(* Nothing executable is left over: every buy the auction hands on is below  *)
(* every sell it hands on, so that what reaches continuous trading cannot    *)
(* match with itself at another price than the opening price.               *)
AuctionUncrossed ==
    Paired =>
        \A b \in ToSet(Leftover("buy")), a \in ToSet(Leftover("sell")) :
            order[b].price < order[a].price

(* Price before time: an order is touched only when every order of its side  *)
(* that precedes it - a better price, or the same and earlier - is filled     *)
(* whole; no order is filled beyond its quantity or at a price it does not   *)
(* accept.                                                                  *)
AuctionPriority ==
    phase = "MATCH" =>
        \A s \in Sides : \A r, k \in ToSet(collected[s]) :
            /\ order[k].filled <= order[k].qty
            /\ order[k].filled > 0 => Accepts(order[k], open)
            /\ order[k].filled > 0 /\ Precedes(r, k) => IsFilled(order[r])

(* No order is lost and none is both filled and handed on: each collected    *)
(* order is filled or in the result, once.                                  *)
AuctionComplete ==
    Paired =>
        \A s \in Sides :
            /\ IsInjective(Leftover(s))
            /\ ToSet(Leftover(s)) =
                  {r \in ToSet(collected[s]) : ~ IsFilled(order[r])}

(* Every trade gets the loop on: it fills one of its two orders, so that     *)
(* EndAuction, which holds the lock, ends after no more trades than orders.  *)
PairAdvances ==
    [][phase = "MATCH" /\ phase' = "MATCH" =>
         next'["buy"] + next'["sell"] > next["buy"] + next["sell"]]_<<next, volume>>
=============================================================================
