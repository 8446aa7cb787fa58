------------------------------ MODULE BookFeed ------------------------------
(***************************************************************************)
(* An order book driven through its own methods by any caller, and a client *)
(* that mirrors its depth: it takes snapshots when it likes and applies the *)
(* deltas FlushDeltas hands out, one at a time, in order, however late.     *)
(* Neither carries the other's position (an OrderBookDelta has no sequence  *)
(* number), so the client cannot tell a delta older than its snapshot.      *)
(***************************************************************************)
EXTENDS OrderBook

CONSTANTS
    Quantities,  \* quantities an order may ask for
    MaxPlaced    \* bound: how many orders are added

ASSUME QuantitiesAssumption == Quantities \subseteq Nat \ {0}
ASSUME MaxPlacedAssumption == MaxPlaced \in Nat

VARIABLES
    inbox,    \* deltas flushed and not applied yet
    replica   \* the client's depth

feedVars == <<order, bookVars, inbox, replica>>

FeedInit ==
    /\ BookInit
    /\ inbox = <<>>
    /\ replica = Depth

\* A caller adds an order under an id that was never used before.
Place(id, user, side, price, qty) ==
    /\ Len(order) < MaxPlaced
    /\ id \notin {order[r].id : r \in DOMAIN order}
    /\ order' = Append(order,
          [id |-> id, user |-> user, side |-> side, type |-> "limit",
           tif |-> "GTC", price |-> price, stop |-> NoPrice, qty |-> qty,
           visible |-> 0, filled |-> 0, status |-> "NEW",
           root |-> Len(order) + 1, done |-> 0])
    /\ AddOrder(Len(order'))
    /\ UNCHANGED <<lastPrice, inbox, replica>>

\* A caller removes an order.
Withdraw(id) ==
    /\ Removable(id)
    /\ UNCHANGED order
    /\ RemoveOrder(id)
    /\ UNCHANGED <<lastPrice, inbox, replica>>

\* A caller reports a fill of no more than what is left.
Fill(id) ==
    /\ id \in DOMAIN orderIndex
    /\ \E q \in 1 .. RemainingQty(order[orderIndex[id]]) :
          UpdateOrderVolume(id, q)
    /\ UNCHANGED <<lastPrice, inbox, replica>>

\* The client polls again once it has applied the batch it was given.
FlushDeltas ==
    /\ deltaBuffer # <<>>
    /\ inbox = <<>>
    /\ inbox' = deltaBuffer
    /\ deltaBuffer' = <<>>
    /\ UNCHANGED <<order, level, orderIndex, userOrders, lastPrice, replica>>

\* The client applies the oldest delta it holds.
Receive ==
    /\ inbox # <<>>
    /\ replica' = ApplyDelta(replica, Head(inbox))
    /\ inbox' = Tail(inbox)
    /\ UNCHANGED <<order, bookVars>>

\* Snapshot: the client replaces its copy by the depth of this moment.
Snapshot ==
    /\ replica' = Depth
    /\ UNCHANGED <<order, bookVars, inbox>>

FeedNext ==
    \/ \E id \in {"client"} \X ClientIDs, user \in Users, side \in Sides,
          price \in Prices, qty \in Quantities : Place(id, user, side, price, qty)
    \/ \E id \in DOMAIN orderIndex : Withdraw(id) \/ Fill(id)
    \/ FlushDeltas
    \/ Receive
    \/ Snapshot

FeedSpec == FeedInit /\ [][FeedNext]_feedVars

FeedTypeOK ==
    /\ order \in Seq(Order)
    /\ orderIndex \in [DOMAIN orderIndex -> DOMAIN order]
    /\ \A s \in Sides : DOMAIN level[s] \subseteq Prices

(* Once the client has applied every delta it has been or can be handed, its *)
(* copy is the book's depth - wherever in the stream of deltas its snapshots *)
(* fell.  (It is so because a delta carries the level's volume, not the      *)
(* change, and no method changes a volume without one.)                      *)
ReplicaConverges == Replay(replica, inbox \o deltaBuffer) = Depth
=============================================================================
