--------------------------- MODULE AuctionMarket ----------------------------
(***************************************************************************)
(* One symbol with both its engines, as EngineManager (pkg/engine/           *)
(* manager.go) keeps them: the match engine trades while the auction engine  *)
(* collects, and EndAuction hands what the auction left unmatched to the     *)
(* match engine, order by order, before it records the opening price as the *)
(* book's last price.  Other calls reach the match engine between the        *)
(* orders of a hand-over.                                                   *)
(*                                                                         *)
(* The administrator's StartAuction and EndAuction follow one another: a new *)
(* auction does not start while the previous one is being handed over.      *)
(***************************************************************************)
EXTENDS CallAuction

CONSTANTS
    Forms, FreshIDs, Requests   \* MatchEngine's; it has the auction's bound

VARIABLES
    level, orderIndex, userOrders, lastPrice, deltaBuffer,   \* its book
    paused, buyStops, sellStops, stopIndex, stopUsers, stack, tradePrice,
    handing,    \* EngineManager.EndAuction has its result and is not done
    handover    \* the orders of the result it has not handed over yet

Engine == INSTANCE MatchEngine WITH MaxOrders <- MaxCollected

bookVars == <<level, orderIndex, userOrders, deltaBuffer>>
stopVars == <<buyStops, sellStops, stopIndex, stopUsers>>
engineVars == <<bookVars, lastPrice, paused, stopVars, stack, tradePrice>>
managerVars == <<handing, handover>>
marketVars == <<order, engineVars, auctionVars, managerVars>>

-----------------------------------------------------------------------------

\* An order for the auction.
Collect(f, id) ==
    /\ Cardinality(Engine!Submitted) < MaxCollected
    /\ FreshIDs => \A k \in DOMAIN order : order[k].id # id
    /\ AddOrder(f, id)
    /\ UNCHANGED <<engineVars, managerVars>>

\* Cancellation of a collected order.
Uncollect(id) ==
    /\ CancelOrder(id)
    /\ UNCHANGED <<engineVars, managerVars>>

\* EngineManager.StartAuction.
BeginAuction ==
    /\ phase # "MATCH" /\ ~ handing
    /\ StartAuction
    /\ UNCHANGED <<engineVars, managerVars>>

\* EndAuction of the auction engine, up to its last step.
Match ==
    /\ BeginEmpty \/ BeginMatch \/ Pair
    /\ UNCHANGED <<engineVars, managerVars>>

\* Mutant: only the unmatched buys are handed over.
MutResult ==
    /\ EndMatch
    /\ handing' = TRUE
    /\ handover' = unmatched'["buy"]
    /\ UNCHANGED engineVars

\* EndAuction has returned its result to the manager.
Result ==
    /\ EndMatch
    /\ handing' = TRUE
    /\ handover' = unmatched'["buy"] \o unmatched'["sell"]
    /\ UNCHANGED engineVars

\* The next unmatched order becomes an order of the match engine.  The loop
\* does not look at what became of it.
HandOver ==
    /\ Engine!Idle /\ handing /\ handover # <<>>
    /\ Engine!ProcessOrder(order, Head(handover), <<>>)
    /\ handover' = Tail(handover)
    /\ UNCHANGED <<bookVars, lastPrice, paused, tradePrice, handing, auctionVars>>

\* The opening price becomes the last price, without a look at the stops.
SetOpenPrice ==
    /\ Engine!Idle /\ handing /\ handover = <<>>
    /\ IF open # NoPrice THEN Engine!SetLastPrice(open) ELSE UNCHANGED lastPrice
    /\ handing' = FALSE
    /\ UNCHANGED <<order, bookVars, paused, stopVars, stack, tradePrice, handover,
                   auctionVars>>

-----------------------------------------------------------------------------

MarketInit ==
    /\ Engine!Init
    /\ AuctionInit
    /\ handing = FALSE
    /\ handover = <<>>

MarketNext ==
    \/ Engine!Next /\ UNCHANGED <<auctionVars, managerVars>>
    \/ \E f \in AuctionForms, id \in {"client"} \X ClientIDs : Collect(f, id)
    \/ \E id \in {"client"} \X ClientIDs : Uncollect(id)
    \/ BeginAuction
    \/ Match \/ Result
    \/ HandOver \/ SetOpenPrice

MarketSpec == MarketInit /\ [][MarketNext]_marketVars

-----------------------------------------------------------------------------
(* Properties.  The auction's own hold with a match engine at work beside it. *)

(* When EndAuction has returned, each collected order that was not canceled  *)
(* or rejected meanwhile has been executed or still rests for all it asked:  *)
(* nothing of it is lost between the two engines (manager.go:371).          *)
AuctionHandedOn ==
    phase = "END" /\ ~ handing /\ Engine!Idle =>
        \A r \in UNION {ToSet(collected[s]) : s \in Sides} :
            \/ ~ Engine!Stays(order[r])
            \/ \E k \in DOMAIN order :
                  order[k].root = r /\ order[k].status \in {"CANCELED", "REJECTED"}
            \/ order[r].done + Engine!Outstanding(r) >= order[r].qty

(* No order is executed beyond its quantity, in the auction, the match engine *)
(* or both together (MatchEngine's NoOverfill; manager.go:375).              *)
NoOverfill == Engine!NoOverfill
=============================================================================
