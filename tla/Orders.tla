------------------------------- MODULE Orders -------------------------------
(***************************************************************************)
(* Orders as pkg/types/order.go defines them.  An order is a Go object that *)
(* the book, its indexes and the caller share by pointer and that matching  *)
(* updates in place, so the models keep a heap: a sequence of order records *)
(* in which an order's position is its address (a `Ref`).  Two objects may  *)
(* carry the same OrderID; they are still two objects.                      *)
(***************************************************************************)
EXTENDS Integers, Sequences

CONSTANTS
    ClientIDs,   \* what a client may send as client_order_id
    Users,
    Prices       \* positive prices

ASSUME PricesAssumption == Prices \subseteq Nat \ {0}

VARIABLE order   \* the heap of orders

Sides == {"buy", "sell"}

OppositeSide == [buy |-> "sell", sell |-> "buy"]

Types == {"limit", "market", "stop_loss", "take_profit", "iceberg"}

TimesInForce == {"GTC", "IOC", "FOK", "POST_ONLY"}

Statuses == {"NEW", "PARTIALLY_FILLED", "FILLED", "CANCELED", "REJECTED"}

\* decimal.Zero, the value of a price that was not given.
NoPrice == 0

\* An OrderID: the client's own, the client's with "-visible" appended, or a
\* fresh uuid (numbered by the object that gets it).
OrderIDs == ({"client", "visible"} \X ClientIDs) \cup ({"uuid"} \X (Nat \ {0}))

Ref == Nat \ {0}

\* `root` and `done` are not in the code: root names the submission an object
\* stems from (an iceberg's slice, a triggered stop, the clone that rests after
\* a partial fill), and done counts, on the submission itself, the quantity
\* executed for it in any of these roles.
Order == [id : OrderIDs, user : Users, side : Sides, type : Types,
          tif : TimesInForce, price : Prices \cup {NoPrice},
          stop : Prices \cup {NoPrice}, qty : Nat, visible : Nat,
          filled : Nat, status : Statuses, root : Ref, done : Nat]

RemainingQty(o) == o.qty - o.filled

IsFilled(o) == o.filled >= o.qty
=============================================================================
