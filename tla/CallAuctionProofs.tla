------------------------- MODULE CallAuctionProofs --------------------------
(***************************************************************************)
(* For every set of users, ids, prices and orders: the auction's loop       *)
(* executes orders in price-time order, none beyond its quantity or at a    *)
(* price it does not accept, as much as can be executed at any one price,    *)
(* and every trade brings the loop nearer its end; its result is complete    *)
(* and not crossed.                                                         *)
(*                                                                         *)
(* The invariant is MatchOK, the loop's own: the orders to match are the     *)
(* front part of the sorted list, those before the index are filled whole,   *)
(* those after it untouched.  A trade changes only the two orders at the     *)
(* indexes, because a sorted list holds no order twice and the two lists are *)
(* of different sides.  SumsInv adds the sums: what either side has executed *)
(* is what was traded, and no price has a greater volume than the one        *)
(* chosen.  ListsInv adds where an order that is not filled is found.        *)
(***************************************************************************)
EXTENDS CallAuction, SequenceLemmas

USE PricesAssumption, AuctionAssumption

-----------------------------------------------------------------------------
(* Heaps.                                                                   *)

\* The same orders, as far as the auction never changes them.
SameOrders(old, new) ==
    /\ DOMAIN new = DOMAIN old
    /\ \A k \in DOMAIN old :
          /\ new[k].side = old[k].side
          /\ new[k].price = old[k].price
          /\ new[k].qty = old[k].qty

(* An order whose filled quantity, status or count of executions changed.   *)
LEMMA Updates ==
    ASSUME NEW o \in Order, NEW n \in Nat, NEW st \in Statuses
    PROVE  /\ [o EXCEPT !.filled = n] \in Order
           /\ [o EXCEPT !.status = st] \in Order
           /\ [o EXCEPT !.done = n] \in Order
BY DEF Order

(* One order of a heap is replaced by another.                              *)
LEMMA Replaced ==
    ASSUME NEW heap \in Seq(Order), NEW r, NEW o,
           r \in DOMAIN heap => o \in Order
    PROVE  /\ [heap EXCEPT ![r] = o] \in Seq(Order)
           /\ DOMAIN [heap EXCEPT ![r] = o] = DOMAIN heap
           /\ \A k \in DOMAIN heap :
                 [heap EXCEPT ![r] = o][k] = IF k = r THEN o ELSE heap[k]
<1>1. CASE r \in DOMAIN heap
  <2>1. r \in 1 .. Len(heap)
    BY <1>1
  <2>2. QED
    BY <1>1, <2>1, ExceptSeq
<1>2. CASE r \notin DOMAIN heap
  <2>1. [heap EXCEPT ![r] = o] = heap
    BY <1>2
  <2>2. QED
    BY <1>2, <2>1
<1>3. QED
  BY <1>1, <1>2

(* Fill changes one filled quantity, and nothing the properties see besides. *)
LEMMA FillHeap ==
    ASSUME NEW heap \in Seq(Order), NEW r \in DOMAIN heap, NEW q \in Nat
    PROVE  /\ Fill(heap, r, q) \in Seq(Order)
           /\ SameOrders(heap, Fill(heap, r, q))
           /\ \A k \in DOMAIN heap :
                 Fill(heap, r, q)[k].filled =
                    IF k = r THEN heap[r].filled + q ELSE heap[k].filled
<1> DEFINE filled == heap[r].filled + q
           st == IF filled >= heap[r].qty THEN "FILLED" ELSE "PARTIALLY_FILLED"
           root == heap[r].root
           hit == [heap EXCEPT ![r].filled = filled]
           told == [hit EXCEPT ![r].status = st]
           made == [told EXCEPT ![root].done = @ + q]
<1>1. Fill(heap, r, q) = made
  BY DEF Fill
<1>2. heap[r] \in Order /\ filled \in Nat /\ st \in Statuses
  <2>1. heap[r] \in Order
    BY ElementOfSeq
  <2>2. heap[r].filled \in Nat
    BY <2>1 DEF Order
  <2>3. st \in Statuses
    BY DEF Statuses
  <2> HIDE DEF st
  <2>4. QED
    BY <2>1, <2>2, <2>3
<1> HIDE DEF st
<1>3. /\ hit \in Seq(Order) /\ SameOrders(heap, hit)
      /\ \A k \in DOMAIN heap :
            hit[k].filled = IF k = r THEN filled ELSE heap[k].filled
  <2> DEFINE o == [heap[r] EXCEPT !.filled = filled]
  <2>1. hit = [heap EXCEPT ![r] = o]
    OBVIOUS
  <2>2. o \in Order
    BY <1>2, Updates
  <2>3. /\ hit \in Seq(Order) /\ DOMAIN hit = DOMAIN heap
        /\ \A k \in DOMAIN heap : hit[k] = IF k = r THEN o ELSE heap[k]
    BY <2>1, <2>2, Replaced
  <2>4. /\ o.side = heap[r].side /\ o.price = heap[r].price
        /\ o.qty = heap[r].qty /\ o.filled = filled
    BY <1>2 DEF Order
  <2>5. QED
    BY <2>3, <2>4 DEF SameOrders
<1> HIDE DEF hit
<1>4. /\ told \in Seq(Order) /\ SameOrders(heap, told)
      /\ \A k \in DOMAIN heap :
            told[k].filled = IF k = r THEN filled ELSE heap[k].filled
  <2> DEFINE o == [hit[r] EXCEPT !.status = st]
  <2>1. told = [hit EXCEPT ![r] = o]
    OBVIOUS
  <2>2. r \in DOMAIN hit /\ hit[r] \in Order
    BY <1>3, ElementOfSeq DEF SameOrders
  <2>3. o \in Order
    BY <1>2, <2>2, Updates
  <2>4. /\ told \in Seq(Order) /\ DOMAIN told = DOMAIN hit
        /\ \A k \in DOMAIN hit : told[k] = IF k = r THEN o ELSE hit[k]
    BY <1>3, <2>1, <2>3, Replaced
  <2>5. /\ o.side = hit[r].side /\ o.price = hit[r].price
        /\ o.qty = hit[r].qty /\ o.filled = hit[r].filled
    BY <2>2 DEF Order
  <2>6. QED
    BY <1>3, <2>4, <2>5 DEF SameOrders
<1> HIDE DEF told
<1>5. /\ made \in Seq(Order) /\ SameOrders(heap, made)
      /\ \A k \in DOMAIN heap :
            made[k].filled = IF k = r THEN filled ELSE heap[k].filled
  <2> DEFINE o == [told[root] EXCEPT !.done = told[root].done + q]
  <2>1. made = [told EXCEPT ![root] = o]
    OBVIOUS
  <2>2. ASSUME root \in DOMAIN told PROVE told[root] \in Order /\ o \in Order
    <3>1. told[root] \in Order
      BY <1>4, <2>2, ElementOfSeq
    <3>2. told[root].done \in Nat
      BY <3>1 DEF Order
    <3>3. told[root].done + q \in Nat
      BY <3>2
    <3>4. QED
      BY <1>2, <3>1, <3>3, Updates
  <2>3. root \in DOMAIN told =>
            /\ o.side = told[root].side /\ o.price = told[root].price
            /\ o.qty = told[root].qty /\ o.filled = told[root].filled
    BY <2>2 DEF Order
  <2> HIDE DEF o
  <2>4. /\ made \in Seq(Order) /\ DOMAIN made = DOMAIN told
        /\ \A k \in DOMAIN told : made[k] = IF k = root THEN o ELSE told[k]
    BY <1>4, <2>1, <2>2, Replaced
  <2> HIDE DEF made
  <2>5. QED
    BY <1>4, <2>3, <2>4 DEF SameOrders
<1>6. QED
  BY <1>1, <1>5

-----------------------------------------------------------------------------
(* The opening price is a price of the market, or none.                     *)
LEMMA OpenPriceType ==
    ASSUME TypeOK, CollectedOK, phase = "CALL"
    PROVE  CalculateOpenPrice \in Prices \cup {NoPrice}
<1>1. AskedPrices \subseteq Prices
  <2>1. SUFFICES ASSUME NEW s \in Sides, NEW r \in ToSet(collected[s])
                 PROVE  order[r].price \in Prices
    BY DEF AskedPrices
  <2>2. collected[s] \in Seq(DOMAIN order)
    BY DEF TypeOK
  <2>3. PICK i \in 1 .. Len(collected[s]) : r = collected[s][i]
    BY <2>2 DEF ToSet
  <2>4. QED
    BY <2>3 DEF CollectedOK
<1>2. BestOpenPrices \subseteq Prices
  BY <1>1 DEF BestOpenPrices
<1> HIDE DEF BestOpenPrices
<1>3. QED
  BY <1>2 DEF CalculateOpenPrice

(* An order that comes before another of its list has no worse a price.     *)
LEMMA NotWorse ==
    ASSUME NEW x, NEW y, Precedes(x, y),
           order[x].price \in Nat, order[y].price \in Nat
    PROVE  IF order[x].side = "buy" THEN order[x].price >= order[y].price
           ELSE order[x].price <= order[y].price
<1> DEFINE a == order[x].price
           b == order[y].price
<1>1. a = b \/ (IF order[x].side = "buy" THEN a > b ELSE a < b)
  BY Zenon DEF Precedes
<1>2. a \in Nat /\ b \in Nat
  OBVIOUS
<1> HIDE DEF a, b
<1>3. IF order[x].side = "buy" THEN a >= b ELSE a <= b
  BY <1>1, <1>2
<1>4. QED
  BY <1>3 DEF a, b

(* The place where a list is cut is one of its places; what is before it     *)
(* accepts the price, and nothing after it does.                            *)
LEMMA CutAccepts ==
    ASSUME order \in Seq(Order), NEW s \in Sides, NEW refs \in Seq(DOMAIN order),
           NEW p \in Prices,
           \A i \in 1 .. Len(refs) :
               order[refs[i]].side = s /\ order[refs[i]].price \in Prices,
           \A i, j \in 1 .. Len(refs) : i < j => Precedes(refs[i], refs[j])
    PROVE  /\ Accepting(refs, p) \in 0 .. Len(refs)
           /\ \A i \in 1 .. Accepting(refs, p) : Accepts(order[refs[i]], p)
           /\ \A i \in 1 .. Len(refs) :
                 Accepts(order[refs[i]], p) => i <= Accepting(refs, p)
<1> DEFINE D == {0} \cup {i \in 1 .. Len(refs) : Accepts(order[refs[i]], p)}
           n == Max(D)
<1>1. D \in SUBSET (0 .. Len(refs)) /\ D # {} /\ D \in SUBSET Nat
  OBVIOUS
<1>2. IsFiniteSet(D)
  <2>1. Len(refs) \in Int /\ 0 \in Int
    OBVIOUS
  <2>2. IsFiniteSet(0 .. Len(refs))
    BY <2>1, FS_Interval
  <2>3. QED
    BY <1>1, <2>2, FS_Subset
<1>3. n \in D /\ \A i \in D : i <= n
  BY <1>1, <1>2, GreatestExists
<1>4. ASSUME NEW i \in 1 .. n
      PROVE  Accepts(order[refs[i]], p)
  <2>1. n \in 1 .. Len(refs) /\ Accepts(order[refs[n]], p)
    BY <1>1, <1>3, <1>4
  <2> HIDE DEF n
  <2>2. CASE i = n
    BY <2>1, <2>2
  <2>3. CASE i # n
    <3>1. i \in 1 .. Len(refs) /\ i < n
      BY <2>1, <2>3
    <3>2. Precedes(refs[i], refs[n])
      BY <2>1, <3>1
    <3>3. /\ order[refs[i]].price \in Nat /\ order[refs[n]].price \in Nat /\ p \in Nat
          /\ order[refs[i]].side = s /\ order[refs[n]].side = s
      BY <2>1, <3>1
    <3> DEFINE o == order[refs[i]]
               w == order[refs[n]]
    <3>4. IF o.side = "buy" THEN o.price >= w.price ELSE o.price <= w.price
      BY <3>2, <3>3, NotWorse
    <3>5. IF w.side = "buy" THEN w.price >= p ELSE w.price <= p
      BY <2>1 DEF Accepts
    <3>6. o.price \in Nat /\ w.price \in Nat /\ o.side = w.side
      BY <3>3
    <3> HIDE DEF o, w
    <3>7. IF o.side = "buy" THEN o.price >= p ELSE o.price <= p
      BY <3>3, <3>4, <3>5, <3>6
    <3>8. QED
      BY <3>7 DEF Accepts, o
  <2>4. QED
    BY <2>2, <2>3
<1>5. n \in 0 .. Len(refs)
  BY <1>1, <1>3
<1>6. Accepting(refs, p) = n
  BY DEF Accepting
<1>7. \A i \in 1 .. Len(refs) : Accepts(order[refs[i]], p) => i \in D
  OBVIOUS
<1> HIDE DEF n, D
<1>8. QED
  BY <1>3, <1>4, <1>5, <1>6, <1>7

-----------------------------------------------------------------------------
(* Collection.                                                              *)

LEMMA EmptyTyped ==
    ASSUME NEW S
    PROVE  NoOrders \in [Sides -> Seq(S)]
BY DEF NoOrders

LEMMA InitIInv == Init => IInv
<1> SUFFICES ASSUME Init PROVE IInv
  OBVIOUS
<1>1. order = <<>> /\ phase = "NONE" /\ collected = NoOrders /\ open = NoPrice
      /\ matchable = NoOrders /\ next = [s \in Sides |-> 1] /\ volume = 0
  BY DEF Init, AuctionInit
<1>2. TypeOK
  BY <1>1, EmptyTyped DEF TypeOK
<1>3. CollectedOK /\ MatchOK
  BY <1>1 DEF CollectedOK, MatchOK
<1>4. QED
  BY <1>2, <1>3 DEF IInv

LEMMA RestartKeeps ==
    ASSUME IInv, StartAuction \/ Reset
    PROVE  IInv'
<1>1. /\ phase' \in {"CALL", "NONE"} /\ collected' = NoOrders /\ order' = order
      /\ open' = NoPrice /\ matchable' = NoOrders
      /\ next' = [s \in Sides |-> 1] /\ volume' = 0
  BY DEF StartAuction, Reset, NoLocals
<1>2. TypeOK'
  BY <1>1, EmptyTyped DEF IInv, TypeOK
<1>3. CollectedOK'
  BY <1>1 DEF CollectedOK, NoOrders
<1>4. MatchOK'
  BY <1>1 DEF MatchOK
<1>5. QED
  BY <1>2, <1>3, <1>4 DEF IInv

LEMMA AddOrderKeeps ==
    ASSUME IInv, NEW f \in AuctionForms, NEW id \in {"client"} \X ClientIDs,
           AddOrder(f, id)
    PROVE  IInv'
<1> DEFINE r == Len(order) + 1
           o == [id |-> id, user |-> f.user, side |-> f.side, type |-> "limit",
                 tif |-> f.tif, price |-> f.price, stop |-> NoPrice,
                 qty |-> f.qty, visible |-> 0, filled |-> 0, status |-> "NEW",
                 root |-> r, done |-> 0]
<1>1. /\ phase = "CALL" /\ phase' = "CALL" /\ order' = Append(order, o)
      /\ collected' = [collected EXCEPT ![f.side] = Append(@, r)]
      /\ UNCHANGED locals
  BY DEF AddOrder
<1>2. order \in Seq(Order) /\ r \in Nat \ {0}
  BY DEF IInv, TypeOK
<1>3. f \in AuctionForm /\ id \in OrderIDs
  BY DEF OrderIDs
<1>4. o \in Order
  <2>1. "limit" \in Types /\ "NEW" \in Statuses /\ NoPrice = 0
    BY DEF Types, Statuses, NoPrice
  <2>2. QED
    BY <1>2, <1>3, <2>1 DEF Order, AuctionForm, Ref
<1>5. o.side = f.side /\ o.price \in Prices /\ o.qty > 0 /\ o.filled = 0 /\ f.side \in Sides
  BY <1>3 DEF AuctionForm
<1> HIDE DEF o
<1>6. /\ order' \in Seq(Order) /\ DOMAIN order \subseteq DOMAIN order'
      /\ r \in DOMAIN order' /\ order'[r] = o
      /\ \A k \in DOMAIN order : order'[k] = order[k]
  BY <1>1, <1>2, <1>4, AppendProperties
<1>7. \A s \in Sides : collected[s] \in Seq(DOMAIN order)
  BY DEF IInv, TypeOK
<1>8. \A s \in Sides : collected'[s] =
          IF s = f.side THEN Append(collected[s], r) ELSE collected[s]
  BY <1>1, <1>5 DEF IInv, TypeOK
<1> HIDE DEF r
<1>9. Seq(DOMAIN order) \subseteq Seq(DOMAIN order')
  BY <1>6, SeqMonotonic
<1>10. ASSUME NEW s \in Sides
       PROVE  /\ collected'[s] \in Seq(DOMAIN order')
              /\ \A i \in 1 .. Len(collected'[s]) :
                    \/ s = f.side /\ collected'[s][i] = r
                    \/ i \in 1 .. Len(collected[s]) /\ collected'[s][i] = collected[s][i]
  <2>1. collected[s] \in Seq(DOMAIN order') /\ r \in DOMAIN order'
    BY <1>6, <1>7, <1>9
  <2>2. CASE s = f.side
    <3>1. collected'[s] = Append(collected[s], r)
      BY <1>8, <2>2
    <3>2. QED
      BY <2>1, <2>2, <3>1, AppendProperties
  <2>3. CASE s # f.side
    <3>1. collected'[s] = collected[s]
      BY <1>8, <2>3
    <3>2. QED
      BY <2>1, <3>1
  <2>4. QED
    BY <2>2, <2>3
<1>11. TypeOK'
  <2>1. collected' \in [Sides -> Seq(DOMAIN order')]
    BY <1>1, <1>10 DEF IInv, TypeOK
  <2>2. matchable' \in [Sides -> Seq(DOMAIN order')]
    BY <1>1, <1>9 DEF IInv, TypeOK, locals
  <2>3. QED
    BY <1>1, <1>6, <2>1, <2>2 DEF IInv, TypeOK, locals
<1>12. CollectedOK'
  <2>1. SUFFICES ASSUME NEW s \in Sides, NEW i \in 1 .. Len(collected'[s])
                 PROVE  LET k == order'[collected'[s][i]]
                        IN  k.side = s /\ k.price \in Prices /\ k.qty > 0 /\ k.filled = 0
    BY DEF CollectedOK
  <2>2. CASE s = f.side /\ collected'[s][i] = r
    BY <1>5, <1>6, <2>2
  <2>3. CASE i \in 1 .. Len(collected[s]) /\ collected'[s][i] = collected[s][i]
    <3>1. collected[s][i] \in DOMAIN order
      BY <1>7, <2>3, ElementOfSeq
    <3>2. LET k == order[collected[s][i]]
          IN  k.side = s /\ k.price \in Prices /\ k.qty > 0 /\ k.filled = 0
      BY <1>1, <2>3 DEF IInv, CollectedOK
    <3>3. order'[collected[s][i]] = order[collected[s][i]]
      BY <1>6, <3>1
    <3>4. QED
      BY <2>3, <3>2, <3>3
  <2>4. QED
    BY <1>10, <2>2, <2>3
<1>13. MatchOK'
  BY <1>1 DEF MatchOK
<1>14. QED
  BY <1>11, <1>12, <1>13 DEF IInv

LEMMA CancelOrderKeeps ==
    ASSUME IInv, NEW id, CancelOrder(id)
    PROVE  IInv'
<1> DEFINE r == Head(Found(id))
           o == [order[r] EXCEPT !.status = "CANCELED"]
           Good(s) == {k \in DOMAIN order :
                          /\ order[k].side = s /\ order[k].price \in Prices
                          /\ order[k].qty > 0 /\ order[k].filled = 0}
<1>1. /\ phase = "CALL" /\ phase' = "CALL"
      /\ order' = [order EXCEPT ![r].status = "CANCELED"]
      /\ collected' = [collected EXCEPT ![order[r].side] = RemoveFirst(@, r)]
      /\ UNCHANGED locals
  BY DEF CancelOrder
<1> HIDE DEF r
<1>2. order \in Seq(Order)
  BY DEF IInv, TypeOK
<1>3. order' = [order EXCEPT ![r] = o]
  BY <1>1
<1>4. r \in DOMAIN order => o \in Order /\ o.side = order[r].side
          /\ o.price = order[r].price /\ o.qty = order[r].qty /\ o.filled = order[r].filled
  <2>1. SUFFICES ASSUME r \in DOMAIN order
                 PROVE  o \in Order /\ o.side = order[r].side
                        /\ o.price = order[r].price /\ o.qty = order[r].qty
                        /\ o.filled = order[r].filled
    OBVIOUS
  <2>2. order[r] \in Order /\ "CANCELED" \in Statuses
    BY <1>2, <2>1, ElementOfSeq DEF Statuses
  <2>3. QED
    BY <2>2, Updates DEF Order
<1> HIDE DEF o
<1>5. /\ order' \in Seq(Order) /\ DOMAIN order' = DOMAIN order
      /\ \A k \in DOMAIN order : order'[k] = IF k = r THEN o ELSE order[k]
  BY <1>2, <1>3, <1>4, Replaced
<1>6. \A s \in Sides : collected[s] \in Seq(Good(s))
  <2>1. SUFFICES ASSUME NEW s \in Sides PROVE collected[s] \in Seq(Good(s))
    OBVIOUS
  <2>2. collected[s] \in Seq(DOMAIN order)
    BY DEF IInv, TypeOK
  <2>3. \A i \in 1 .. Len(collected[s]) : collected[s][i] \in Good(s)
    BY <1>1, <2>2, ElementOfSeq DEF IInv, CollectedOK
  <2> HIDE DEF Good
  <2>4. QED
    BY <2>2, <2>3, IsASeq
<1>7. \A s \in Sides : collected'[s] \in Seq(Good(s))
  <2>1. SUFFICES ASSUME NEW s \in Sides PROVE collected'[s] \in Seq(Good(s))
    OBVIOUS
  <2>2. collected'[s] \in {collected[s], RemoveFirst(collected[s], r)}
    BY <1>1 DEF IInv, TypeOK
  <2> HIDE DEF Good
  <2>3. QED
    BY <1>6, <2>2, RemoveFirstType
<1>8. TypeOK'
  <2>1. \A s \in Sides : Seq(Good(s)) \subseteq Seq(DOMAIN order)
    <3>1. SUFFICES ASSUME NEW s \in Sides PROVE Seq(Good(s)) \subseteq Seq(DOMAIN order)
      OBVIOUS
    <3>2. Good(s) \subseteq DOMAIN order
      OBVIOUS
    <3>3. QED
      BY <3>2, SeqMonotonic
  <2> HIDE DEF Good
  <2>2. collected' \in [Sides -> Seq(DOMAIN order')]
    BY <1>1, <1>5, <1>7, <2>1 DEF IInv, TypeOK
  <2>3. QED
    BY <1>1, <1>5, <2>2 DEF IInv, TypeOK, locals
<1>9. CollectedOK'
  <2>1. SUFFICES ASSUME NEW s \in Sides, NEW i \in 1 .. Len(collected'[s])
                 PROVE  LET k == order'[collected'[s][i]]
                        IN  k.side = s /\ k.price \in Prices /\ k.qty > 0 /\ k.filled = 0
    BY DEF CollectedOK
  <2>2. collected'[s][i] \in Good(s)
    BY <1>7, <2>1, ElementOfSeq
  <2>3. QED
    BY <1>4, <1>5, <2>2
<1>10. MatchOK'
  BY <1>1 DEF MatchOK
<1>11. QED
  BY <1>8, <1>9, <1>10 DEF IInv

-----------------------------------------------------------------------------
(* The start of the match.                                                  *)

(* A collected order, before anything of it is executed.                    *)
LEMMA Untouched ==
    ASSUME IInv, phase = "CALL", NEW s \in Sides, NEW i \in 1 .. Len(collected[s])
    PROVE  LET o == order[collected[s][i]] IN
           /\ o.side = s /\ o.price \in Prices
           /\ o.filled = 0 /\ o.filled <= o.qty /\ ~ IsFilled(o)
<1>1. collected[s][i] \in DOMAIN order
  BY ElementOfSeq DEF IInv, TypeOK
<1>2. order[collected[s][i]] \in Order
  BY <1>1, ElementOfSeq DEF IInv, TypeOK
<1>3. QED
  BY <1>2 DEF IInv, CollectedOK, IsFilled, Order

LEMMA BeginEmptyKeeps ==
    ASSUME IInv, BeginEmpty
    PROVE  IInv'
<1>1. /\ phase = "CALL" /\ phase' = "MATCH" /\ order' = order
      /\ collected' = collected /\ open' = NoPrice /\ matchable' = NoOrders
      /\ next' = [s \in Sides |-> 1] /\ volume' = 0
  BY DEF BeginEmpty
<1>2. TypeOK'
  BY <1>1, EmptyTyped DEF IInv, TypeOK
<1>3. CollectedOK'
  BY <1>1 DEF IInv, CollectedOK
<1>4. MatchOK'
  <2>1. \A s \in Sides : matchable'[s] = <<>> /\ next'[s] = 1
                         /\ Len(collected[s]) \in Nat
    BY <1>1 DEF NoOrders, IInv, TypeOK
  <2>2. \A s \in Sides : \A i \in 1 .. Len(collected[s]) :
            LET o == order[collected[s][i]]
            IN  o.filled = 0 /\ o.filled <= o.qty /\ ~ IsFilled(o)
    BY <1>1, Untouched
  <2>3. QED
    BY <1>1, <2>1, <2>2 DEF MatchOK
<1>5. QED
  BY <1>2, <1>3, <1>4 DEF IInv

(* A sorted list has the same elements and is as long as the list it was.   *)
LEMMA SortedList ==
    ASSUME NEW S, NEW refs \in Seq(S), NEW list \in Sorted(refs)
    PROVE  /\ list \in Seq(S) /\ Len(list) = Len(refs)
           /\ ToSet(list) = ToSet(refs)
           /\ \A i \in 1 .. Len(list) : \E j \in 1 .. Len(refs) : list[i] = refs[j]
           /\ \A i, j \in 1 .. Len(list) : i < j => Precedes(list[i], list[j])
<1>1. ToSet(refs) \subseteq S
  BY ElementOfSeq DEF ToSet
<1>2. list \in [1 .. Len(refs) -> ToSet(refs)] /\ Len(refs) \in Nat
  BY DEF Sorted
<1>3. list \in Seq(S) /\ Len(list) = Len(refs)
  BY <1>1, <1>2, IsASeq
<1>4. \A i \in 1 .. Len(list) : \E j \in 1 .. Len(refs) : list[i] = refs[j]
  <2>1. \A i \in 1 .. Len(list) : list[i] \in ToSet(refs)
    BY <1>2, <1>3
  <2>2. QED
    BY <2>1 DEF ToSet
<1>5. /\ ToSet(list) = ToSet(refs)
      /\ \A i, j \in 1 .. Len(refs) : i < j => Precedes(list[i], list[j])
  BY DEF Sorted
<1>6. QED
  BY <1>3, <1>4, <1>5

\* The sorted list of a side's collected orders, and the part of it that is to
\* be matched at price p.
MatchLists(s, list, front, p) ==
    /\ ToSet(list) = ToSet(collected[s])
    /\ \A i, j \in 1 .. Len(list) : i < j => Precedes(list[i], list[j])
    /\ \A i \in 1 .. Len(list) :
          LET o == order[list[i]] IN
          /\ o.side = s /\ o.price \in Prices /\ o.qty > 0
          /\ o.filled = 0 /\ o.filled <= o.qty /\ ~ IsFilled(o)
    /\ Len(front) <= Len(list)
    /\ \A i \in 1 .. Len(front) : front[i] = list[i] /\ Accepts(order[list[i]], p)
    /\ p # NoPrice =>
          \A i \in 1 .. Len(list) : Accepts(order[list[i]], p) => i <= Len(front)

(* The lists a match starts with.                                           *)
LEMMA BeginMatchEffect ==
    ASSUME IInv, BeginMatch
    PROVE  /\ phase = "CALL" /\ phase' = "MATCH" /\ order' = order
           /\ open' = CalculateOpenPrice /\ open' \in Prices \cup {NoPrice}
           /\ next' = [s \in Sides |-> 1] /\ volume' = 0
           /\ collected' \in [Sides -> Seq(DOMAIN order)]
           /\ matchable' \in [Sides -> Seq(DOMAIN order)]
           /\ \A s \in Sides :
                 /\ MatchLists(s, collected'[s], matchable'[s], open')
                 /\ unmatched'[s] = SubSeq(collected'[s], Len(matchable'[s]) + 1,
                                          Len(collected'[s]))
<1>1. /\ phase = "CALL" /\ phase' = "MATCH" /\ order' = order
      /\ open' = CalculateOpenPrice
      /\ next' = [s \in Sides |-> 1] /\ volume' = 0
  BY DEF BeginMatch
<1>2. PICK buys \in Sorted(collected["buy"]), sells \in Sorted(collected["sell"]) :
          LET both == [buy |-> buys, sell |-> sells]
              cut == [s \in Sides |-> IF open' = NoPrice THEN 0
                                      ELSE Accepting(both[s], open')]
          IN  /\ collected' = both
              /\ matchable' = [s \in Sides |-> SubSeq(both[s], 1, cut[s])]
              /\ unmatched' =
                    [s \in Sides |-> SubSeq(both[s], cut[s] + 1, Len(both[s]))]
  BY DEF BeginMatch
<1> DEFINE cut(s) == IF open' = NoPrice THEN 0 ELSE Accepting(collected'[s], open')
<1>3. open' \in Prices \cup {NoPrice}
  BY <1>1, OpenPriceType DEF IInv
<1>4. \A s \in Sides : collected'[s] \in Sorted(collected[s])
  BY <1>2 DEF Sides
<1>5. collected' = [s \in Sides |-> collected'[s]]
  BY <1>2 DEF Sides
<1>6. /\ matchable' = [s \in Sides |-> SubSeq(collected'[s], 1, cut(s))]
      /\ unmatched' = [s \in Sides |-> SubSeq(collected'[s], cut(s) + 1,
                                              Len(collected'[s]))]
  BY <1>2
<1>7. ASSUME NEW s \in Sides
      PROVE  /\ collected'[s] \in Seq(DOMAIN order)
             /\ ToSet(collected'[s]) = ToSet(collected[s])
             /\ \A i, j \in 1 .. Len(collected'[s]) :
                   i < j => Precedes(collected'[s][i], collected'[s][j])
             /\ \A i \in 1 .. Len(collected'[s]) :
                   LET o == order[collected'[s][i]] IN
                   /\ o.side = s /\ o.price \in Prices /\ o.qty > 0
                   /\ o.filled = 0 /\ o.filled <= o.qty /\ ~ IsFilled(o)
  <2>1. collected[s] \in Seq(DOMAIN order)
    BY DEF IInv, TypeOK
  <2>2. /\ collected'[s] \in Seq(DOMAIN order)
        /\ ToSet(collected'[s]) = ToSet(collected[s])
        /\ \A i \in 1 .. Len(collected'[s]) :
              \E j \in 1 .. Len(collected[s]) : collected'[s][i] = collected[s][j]
        /\ \A i, j \in 1 .. Len(collected'[s]) :
              i < j => Precedes(collected'[s][i], collected'[s][j])
    <3>1. collected'[s] \in Sorted(collected[s])
      BY <1>4
    <3> DEFINE list == collected'[s]
    <3> HIDE DEF list
    <3>2. list \in Sorted(collected[s])
      BY <3>1 DEF list
    <3>3. /\ list \in Seq(DOMAIN order) /\ Len(list) = Len(collected[s])
          /\ ToSet(list) = ToSet(collected[s])
          /\ \A i \in 1 .. Len(list) :
                \E j \in 1 .. Len(collected[s]) : list[i] = collected[s][j]
          /\ \A i, j \in 1 .. Len(list) : i < j => Precedes(list[i], list[j])
      BY ONLY <2>1, <3>2, SortedList, Zenon
    <3>4. QED
      BY <3>3, Zenon DEF list
  <2>3. \A j \in 1 .. Len(collected[s]) :
            LET o == order[collected[s][j]] IN
            /\ o.side = s /\ o.price \in Prices /\ o.qty > 0
            /\ o.filled = 0 /\ o.filled <= o.qty /\ ~ IsFilled(o)
    BY <1>1, Untouched DEF IInv, CollectedOK
  <2>4. QED
    BY <2>2, <2>3, SMTT(30)
<1>8. ASSUME NEW s \in Sides
      PROVE  /\ cut(s) \in 0 .. Len(collected'[s])
             /\ \A i \in 1 .. cut(s) : Accepts(order[collected'[s][i]], open')
             /\ open' # NoPrice =>
                   \A i \in 1 .. Len(collected'[s]) :
                       Accepts(order[collected'[s][i]], open') => i <= cut(s)
  <2>1. CASE open' = NoPrice
    BY <1>7, <2>1
  <2>2. CASE open' # NoPrice
    <3>1. open' \in Prices /\ order \in Seq(Order)
      BY <1>3, <2>2 DEF IInv, TypeOK
    <3> DEFINE list == collected'[s]
               p == open'
               n == Accepting(list, p)
    <3>2. cut(s) = n
      BY <2>2
    <3>3. /\ list \in Seq(DOMAIN order)
          /\ \A i \in 1 .. Len(list) :
                 order[list[i]].side = s /\ order[list[i]].price \in Prices
          /\ \A i, j \in 1 .. Len(list) : i < j => Precedes(list[i], list[j])
      BY <1>7
    <3>4. p \in Prices
      BY <3>1
    <3> HIDE DEF list, p, cut
    <3>5. /\ n \in 0 .. Len(list) /\ \A i \in 1 .. n : Accepts(order[list[i]], p)
          /\ \A i \in 1 .. Len(list) : Accepts(order[list[i]], p) => i <= n
      BY ONLY <3>1, <3>3, <3>4, s \in Sides, CutAccepts, Zenon
    <3> HIDE DEF n
    <3>6. QED
      BY <3>2, <3>5 DEF list, p
  <2>3. QED
    BY <2>1, <2>2
<1> HIDE DEF cut
<1>9. ASSUME NEW s \in Sides
      PROVE  /\ matchable'[s] \in Seq(DOMAIN order)
             /\ Len(matchable'[s]) = cut(s)
             /\ \A i \in 1 .. cut(s) : matchable'[s][i] = collected'[s][i]
  <2>1. matchable'[s] = SubSeq(collected'[s], 1, cut(s))
    BY <1>6
  <2>2. cut(s) \in Nat /\ cut(s) <= Len(collected'[s])
    BY <1>7, <1>8
  <2>3. 1 \in 1 .. Len(collected'[s]) + 1 /\ cut(s) \in 1 - 1 .. Len(collected'[s])
    BY <1>7, <2>2
  <2>4. QED
    BY <1>7, <2>1, <2>2, <2>3, SubSeqProperties
<1>10. collected' \in [Sides -> Seq(DOMAIN order)] /\ matchable' \in [Sides -> Seq(DOMAIN order)]
  BY <1>5, <1>6, <1>7, <1>9
<1>11. ASSUME NEW s \in Sides
       PROVE  MatchLists(s, collected'[s], matchable'[s], open')
  BY <1>7, <1>8, <1>9 DEF MatchLists
<1>12. ASSUME NEW s \in Sides
       PROVE  unmatched'[s] = SubSeq(collected'[s], Len(matchable'[s]) + 1,
                                     Len(collected'[s]))
  BY <1>6, <1>9
<1>13. QED
  BY <1>1, <1>3, <1>10, <1>11, <1>12

LEMMA BeginMatchKeeps ==
    ASSUME IInv, BeginMatch
    PROVE  IInv'
<1>1. /\ phase' = "MATCH" /\ order' = order /\ open' \in Prices \cup {NoPrice}
      /\ next' = [s \in Sides |-> 1] /\ volume' = 0
      /\ collected' \in [Sides -> Seq(DOMAIN order)]
      /\ matchable' \in [Sides -> Seq(DOMAIN order)]
      /\ \A s \in Sides : MatchLists(s, collected'[s], matchable'[s], open')
  BY BeginMatchEffect
<1>2. TypeOK'
  BY <1>1 DEF IInv, TypeOK
<1>3. CollectedOK'
  BY <1>1 DEF CollectedOK, MatchLists
<1>4. MatchOK'
  <2>1. SUFFICES ASSUME NEW s \in Sides
        PROVE  /\ Len(matchable'[s]) <= Len(collected'[s])
               /\ next'[s] <= Len(matchable'[s]) + 1
               /\ \A i, j \in 1 .. Len(collected'[s]) :
                     i < j => Precedes(collected'[s][i], collected'[s][j])
               /\ \A i \in 1 .. Len(matchable'[s]) :
                     /\ matchable'[s][i] = collected'[s][i]
                     /\ Accepts(order'[collected'[s][i]], open')
               /\ \A i \in 1 .. Len(collected'[s]) :
                     LET o == order'[collected'[s][i]] IN
                     /\ o.filled <= o.qty
                     /\ i < next'[s] <=> IsFilled(o)
                     /\ o.filled = 0
    BY <1>1 DEF MatchOK, Precedes
  <2>2. next'[s] = 1 /\ Len(matchable'[s]) \in Nat
    BY <1>1
  <2>3. MatchLists(s, collected'[s], matchable'[s], open')
    BY <1>1
  <2>4. QED
    BY <1>1, <2>2, <2>3 DEF MatchLists
<1>5. QED
  BY <1>2, <1>3, <1>4 DEF IInv

-----------------------------------------------------------------------------
(* The loop.                                                                *)

(* The order at the index of a side: it is of that side and not filled, and  *)
(* it is at no other index.                                                 *)
LEMMA AtIndex ==
    ASSUME IInv, Pairing, NEW s \in Sides
    PROVE  LET r == matchable[s][next[s]] IN
           /\ next[s] \in 1 .. Len(collected[s])
           /\ next[s] <= Len(matchable[s])
           /\ r = collected[s][next[s]] /\ r \in DOMAIN order
           /\ order[r] \in Order /\ order[r].side = s
           /\ RemainingQty(order[r]) \in Nat \ {0}
           /\ \A i \in 1 .. Len(collected[s]) : collected[s][i] = r => i = next[s]
<1> DEFINE n == next[s]
           r == matchable[s][n]
<1>1. /\ phase = "MATCH" /\ n <= Len(matchable[s]) /\ n \in Nat \ {0}
      /\ matchable[s] \in Seq(DOMAIN order) /\ collected[s] \in Seq(DOMAIN order)
  BY DEF Pairing, IInv, TypeOK
<1>2. n \in 1 .. Len(matchable[s]) /\ n \in 1 .. Len(collected[s])
      /\ matchable[s] # <<>>
  BY <1>1 DEF IInv, MatchOK
<1>3. r = collected[s][n] /\ r \in DOMAIN order
  BY <1>1, <1>2, ElementOfSeq DEF IInv, MatchOK
<1>4. order[r] \in Order
  BY <1>3, ElementOfSeq DEF IInv, TypeOK
<1>5. order[r].side = s /\ order[r].filled <= order[r].qty /\ ~ IsFilled(order[r])
  <2>1. n \in Nat /\ ~ (n < n)
    BY <1>1
  <2>2. /\ order[r].side = s
        /\ order[r].filled <= order[r].qty
        /\ n < n <=> IsFilled(order[r])
    BY <1>1, <1>2, <1>3 DEF IInv, MatchOK, CollectedOK
  <2>3. QED
    BY <2>1, <2>2
<1>6. RemainingQty(order[r]) \in Nat \ {0}
  BY <1>4, <1>5 DEF RemainingQty, IsFilled, Order
<1>7. ASSUME NEW i \in 1 .. Len(collected[s]), collected[s][i] = r, i # n
      PROVE  FALSE
  <2>1. i < n \/ n < i
    BY <1>2, <1>7
  <2>2. Precedes(r, r)
    <3>1. \A j, k \in 1 .. Len(collected[s]) :
              j < k => Precedes(collected[s][j], collected[s][k])
      BY <1>1, <1>2 DEF IInv, MatchOK
    <3>2. QED
      BY <1>2, <1>3, <1>7, <2>1, <3>1
  <2>3. r \in Nat
    <3>1. order \in Seq(Order)
      BY DEF IInv, TypeOK
    <3> HIDE DEF r
    <3>2. r \in DOMAIN order
      BY <1>3
    <3>3. QED
      BY ONLY <3>1, <3>2
  <2>4. ~ (r < r)
    BY <2>3
  <2> HIDE DEF r
  <2>5. QED
    BY ONLY <2>2, <2>4, Zenon DEF Precedes
<1>8. QED
  BY <1>1, <1>2, <1>3, <1>4, <1>5, <1>6, <1>7

(* What a trade does: the two orders at the indexes, which are different,    *)
(* are filled by a quantity both have left, and one of them up to its own.   *)
LEMMA PairEffect ==
    ASSUME IInv, Pair
    PROVE  /\ Pairing /\ UNCHANGED <<phase, collected, open, matchable>>
           /\ order' \in Seq(Order) /\ SameOrders(order, order')
           /\ next' = [s \in Sides |-> next[s] + Passed(order'[matchable[s][next[s]]])]
           /\ \E q \in Nat \ {0} :
                 /\ volume' = volume + q
                 /\ \A s \in Sides : q <= RemainingQty(order[matchable[s][next[s]]])
                 /\ \E s \in Sides : q = RemainingQty(order[matchable[s][next[s]]])
                 /\ \A k \in DOMAIN order :
                       order'[k].filled =
                          IF \E s \in Sides : k = matchable[s][next[s]]
                          THEN order[k].filled + q ELSE order[k].filled
<1> DEFINE b == matchable["buy"][next["buy"]]
           a == matchable["sell"][next["sell"]]
           bought == RemainingQty(order[b])
           sold == RemainingQty(order[a])
           q == IF bought < sold THEN bought ELSE sold
<1>1. /\ Pairing /\ UNCHANGED <<phase, collected, open, matchable>>
      /\ order' = Fill(Fill(order, b, q), a, q)
      /\ next' = [buy |-> next["buy"] + Passed(order'[b]),
                  sell |-> next["sell"] + Passed(order'[a])]
      /\ volume' = volume + q
  BY DEF Pair
<1>2. "buy" \in Sides /\ "sell" \in Sides
  BY DEF Sides
<1>3. /\ b \in DOMAIN order /\ order[b].side = "buy" /\ bought \in Nat \ {0}
      /\ a \in DOMAIN order /\ order[a].side = "sell" /\ sold \in Nat \ {0}
  BY <1>1, <1>2, AtIndex
<1>4. a # b
  BY <1>3
<1>5. q \in Nat \ {0} /\ q <= bought /\ q <= sold /\ (q = bought \/ q = sold)
  BY <1>3
<1>6. next' = [s \in Sides |-> next[s] + Passed(order'[matchable[s][next[s]]])]
  <2> DEFINE moved(s) == next[s] + Passed(order'[matchable[s][next[s]]])
  <2>1. next' = [buy |-> moved("buy"), sell |-> moved("sell")]
    BY <1>1
  <2> HIDE DEF moved
  <2>2. next' = [s \in Sides |-> moved(s)]
    BY <2>1 DEF Sides
  <2>3. QED
    BY <2>2 DEF moved
<1> HIDE DEF q
<1> DEFINE half == Fill(order, b, q)
<1>7. /\ half \in Seq(Order) /\ SameOrders(order, half)
      /\ \A k \in DOMAIN order :
            half[k].filled = IF k = b THEN order[b].filled + q ELSE order[k].filled
  <2>1. order \in Seq(Order) /\ q \in Nat
    BY <1>5 DEF IInv, TypeOK
  <2> HIDE DEF b
  <2>2. b \in DOMAIN order
    BY <1>3
  <2>3. QED
    BY ONLY <2>1, <2>2, FillHeap
<1> HIDE DEF half
<1>8. /\ order' \in Seq(Order) /\ SameOrders(half, order')
      /\ \A k \in DOMAIN half :
            order'[k].filled = IF k = a THEN half[a].filled + q ELSE half[k].filled
  <2>1. a \in DOMAIN half /\ q \in Nat
    BY <1>3, <1>5, <1>7 DEF SameOrders
  <2>2. order' = Fill(half, a, q)
    BY <1>1 DEF half
  <2> HIDE DEF a
  <2>3. half \in Seq(Order)
    BY <1>7
  <2>4. QED
    BY ONLY <2>1, <2>2, <2>3, FillHeap
<1>9. SameOrders(order, order')
  BY <1>7, <1>8 DEF SameOrders
<1>10. ASSUME NEW k \in DOMAIN order
       PROVE  order'[k].filled = IF k = b \/ k = a
                                 THEN order[k].filled + q ELSE order[k].filled
  BY <1>3, <1>4, <1>7, <1>8 DEF SameOrders
<1>11. /\ \A s \in Sides : q <= RemainingQty(order[matchable[s][next[s]]])
       /\ \E s \in Sides : q = RemainingQty(order[matchable[s][next[s]]])
  BY <1>5 DEF Sides
<1>12. \A k \in DOMAIN order :
          order'[k].filled = IF \E s \in Sides : k = matchable[s][next[s]]
                             THEN order[k].filled + q ELSE order[k].filled
  BY <1>10 DEF Sides
<1>13. QED
  BY <1>1, <1>5, <1>6, <1>8, <1>9, <1>11, <1>12

LEMMA PairKeeps ==
    ASSUME IInv, Pair
    PROVE  IInv'
<1> DEFINE at(s) == matchable[s][next[s]]
<1>1. /\ Pairing /\ phase = "MATCH" /\ phase' = "MATCH"
      /\ collected' = collected /\ open' = open /\ matchable' = matchable
      /\ order' \in Seq(Order) /\ SameOrders(order, order')
      /\ next' = [s \in Sides |-> next[s] + Passed(order'[at(s)])]
  BY PairEffect DEF Pairing
<1>2. PICK q \in Nat \ {0} :
          /\ volume' = volume + q
          /\ \A s \in Sides : q <= RemainingQty(order[at(s)])
          /\ \A k \in DOMAIN order :
                order'[k].filled = IF \E s \in Sides : k = at(s)
                                   THEN order[k].filled + q ELSE order[k].filled
  BY PairEffect
<1>3. TypeOK'
  <2>1. DOMAIN order' = DOMAIN order
    BY <1>1 DEF SameOrders
  <2>2. next' \in [Sides -> Nat \ {0}]
    BY <1>1 DEF Passed, IInv, TypeOK
  <2>3. QED
    BY <1>1, <1>2, <2>1, <2>2 DEF IInv, TypeOK
<1>4. \A s \in Sides : collected[s] \in Seq(DOMAIN order)
  BY DEF IInv, TypeOK
<1>5. CollectedOK'
  <2>1. \A s \in Sides : \A i \in 1 .. Len(collected[s]) :
            collected[s][i] \in DOMAIN order
    BY <1>4, ElementOfSeq
  <2>2. QED
    BY <1>1, <2>1 DEF IInv, CollectedOK, SameOrders
<1>6. MatchOK'
  <2>1. SUFFICES ASSUME NEW s \in Sides
        PROVE  /\ Len(matchable[s]) <= Len(collected[s])
               /\ next'[s] <= Len(matchable[s]) + 1
               /\ matchable[s] # <<>> =>
                     \A i, j \in 1 .. Len(collected[s]) :
                         i < j => Precedes(collected[s][i], collected[s][j])
               /\ \A i \in 1 .. Len(matchable[s]) :
                     /\ matchable[s][i] = collected[s][i]
                     /\ Accepts(order[collected[s][i]], open)
               /\ \A i \in 1 .. Len(collected[s]) :
                     LET o == order'[collected[s][i]] IN
                     /\ o.filled <= o.qty
                     /\ i < next'[s] <=> IsFilled(o)
                     /\ i > next'[s] \/ i > Len(matchable[s]) => o.filled = 0
    <3>1. \A s \in Sides : Len(matchable[s]) <= Len(collected[s])
      BY <1>1 DEF IInv, MatchOK
    <3>2. \A s \in Sides : \A i \in 1 .. Len(collected[s]) :
              LET k == collected[s][i] IN
              /\ k \in DOMAIN order
              /\ order'[k].side = order[k].side
              /\ order'[k].price = order[k].price
      BY <1>1, <1>4, ElementOfSeq DEF SameOrders
    <3>3. \A s \in Sides : \A i, j \in 1 .. Len(collected[s]) :
              Precedes(collected[s][i], collected[s][j]) =>
                  \/ /\ order'[collected[s][i]].price # order'[collected[s][j]].price
                     /\ IF order'[collected[s][i]].side = "buy"
                        THEN order'[collected[s][i]].price > order'[collected[s][j]].price
                        ELSE order'[collected[s][i]].price < order'[collected[s][j]].price
                  \/ /\ order'[collected[s][i]].price = order'[collected[s][j]].price
                     /\ collected[s][i] < collected[s][j]
      <4>1. SUFFICES ASSUME NEW s \in Sides, NEW i \in 1 .. Len(collected[s]),
                            NEW j \in 1 .. Len(collected[s]),
                            Precedes(collected[s][i], collected[s][j])
                     PROVE
                  \/ /\ order'[collected[s][i]].price # order'[collected[s][j]].price
                     /\ IF order'[collected[s][i]].side = "buy"
                        THEN order'[collected[s][i]].price > order'[collected[s][j]].price
                        ELSE order'[collected[s][i]].price < order'[collected[s][j]].price
                  \/ /\ order'[collected[s][i]].price = order'[collected[s][j]].price
                     /\ collected[s][i] < collected[s][j]
        OBVIOUS
      <4> DEFINE x == collected[s][i]
                 y == collected[s][j]
      <4>2. /\ order'[x].side = order[x].side /\ order'[x].price = order[x].price
            /\ order'[y].price = order[y].price
        BY <3>2
      <4>3. Precedes(x, y)
        BY <4>1
      <4> HIDE DEF x, y
      <4>4. \/ /\ order'[x].price # order'[y].price
               /\ IF order'[x].side = "buy" THEN order'[x].price > order'[y].price
                  ELSE order'[x].price < order'[y].price
            \/ order'[x].price = order'[y].price /\ x < y
        BY ONLY <4>2, <4>3 DEF Precedes
      <4>5. QED
        BY <4>4 DEF x, y
    <3>4. \A s \in Sides : \A i \in 1 .. Len(matchable[s]) :
              i \in 1 .. Len(collected[s])
      BY <3>1, <1>4 DEF IInv, TypeOK
    <3>5. \A s \in Sides : \A i \in 1 .. Len(matchable[s]) :
              Accepts(order[collected[s][i]], open) =>
                  Accepts(order'[collected[s][i]], open)
      BY <3>2, <3>4 DEF Accepts
    <3>6. QED
      BY <1>1, <3>3, <3>5 DEF MatchOK, Precedes
  <2> DEFINE n == next[s]
             r == at(s)
  <2>2. /\ n \in 1 .. Len(collected[s]) /\ n <= Len(matchable[s])
        /\ r = collected[s][n] /\ r \in DOMAIN order
        /\ order[r] \in Order /\ order[r].side = s
        /\ RemainingQty(order[r]) \in Nat \ {0}
        /\ \A i \in 1 .. Len(collected[s]) : collected[s][i] = r => i = n
    BY <1>1, AtIndex
  <2>3. next'[s] = n + Passed(order'[r]) /\ Passed(order'[r]) \in 0 .. 1
    BY <1>1 DEF Passed
  <2>4. \A i \in 1 .. Len(collected[s]) : \A t \in Sides :
            collected[s][i] = at(t) => t = s /\ i = n
    <3>1. \A i \in 1 .. Len(collected[s]) : order[collected[s][i]].side = s
      BY <1>1 DEF IInv, CollectedOK
    <3>2. \A t \in Sides : order[at(t)].side = t
      BY <1>1, AtIndex
    <3>3. QED
      BY <2>2, <3>1, <3>2
  <2>5. Len(matchable[s]) \in Nat /\ Len(collected[s]) \in Nat
    BY DEF IInv, TypeOK
  <2>6. ASSUME NEW i \in 1 .. Len(collected[s])
        PROVE  LET o == order'[collected[s][i]] IN
               /\ o.filled <= o.qty
               /\ i < next'[s] <=> IsFilled(o)
               /\ i > next'[s] \/ i > Len(matchable[s]) => o.filled = 0
    <3> DEFINE k == collected[s][i]
    <3>1. k \in DOMAIN order /\ order[k] \in Order /\ order'[k].qty = order[k].qty
      BY <1>1, <1>4, ElementOfSeq DEF SameOrders, IInv, TypeOK
    <3>2. CASE i = n
      <4>1. k = r /\ order'[k].filled = order[k].filled + q
        BY <1>2, <2>2, <3>2
      <4>2. order'[k].filled <= order'[k].qty
        <5>1. q <= order[k].qty - order[k].filled
          BY <1>2, <4>1 DEF RemainingQty
        <5>2. order[k].qty \in Nat /\ order[k].filled \in Nat /\ q \in Nat
          BY <3>1 DEF Order
        <5> HIDE DEF k
        <5>3. QED
          BY <3>1, <4>1, <5>1, <5>2
      <4>3. i < next'[s] <=> IsFilled(order'[k])
        BY <2>2, <2>3, <3>2, <4>1 DEF Passed
      <4>4. ~ (i > next'[s]) /\ ~ (i > Len(matchable[s]))
        BY <2>2, <2>3, <2>5, <3>2
      <4>5. QED
        BY <4>2, <4>3, <4>4
    <3>3. CASE i # n
      <4>1. order'[k].filled = order[k].filled
        BY <1>2, <2>4, <3>1, <3>3
      <4>2. /\ order[k].filled <= order[k].qty
            /\ i < n <=> IsFilled(order[k])
            /\ i > n \/ i > Len(matchable[s]) => order[k].filled = 0
        BY <1>1 DEF IInv, MatchOK
      <4>3. (i < next'[s] <=> i < n) /\ (i > next'[s] => i > n)
        BY <2>2, <2>3, <3>3
      <4>4. IsFilled(order'[k]) <=> IsFilled(order[k])
        BY <3>1, <4>1 DEF IsFilled
      <4>5. QED
        BY <3>1, <4>1, <4>2, <4>3, <4>4
    <3>4. QED
      BY <3>2, <3>3
  <2>7. next'[s] <= Len(matchable[s]) + 1
    BY <2>2, <2>3, <2>5
  <2>8. QED
    BY <1>1, <2>6, <2>7 DEF IInv, MatchOK
<1>7. QED
  BY <1>3, <1>5, <1>6 DEF IInv

LEMMA EndMatchKeeps ==
    ASSUME IInv, EndMatch
    PROVE  IInv'
<1>1. phase' = "END" /\ UNCHANGED <<order, collected, open, matchable, next, volume>>
  BY DEF EndMatch
<1>2. TypeOK'
  BY <1>1 DEF IInv, TypeOK
<1>3. CollectedOK' /\ MatchOK'
  BY <1>1 DEF CollectedOK, MatchOK
<1>4. QED
  BY <1>2, <1>3 DEF IInv

-----------------------------------------------------------------------------
(* The theorems.                                                            *)

LEMMA NextIInv == IInv /\ [Next]_vars => IInv'
<1> SUFFICES ASSUME IInv, [Next]_vars PROVE IInv'
  OBVIOUS
<1>1. CASE UNCHANGED vars
  <2>1. UNCHANGED <<order, phase, collected, open, matchable, next, volume>>
    BY <1>1 DEF vars, auctionVars, locals
  <2>2. TypeOK'
    BY <2>1 DEF IInv, TypeOK
  <2>3. CollectedOK'
    BY <2>1 DEF IInv, CollectedOK
  <2>4. MatchOK'
    BY <2>1 DEF IInv, MatchOK, Precedes
  <2>5. QED
    BY <2>2, <2>3, <2>4 DEF IInv
<1>2. CASE phase # "MATCH" /\ (StartAuction \/ Reset)
  BY <1>2, RestartKeeps
<1>3. ASSUME NEW f \in AuctionForms, NEW id \in {"client"} \X ClientIDs, AddOrder(f, id)
      PROVE  IInv'
  BY <1>3, AddOrderKeeps
<1>4. ASSUME NEW id \in {"client"} \X ClientIDs, CancelOrder(id)
      PROVE  IInv'
  BY <1>4, CancelOrderKeeps
<1>5. CASE BeginEmpty
  BY <1>5, BeginEmptyKeeps
<1>6. CASE BeginMatch
  BY <1>6, BeginMatchKeeps
<1>7. CASE Step
  BY <1>7, PairKeeps, EndMatchKeeps DEF Step
<1>8. QED
  BY <1>1, <1>2, <1>3, <1>4, <1>5, <1>6, <1>7 DEF Next

(* The types, and the loop's invariant, always hold.                        *)
THEOREM AuctionInvariant == Spec => []IInv
BY InitIInv, NextIInv, PTL DEF Spec

(* What is before the index is filled, what is after it untouched.           *)
LEMMA PriorityHolds ==
    ASSUME IInv
    PROVE  AuctionPriority
<1>1. SUFFICES ASSUME phase = "MATCH", NEW s \in Sides,
                      NEW r \in ToSet(collected[s]), NEW k \in ToSet(collected[s])
               PROVE  /\ order[k].filled <= order[k].qty
                      /\ order[k].filled > 0 => Accepts(order[k], open)
                      /\ order[k].filled > 0 /\ Precedes(r, k) => IsFilled(order[r])
  BY DEF AuctionPriority
<1>2. /\ collected[s] \in Seq(DOMAIN order) /\ matchable[s] \in Seq(DOMAIN order)
      /\ next[s] \in Nat /\ order \in Seq(Order)
  BY DEF IInv, TypeOK
<1>3. PICK i \in 1 .. Len(collected[s]), j \in 1 .. Len(collected[s]) :
          r = collected[s][i] /\ k = collected[s][j]
  <2>1. \A x \in ToSet(collected[s]) :
            \E i \in 1 .. Len(collected[s]) : x = collected[s][i]
    BY <1>2 DEF ToSet
  <2>2. QED
    BY <1>1, <2>1
<1>4. r \in DOMAIN order /\ k \in DOMAIN order
  BY <1>2, <1>3, ElementOfSeq
<1>5. order[r] \in Order /\ order[k] \in Order
  BY <1>2, <1>4, ElementOfSeq
<1>6. order[k].filled <= order[k].qty
  BY <1>1, <1>3 DEF IInv, MatchOK
<1>7. ASSUME order[k].filled > 0
      PROVE  j <= next[s] /\ j \in 1 .. Len(matchable[s]) /\ Accepts(order[k], open)
  <2>1. ~ (j > next[s]) /\ ~ (j > Len(matchable[s]))
    <3>1. order[k].filled # 0
      BY <1>5, <1>7
    <3>2. QED
      BY <1>1, <1>3, <3>1 DEF IInv, MatchOK
  <2>2. j <= next[s] /\ j \in 1 .. Len(matchable[s])
    BY <1>2, <2>1
  <2>3. QED
    BY <1>1, <1>3, <2>2 DEF IInv, MatchOK
<1>8. ASSUME order[k].filled > 0, Precedes(r, k)
      PROVE  IsFilled(order[r])
  <2>1. \A x, y \in 1 .. Len(collected[s]) :
            x < y => Precedes(collected[s][x], collected[s][y])
    <3>1. matchable[s] # <<>>
      BY <1>2, <1>7, <1>8
    <3>2. QED
      BY <1>1, <3>1 DEF IInv, MatchOK
  <2>2. /\ order[r].side = s /\ order[k].side = s
        /\ order[r].price \in Nat /\ order[k].price \in Nat
        /\ r \in Nat /\ k \in Nat
    <3>1. \A x \in 1 .. Len(collected[s]) :
              /\ order[collected[s][x]].side = s
              /\ order[collected[s][x]].price \in Nat
      BY <1>1 DEF IInv, CollectedOK
    <3>2. r \in Nat /\ k \in Nat
      <4>1. DOMAIN order = 1 .. Len(order) /\ Len(order) \in Nat
        BY <1>2
      <4>2. QED
        BY <1>4, <4>1
    <3>3. QED
      BY <1>3, <3>1, <3>2
  <2>3. ~ Precedes(k, r) /\ r # k
    BY <1>8, <2>2 DEF Precedes
  <2>4. i < j
    BY <1>3, <2>1, <2>3
  <2>5. i < next[s]
    BY <1>2, <1>7, <1>8, <2>4
  <2>6. QED
    BY <1>1, <1>3, <2>5 DEF IInv, MatchOK
<1>9. QED
  BY <1>6, <1>7, <1>8

(* EndAuction always executes in price-time priority: an order is touched    *)
(* only when all that precede it are filled, never beyond its quantity and   *)
(* never at a price it does not accept (auction_engine.go:198-306).          *)
THEOREM PriorityAlways == Spec => []AuctionPriority
<1>1. IInv => AuctionPriority
  BY PriorityHolds
<1>2. QED
  BY <1>1, AuctionInvariant, PTL

(* Every iteration of EndAuction's loop passes an order, so that the lock it *)
(* holds is given back after no more trades than there are orders            *)
(* (auction_engine.go:251, 298-305).                                        *)
THEOREM AdvanceAlways == Spec => PairAdvances
<1>1. ASSUME IInv, Pair
      PROVE  next'["buy"] + next'["sell"] > next["buy"] + next["sell"]
  <2> DEFINE at(s) == matchable[s][next[s]]
  <2>1. /\ Pairing /\ SameOrders(order, order')
        /\ next' = [s \in Sides |-> next[s] + Passed(order'[at(s)])]
    BY <1>1, PairEffect
  <2>2. PICK q \in Nat \ {0}, s \in Sides :
            /\ q = RemainingQty(order[at(s)])
            /\ \A k \in DOMAIN order :
                  order'[k].filled = IF \E t \in Sides : k = at(t)
                                     THEN order[k].filled + q ELSE order[k].filled
    BY <1>1, PairEffect
  <2>3. at(s) \in DOMAIN order /\ order[at(s)] \in Order
    BY <1>1, <2>1, AtIndex
  <2>4. IsFilled(order'[at(s)])
    <3>1. /\ order'[at(s)].filled = order[at(s)].filled + q
          /\ order'[at(s)].qty = order[at(s)].qty
      BY <2>1, <2>2, <2>3 DEF SameOrders
    <3>2. QED
      BY <2>2, <2>3, <3>1 DEF IsFilled, RemainingQty, Order
  <2>5. Passed(order'[at(s)]) = 1
    BY <2>4 DEF Passed
  <2>6. \A t \in Sides : next'[t] = next[t] + Passed(order'[at(t)])
                         /\ Passed(order'[at(t)]) \in {0, 1} /\ next[t] \in Nat
    BY <1>1, <2>1 DEF Passed, IInv, TypeOK
  <2>7. "buy" \in Sides /\ "sell" \in Sides /\ (s = "buy" \/ s = "sell")
    BY DEF Sides
  <2>8. QED
    BY <2>5, <2>6, <2>7
<1>2. ASSUME IInv, [Next]_vars
      PROVE  [phase = "MATCH" /\ phase' = "MATCH" =>
                next'["buy"] + next'["sell"] > next["buy"] + next["sell"]]_<<next, volume>>
  <2>1. SUFFICES ASSUME phase = "MATCH", phase' = "MATCH", ~ UNCHANGED <<next, volume>>
                 PROVE  Pair
    BY <1>1, <1>2
  <2>2. Next
    BY <1>2, <2>1 DEF vars, auctionVars, locals
  <2>3. QED
    BY <2>1, <2>2 DEF Next, AddOrder, CancelOrder, BeginEmpty, BeginMatch, Step,
                      EndMatch
<1>3. QED
  BY <1>2, AuctionInvariant, PTL DEF Spec, PairAdvances

-----------------------------------------------------------------------------
(* Sums over orders.                                                        *)

QtyOf(heap) == [r \in DOMAIN heap |-> heap[r].qty]
FilledOf(heap) == [r \in DOMAIN heap |-> heap[r].filled]

\* The orders of a list that accept a price, and what they ask for.
Takers(heap, refs, p) == {r \in ToSet(refs) : Accepts(heap[r], p)}
Asks(heap, refs, p) == Total(QtyOf(heap), Takers(heap, refs, p))

(* The numbers summed up are natural ones.                                  *)
LEMMA HeapNumbers ==
    ASSUME NEW heap \in Seq(Order)
    PROVE  \A r \in DOMAIN heap :
              /\ QtyOf(heap)[r] = heap[r].qty /\ heap[r].qty \in Nat
              /\ FilledOf(heap)[r] = heap[r].filled /\ heap[r].filled \in Nat
<1>1. ASSUME NEW r \in DOMAIN heap
      PROVE  heap[r].qty \in Nat /\ heap[r].filled \in Nat
  <2>1. heap[r] \in Order
    BY ElementOfSeq
  <2>2. QED
    BY <2>1 DEF Order
<1>2. QED
  BY <1>1 DEF QtyOf, FilledOf

(* The sums of the specification are totals of these numbers.               *)
LEMMA AsksSum ==
    ASSUME NEW heap \in Seq(Order), NEW refs \in Seq(DOMAIN heap), NEW p
    PROVE  /\ IsFiniteSet(Takers(heap, refs, p))
           /\ Takers(heap, refs, p) \in SUBSET DOMAIN heap
           /\ SumFunction([r \in Takers(heap, refs, p) |-> heap[r].qty])
                 = Asks(heap, refs, p)
           /\ Asks(heap, refs, p) \in Nat
<1> DEFINE T == Takers(heap, refs, p)
           f == [r \in T |-> heap[r].qty]
<1>1. IsFiniteSet(T) /\ T \in SUBSET DOMAIN heap
  <2>1. IsFiniteSet(ToSet(refs))
    BY FiniteList
  <2>2. T \in SUBSET ToSet(refs)
    BY DEF Takers
  <2>3. ToSet(refs) \subseteq DOMAIN heap
    BY ElementOfSeq DEF ToSet
  <2>4. QED
    BY <2>1, <2>2, <2>3, FS_Subset
<1>2. \A r \in T : f[r] = QtyOf(heap)[r] /\ QtyOf(heap)[r] \in Nat
  BY <1>1, HeapNumbers
<1>3. DOMAIN f = T
  OBVIOUS
<1> HIDE DEF f, T
<1>4. SumFunction(f) = Total(QtyOf(heap), T)
  BY ONLY <1>1, <1>2, <1>3, SumIsTotal
<1>5. Total(QtyOf(heap), T) \in Nat
  <2>1. T \in SUBSET T /\ \A r \in T : QtyOf(heap)[r] \in Nat
    BY <1>2
  <2>2. QED
    BY ONLY <1>1, <2>1, TotalSubset
<1>6. QED
  BY <1>1, <1>4, <1>5 DEF Asks, T, f

LEMMA DemandTotal ==
    ASSUME TypeOK, NEW s \in Sides, NEW p
    PROVE  Demand(s, p) = Asks(order, collected[s], p) /\ Demand(s, p) \in Nat
<1>1. Demand(s, p) = SumFunction([r \in Takers(order, collected[s], p) |-> order[r].qty])
  BY DEF Demand, Takers
<1>2. order \in Seq(Order) /\ collected[s] \in Seq(DOMAIN order)
  BY DEF TypeOK
<1>3. QED
  BY <1>1, <1>2, AsksSum

LEMMA DemandTotalNext ==
    ASSUME TypeOK', NEW s \in Sides, NEW p
    PROVE  Demand(s, p)' = Asks(order', collected'[s], p) /\ Demand(s, p)' \in Nat
<1>1. Demand(s, p)'
        = SumFunction([r \in Takers(order', collected'[s], p) |-> order'[r].qty])
  BY DEF Demand, Takers
<1>2. order' \in Seq(Order) /\ collected'[s] \in Seq(DOMAIN order')
  BY DEF TypeOK
<1>3. QED
  BY <1>1, <1>2, AsksSum

(* What a list asks for depends on its elements' prices and quantities only. *)
LEMMA AsksSame ==
    ASSUME NEW old \in Seq(Order), NEW new \in Seq(Order), SameOrders(old, new),
           NEW refs \in Seq(DOMAIN old), NEW list \in Seq(DOMAIN old),
           ToSet(list) = ToSet(refs), NEW p
    PROVE  Asks(new, list, p) = Asks(old, refs, p)
<1>1. Takers(new, list, p) = Takers(old, refs, p)
  <2>1. ToSet(refs) \subseteq DOMAIN old
    BY ElementOfSeq DEF ToSet
  <2>2. QED
    BY <2>1 DEF Takers, Accepts, SameOrders
<1>2. QtyOf(new) = QtyOf(old)
  BY DEF QtyOf, SameOrders
<1>3. QED
  BY <1>1, <1>2 DEF Asks

(* What a side has executed.                                                *)
LEMMA FilledSum ==
    ASSUME NEW heap \in Seq(Order), NEW refs \in Seq(DOMAIN heap)
    PROVE  /\ IsFiniteSet(ToSet(refs)) /\ ToSet(refs) \in SUBSET DOMAIN heap
           /\ SumFunction([r \in ToSet(refs) |-> heap[r].filled])
                 = Total(FilledOf(heap), ToSet(refs))
<1> DEFINE T == ToSet(refs)
           f == [r \in T |-> heap[r].filled]
<1>1. IsFiniteSet(T) /\ T \in SUBSET DOMAIN heap
  BY FiniteList, ElementOfSeq DEF ToSet
<1>2. \A r \in T : f[r] = FilledOf(heap)[r] /\ FilledOf(heap)[r] \in Int
  BY <1>1, HeapNumbers
<1>3. DOMAIN f = T
  OBVIOUS
<1> HIDE DEF f, T
<1>4. SumFunction(f) = Total(FilledOf(heap), T)
  BY ONLY <1>1, <1>2, <1>3, SumIsTotal
<1>5. QED
  BY <1>1, <1>4 DEF T, f

(* A trade adds the same to the volume and to what either side executed.     *)
LEMMA PairVolume ==
    ASSUME SumsInv, Pair
    PROVE  VolumeOK'
<1> DEFINE at(s) == matchable[s][next[s]]
<1>1. /\ Pairing /\ phase = "MATCH" /\ phase' = "MATCH"
      /\ collected' = collected /\ open' = open /\ matchable' = matchable
      /\ order' \in Seq(Order) /\ SameOrders(order, order')
  BY PairEffect DEF Pairing, SumsInv
<1>2. PICK q \in Nat \ {0} :
          /\ volume' = volume + q
          /\ \A k \in DOMAIN order :
                order'[k].filled = IF \E s \in Sides : k = at(s)
                                   THEN order[k].filled + q ELSE order[k].filled
  BY PairEffect DEF SumsInv
<1>3. /\ order \in Seq(Order) /\ DOMAIN order' = DOMAIN order
      /\ \A s \in Sides : collected[s] \in Seq(DOMAIN order)
      /\ volume \in Nat
  BY <1>1 DEF SumsInv, IInv, TypeOK, SameOrders
<1>4. ASSUME NEW s \in Sides
      PROVE  volume' = SumFunction([r \in ToSet(collected'[s]) |-> order'[r].filled])
  <2> DEFINE T == ToSet(collected[s])
             old == FilledOf(order)
             new == FilledOf(order')
             x == at(s)
  <2>1. /\ IsFiniteSet(T) /\ T \in SUBSET DOMAIN order
        /\ SumFunction([r \in T |-> order[r].filled]) = Total(old, T)
        /\ SumFunction([r \in T |-> order'[r].filled]) = Total(new, T)
    BY <1>1, <1>3, FilledSum
  <2>2. x \in T /\ \A t \in Sides : at(t) \in T => at(t) = x
    <3>1. /\ next[s] \in 1 .. Len(collected[s]) /\ x = collected[s][next[s]]
      BY <1>1, AtIndex DEF SumsInv
    <3>2. x \in T
      BY <3>1 DEF ToSet
    <3>3. \A k \in T : order[k].side = s
      BY <1>1, <1>3 DEF ToSet, SumsInv, IInv, CollectedOK
    <3>4. \A t \in Sides : order[at(t)].side = t
      BY <1>1, AtIndex DEF SumsInv
    <3>5. QED
      BY <3>2, <3>3, <3>4
  <2>3. \A r \in T : /\ old[r] \in Int /\ new[r] \in Int
                     /\ new[r] = IF r = x THEN old[r] + q ELSE old[r]
    <3>1. \A r \in T : /\ old[r] = order[r].filled /\ old[r] \in Int
                       /\ new[r] = order'[r].filled /\ new[r] \in Int
      BY <1>1, <1>3, <2>1, HeapNumbers
    <3>2. QED
      BY <1>2, <2>1, <2>2, <3>1
  <2>4. volume = Total(old, T)
    BY <1>1, <2>1 DEF SumsInv, VolumeOK
  <2> HIDE DEF T, old, new, x
  <2>5. /\ Total(old, T) = old[x] + Total(old, T \ {x})
        /\ Total(new, T) = new[x] + Total(new, T \ {x})
    BY ONLY <2>1, <2>2, <2>3, TotalLess
  <2>6. Total(new, T \ {x}) = Total(old, T \ {x}) /\ Total(old, T \ {x}) \in Int
    <3>1. IsFiniteSet(T \ {x})
      BY <2>1, FS_Subset
    <3>2. \A r \in T \ {x} : new[r] \in Int /\ new[r] = old[r] /\ old[r] \in Int
      BY <2>3
    <3>3. QED
      BY ONLY <3>1, <3>2, TotalSame, TotalType
  <2>7. new[x] = old[x] + q /\ old[x] \in Int /\ q \in Int
    BY <2>2, <2>3
  <2>8. Total(new, T) = Total(old, T) + q
    BY <2>5, <2>6, <2>7
  <2>9. QED
    BY <1>1, <1>2, <2>1, <2>4, <2>8 DEF T, new
<1>5. ASSUME NEW s \in Sides, open' # NoPrice, NEW i \in 1 .. Len(collected'[s]),
             Accepts(order'[collected'[s][i]], open')
      PROVE  i <= Len(matchable'[s])
  <2>1. Accepts(order[collected[s][i]], open)
    <3>1. collected[s][i] \in DOMAIN order
      BY <1>1, <1>3, ElementOfSeq
    <3>2. QED
      BY <1>1, <1>5, <3>1 DEF Accepts, SameOrders
  <2>2. QED
    BY <1>1, <1>5, <2>1 DEF SumsInv, VolumeOK
<1>6. QED
  BY <1>4, <1>5 DEF VolumeOK

(* What the orders ask for stays as it was.                                 *)
LEMMA PairOpen ==
    ASSUME SumsInv, Pair
    PROVE  OpenOK'
<1>1. /\ phase = "MATCH" /\ collected' = collected /\ open' = open
      /\ SameOrders(order, order') /\ TypeOK /\ TypeOK'
  BY PairEffect, PairKeeps DEF Pairing, SumsInv, IInv
<1>2. ASSUME NEW s \in Sides, NEW p PROVE Demand(s, p)' = Demand(s, p)
  <2>1. /\ Demand(s, p) = Asks(order, collected[s], p)
        /\ Demand(s, p)' = Asks(order', collected[s], p)
    BY <1>1, DemandTotal, DemandTotalNext
  <2>2. /\ order \in Seq(Order) /\ order' \in Seq(Order)
        /\ collected[s] \in Seq(DOMAIN order)
    BY <1>1 DEF TypeOK
  <2>3. QED
    BY <1>1, <2>1, <2>2, AsksSame
<1>3. \A p \in Prices : \E s \in Sides :
          IF open = NoPrice THEN Demand(s, p) = 0
                            ELSE \A t \in Sides : Demand(s, p) <= Demand(t, open)
  BY <1>1 DEF SumsInv, OpenOK
<1>4. \A p \in Prices : \E s \in Sides :
          IF open' = NoPrice
          THEN Demand(s, p)' = 0
          ELSE \A t \in Sides : Demand(s, p)' <= Asks(order', collected'[t], open')
  <2>1. \A t \in Sides : Asks(order', collected'[t], open') = Demand(t, open)
    BY <1>1, DemandTotal, AsksSame DEF TypeOK
  <2>2. QED
    BY <1>1, <1>2, <1>3, <2>1
<1>5. QED
  BY <1>1, <1>4, DemandTotalNext DEF OpenOK

-----------------------------------------------------------------------------
(* The greatest volume.                                                     *)

LEMMA AskedFinite ==
    ASSUME TypeOK
    PROVE  IsFiniteSet(AskedPrices)
<1> DEFINE S == ToSet(collected["buy"]) \cup ToSet(collected["sell"])
           f == [r \in S |-> order[r].price]
<1>1. IsFiniteSet(S)
  <2>1. /\ collected["buy"] \in Seq(DOMAIN order)
        /\ collected["sell"] \in Seq(DOMAIN order)
    BY DEF TypeOK, Sides
  <2>2. /\ IsFiniteSet(ToSet(collected["buy"]))
        /\ IsFiniteSet(ToSet(collected["sell"]))
    BY ONLY <2>1, FiniteList
  <2>3. QED
    BY ONLY <2>2, FS_Union
<1>2. AskedPrices = {f[r] : r \in S}
  <2>1. UNION {ToSet(collected[s]) : s \in Sides} = S
    BY Zenon DEF Sides
  <2>2. QED
    BY <2>1 DEF AskedPrices
<1> HIDE DEF f, S
<1>3. QED
  BY ONLY <1>1, <1>2, FiniteImage

(* At a price that no order names, no more can be executed than at the next  *)
(* higher one that an order names: that price suits the same buyers and at   *)
(* least the same sellers.                                                  *)
LEMMA NextAsked ==
    ASSUME TypeOK, CollectedOK, phase = "CALL", NEW p \in Prices
    PROVE  \/ Demand("buy", p) = 0
           \/ \E q \in AskedPrices : \A s \in Sides : Demand(s, p) <= Demand(s, q)
<1> DEFINE D == {q \in AskedPrices : q >= p}
<1>1. /\ order \in Seq(Order) /\ \A s \in Sides : collected[s] \in Seq(DOMAIN order)
      /\ "buy" \in Sides /\ "sell" \in Sides
  BY DEF TypeOK, Sides
<1>2. \A s \in Sides : \A r \in ToSet(collected[s]) :
          /\ r \in DOMAIN order /\ order[r].side = s
          /\ order[r].price \in Prices /\ order[r].price \in AskedPrices
  <2>1. SUFFICES ASSUME NEW s \in Sides, NEW r \in ToSet(collected[s])
                 PROVE  /\ r \in DOMAIN order /\ order[r].side = s
                        /\ order[r].price \in Prices /\ order[r].price \in AskedPrices
    OBVIOUS
  <2>2. order[r].price \in AskedPrices
    BY Zenon DEF AskedPrices
  <2>3. PICK i \in 1 .. Len(collected[s]) : r = collected[s][i]
    BY <1>1 DEF ToSet
  <2>4. r \in DOMAIN order
    BY <1>1, <2>3, ElementOfSeq
  <2>5. QED
    BY <2>2, <2>3, <2>4 DEF CollectedOK
<1>3. CASE D = {}
  <2>1. ASSUME NEW r \in Takers(order, collected["buy"], p) PROVE FALSE
    <3>1. r \in ToSet(collected["buy"]) /\ Accepts(order[r], p)
      BY DEF Takers
    <3>2. order[r].side = "buy" /\ order[r].price \in AskedPrices
      BY <1>1, <1>2, <3>1
    <3>3. order[r].price >= p
      BY <3>1, <3>2 DEF Accepts
    <3>4. QED
      BY <1>3, <3>2, <3>3
  <2>2. Takers(order, collected["buy"], p) = {}
    BY <2>1
  <2>3. QED
    BY <1>1, <2>2, DemandTotal, TotalNone DEF Asks
<1>4. CASE D # {}
  <2>1. D \in SUBSET Nat /\ IsFiniteSet(D)
    <3>1. AskedPrices \subseteq Nat
      <4>1. SUFFICES ASSUME NEW s \in Sides, NEW r \in ToSet(collected[s])
                     PROVE  order[r].price \in Nat
        BY DEF AskedPrices
      <4>2. QED
        BY <1>2, <4>1
    <3>2. IsFiniteSet(AskedPrices)
      BY AskedFinite
    <3>3. QED
      BY <3>1, <3>2, FS_Subset
  <2>2. PICK q \in D : \A x \in D : q <= x
    BY <1>4, <2>1, LeastExists
  <2>3. q \in AskedPrices /\ q \in Nat /\ p <= q
    BY <2>1, <2>2
  <2>4. ASSUME NEW s \in Sides PROVE Demand(s, p) <= Demand(s, q)
    <3> DEFINE T == Takers(order, collected[s], p)
               U == Takers(order, collected[s], q)
    <3>1. T \in SUBSET U
      <4>1. ASSUME NEW r \in T PROVE Accepts(order[r], q)
        <5>1. r \in ToSet(collected[s]) /\ Accepts(order[r], p)
          BY DEF Takers
        <5>2. order[r].side = s /\ order[r].price \in Nat /\ order[r].price \in AskedPrices
          BY <1>2, <5>1
        <5> DEFINE c == order[r].price
        <5>3. CASE s = "buy"
          <6>1. c >= p
            BY <5>1, <5>2, <5>3 DEF Accepts
          <6>2. c \in D
            BY <5>2, <6>1
          <6>3. c >= q
            BY <2>2, <2>3, <5>2, <6>2
          <6>4. QED
            BY <5>2, <5>3, <6>3 DEF Accepts
        <5>4. CASE s # "buy"
          <6>1. c <= p
            BY <5>1, <5>2, <5>4 DEF Accepts
          <6>2. c <= q
            BY <2>3, <5>2, <6>1, p \in Nat
          <6>3. QED
            BY <5>2, <5>4, <6>2 DEF Accepts
        <5>5. QED
          BY <5>3, <5>4
      <4>2. QED
        BY <4>1 DEF Takers
    <3>2. IsFiniteSet(U) /\ \A r \in U : QtyOf(order)[r] \in Nat
      BY <1>1, AsksSum, HeapNumbers
    <3> HIDE DEF T, U
    <3>3. Total(QtyOf(order), T) <= Total(QtyOf(order), U)
      BY ONLY <3>1, <3>2, TotalSubset
    <3>4. QED
      BY <3>3, DemandTotal DEF Asks, T, U
  <2>5. QED
    BY <2>3, <2>4
<1>5. QED
  BY <1>3, <1>4

(* What can be executed at a price is what the side that asks for less asks  *)
(* for: of the collected orders nothing is executed yet.                    *)
LEMMA VolumeIs ==
    ASSUME TypeOK, CollectedOK, phase = "CALL", NEW p
    PROVE  /\ MatchVolume(p) \in Nat
           /\ \A s \in Sides : MatchVolume(p) <= Demand(s, p)
           /\ \E s \in Sides : MatchVolume(p) = Demand(s, p)
<1>1. ASSUME NEW s \in Sides PROVE VolumeAt(collected[s], p) = Demand(s, p)
  <2> DEFINE T == Takers(order, collected[s], p)
  <2>1. ASSUME NEW r \in T PROVE RemainingQty(order[r]) = order[r].qty
    <3>1. order \in Seq(Order) /\ collected[s] \in Seq(DOMAIN order)
      BY DEF TypeOK
    <3>2. PICK i \in 1 .. Len(collected[s]) : r = collected[s][i]
      BY <3>1 DEF Takers, ToSet
    <3>3. r \in DOMAIN order /\ order[r].filled = 0
      BY <3>1, <3>2, ElementOfSeq DEF CollectedOK
    <3>4. order[r].qty \in Nat
      BY <3>1, <3>3, HeapNumbers
    <3>5. QED
      BY <3>3, <3>4 DEF RemainingQty
  <2>2. VolumeAt(collected[s], p) = SumFunction([r \in T |-> RemainingQty(order[r])])
    BY DEF VolumeAt, Takers
  <2>3. Demand(s, p) = SumFunction([r \in T |-> order[r].qty])
    BY DEF Demand, Takers
  <2> HIDE DEF T
  <2>4. [r \in T |-> RemainingQty(order[r])] = [r \in T |-> order[r].qty]
    BY <2>1
  <2>5. QED
    BY <2>2, <2>3, <2>4
<1>2. "buy" \in Sides /\ "sell" \in Sides /\ \A s \in Sides : s \in {"buy", "sell"}
  BY DEF Sides
<1>3. Demand("buy", p) \in Nat /\ Demand("sell", p) \in Nat
  BY <1>2, DemandTotal
<1>4. MatchVolume(p) = IF Demand("buy", p) < Demand("sell", p)
                       THEN Demand("buy", p) ELSE Demand("sell", p)
  BY <1>1, <1>2 DEF MatchVolume
<1>5. QED
  BY <1>2, <1>3, <1>4

(* The search finds a price when something can be executed at one of those   *)
(* it looks at.                                                             *)
LEMMA BestExists ==
    ASSUME TypeOK, CollectedOK, phase = "CALL",
           NEW q \in AskedPrices, MatchVolume(q) > 0
    PROVE  BestOpenPrices # {}
<1> DEFINE f == [p \in AskedPrices |-> MatchVolume(p)]
           V == {f[p] : p \in AskedPrices}
           best == {p \in AskedPrices : \A x \in AskedPrices : f[x] <= f[p]}
<1>1. \A p \in AskedPrices : f[p] = MatchVolume(p) /\ f[p] \in Nat
  BY VolumeIs
<1> HIDE DEF f
<1>2. V \in SUBSET Nat /\ V # {} /\ IsFiniteSet(V)
  BY <1>1, AskedFinite, FiniteImage
<1>3. PICK m \in V : \A x \in V : x <= m
  BY <1>2, GreatestExists
<1>4. PICK p \in AskedPrices : m = f[p]
  OBVIOUS
<1>5. p \in best
  BY <1>3, <1>4
<1>6. AskedPrices \subseteq Nat
  <2>1. SUFFICES ASSUME NEW s \in Sides, NEW r \in ToSet(collected[s])
                 PROVE  order[r].price \in Nat
    BY DEF AskedPrices
  <2>2. PICK i \in 1 .. Len(collected[s]) : r = collected[s][i]
    BY DEF TypeOK, ToSet
  <2>3. QED
    BY <2>2 DEF CollectedOK
<1>7. best \in SUBSET Nat /\ IsFiniteSet(best)
  BY <1>6, AskedFinite, FS_Subset
<1>8. PICK least \in best : \A x \in best : least <= x
  BY <1>5, <1>7, LeastExists
<1>9. least \in AskedPrices /\ \A x \in AskedPrices : f[x] <= f[least]
  BY <1>8
<1>10. f[least] > 0
  <2>1. f[q] > 0 /\ f[q] <= f[least] /\ f[q] \in Nat /\ f[least] \in Nat
    BY <1>1, <1>9
  <2>2. QED
    BY <2>1
<1>11. ASSUME NEW x \in AskedPrices, x < least PROVE f[x] < f[least]
  <2>1. x \notin best
    BY <1>6, <1>7, <1>8, <1>11
  <2>2. PICK y \in AskedPrices : ~ (f[y] <= f[x])
    BY <2>1
  <2>3. f[y] <= f[least] /\ f[x] \in Nat /\ f[y] \in Nat /\ f[least] \in Nat
    BY <1>1, <1>9
  <2>4. QED
    BY <2>2, <2>3
<1>12. least \in BestOpenPrices
  BY <1>1, <1>9, <1>10, <1>11 DEF BestOpenPrices
<1>13. QED
  BY <1>12

(* The price that match() computes is one of the greatest volume among all   *)
(* prices, not only among those that orders name.                           *)
LEMMA OpenBest ==
    ASSUME TypeOK, CollectedOK, phase = "CALL", NEW p \in Prices
    PROVE  \E s \in Sides :
              IF CalculateOpenPrice = NoPrice
              THEN Demand(s, p) = 0
              ELSE \A t \in Sides : Demand(s, p) <= Demand(t, CalculateOpenPrice)
<1> DEFINE best == CalculateOpenPrice
<1>1. "buy" \in Sides /\ \A s \in Sides : \A x : Demand(s, x) \in Nat
  BY DemandTotal DEF Sides
<1>2. CASE BestOpenPrices = {}
  <2>1. best = NoPrice
    BY <1>2 DEF CalculateOpenPrice
  <2>2. CASE Demand("buy", p) = 0
    BY <1>1, <2>1, <2>2
  <2>3. ASSUME NEW q \in AskedPrices, \A s \in Sides : Demand(s, p) <= Demand(s, q)
        PROVE  \E s \in Sides : Demand(s, p) = 0
    <3>1. MatchVolume(q) = 0
      BY <1>2, BestExists, VolumeIs
    <3>2. PICK s \in Sides : Demand(s, q) = 0
      BY <3>1, VolumeIs
    <3>3. Demand(s, p) <= Demand(s, q) /\ Demand(s, p) \in Nat
      BY <1>1, <2>3
    <3>4. QED
      BY <3>2, <3>3
  <2>4. QED
    BY <2>1, <2>2, <2>3, NextAsked
<1>3. CASE BestOpenPrices # {}
  <2>1. best \in BestOpenPrices
    BY <1>3 DEF CalculateOpenPrice
  <2>2. best # NoPrice
    <3>1. PICK s \in Sides : \E r \in ToSet(collected[s]) : best = order[r].price
      <4>1. best \in AskedPrices
        BY <2>1 DEF BestOpenPrices
      <4> HIDE DEF best
      <4>2. QED
        BY <4>1, Zenon DEF AskedPrices
    <3>2. PICK i \in 1 .. Len(collected[s]) : best = order[collected[s][i]].price
      <4>1. PICK r \in ToSet(collected[s]) : best = order[r].price
        BY <3>1
      <4>2. PICK i \in 1 .. Len(collected[s]) : r = collected[s][i]
        BY DEF TypeOK, ToSet
      <4>3. QED
        BY <4>1, <4>2
    <3>3. best \in Prices
      BY <3>2 DEF CollectedOK
    <3>4. QED
      BY <3>3 DEF NoPrice
  <2>3. \A q \in AskedPrices : MatchVolume(q) <= MatchVolume(best)
    <3>1. ASSUME NEW q \in AskedPrices PROVE MatchVolume(q) <= MatchVolume(best)
      <4>1. \/ MatchVolume(q) < MatchVolume(best)
            \/ MatchVolume(q) <= MatchVolume(best)
        BY <2>1 DEF BestOpenPrices
      <4>2. MatchVolume(q) \in Nat /\ MatchVolume(best) \in Nat
        BY VolumeIs
      <4>3. QED
        BY <4>1, <4>2
    <3>2. QED
      BY <3>1
  <2> HIDE DEF best
  <2>4. CASE Demand("buy", p) = 0
    BY <1>1, <2>2, <2>4 DEF best
  <2>5. ASSUME NEW q \in AskedPrices, \A s \in Sides : Demand(s, p) <= Demand(s, q)
        PROVE  \E s \in Sides : \A t \in Sides : Demand(s, p) <= Demand(t, best)
    <3>1. PICK s \in Sides : MatchVolume(q) = Demand(s, q)
      BY VolumeIs
    <3>2. ASSUME NEW t \in Sides PROVE Demand(s, p) <= Demand(t, best)
      <4>1. /\ Demand(s, p) <= Demand(s, q) /\ Demand(s, q) <= MatchVolume(best)
            /\ MatchVolume(best) <= Demand(t, best)
        BY <2>3, <2>5, <3>1, VolumeIs
      <4>2. /\ Demand(s, p) \in Nat /\ Demand(s, q) \in Nat
            /\ MatchVolume(best) \in Nat /\ Demand(t, best) \in Nat
        BY <1>1, VolumeIs
      <4>3. QED
        BY <4>1, <4>2
    <3>3. QED
      BY <3>2
  <2>6. QED
    BY <2>2, <2>4, <2>5, NextAsked DEF best
<1>4. QED
  BY <1>2, <1>3

-----------------------------------------------------------------------------
(* The sums, over all steps.                                                *)

(* Nothing is executed when a match starts.                                 *)
LEMMA NothingFilled ==
    ASSUME NEW heap \in Seq(Order), NEW refs \in Seq(DOMAIN heap),
           \A i \in 1 .. Len(refs) : heap[refs[i]].filled = 0
    PROVE  SumFunction([r \in ToSet(refs) |-> heap[r].filled]) = 0
<1> DEFINE T == ToSet(refs)
<1>1. /\ IsFiniteSet(T) /\ T \in SUBSET DOMAIN heap
      /\ SumFunction([r \in T |-> heap[r].filled]) = Total(FilledOf(heap), T)
  BY FilledSum
<1>2. \A r \in T : FilledOf(heap)[r] = 0
  <2>1. \A r \in T : heap[r].filled = 0
    BY DEF ToSet
  <2>2. QED
    BY <1>1, <2>1, HeapNumbers
<1> HIDE DEF T
<1>3. Total(FilledOf(heap), T) = 0
  BY <1>1, <1>2, TotalZero
<1>4. QED
  BY <1>1, <1>3 DEF T

LEMMA BeginEmptySums ==
    ASSUME IInv, BeginEmpty
    PROVE  VolumeOK' /\ OpenOK'
<1>1. /\ phase = "CALL" /\ order' = order /\ collected' = collected
      /\ open' = NoPrice /\ volume' = 0
      /\ \E s \in Sides : collected[s] = <<>>
  BY DEF BeginEmpty
<1>2. order \in Seq(Order) /\ \A s \in Sides : collected[s] \in Seq(DOMAIN order)
  BY DEF IInv, TypeOK
<1>3. \A s \in Sides : SumFunction([r \in ToSet(collected[s]) |-> order[r].filled]) = 0
  <2>1. SUFFICES ASSUME NEW s \in Sides
                 PROVE  SumFunction([r \in ToSet(collected[s]) |-> order[r].filled]) = 0
    OBVIOUS
  <2>2. \A i \in 1 .. Len(collected[s]) : order[collected[s][i]].filled = 0
    BY <1>1, Untouched
  <2>3. QED
    BY <1>2, <2>2, NothingFilled
<1>4. VolumeOK'
  BY <1>1, <1>3 DEF VolumeOK
<1>5. PICK s \in Sides : collected[s] = <<>>
  BY <1>1
<1>6. TypeOK'
  BY BeginEmptyKeeps DEF IInv
<1>7. ASSUME NEW p \in Prices PROVE Demand(s, p)' = 0
  <2>1. Takers(order', collected'[s], p) = {}
    BY <1>1, <1>5 DEF Takers, ToSet
  <2>2. QED
    BY <1>6, <2>1, DemandTotalNext, TotalNone DEF Asks
<1>8. OpenOK'
  BY <1>1, <1>7 DEF OpenOK
<1>9. QED
  BY <1>4, <1>8

LEMMA BeginMatchSums ==
    ASSUME IInv, BeginMatch
    PROVE  VolumeOK' /\ OpenOK'
<1>1. /\ phase = "CALL" /\ order' = order /\ volume' = 0
      /\ open' = CalculateOpenPrice
      /\ collected' \in [Sides -> Seq(DOMAIN order)]
      /\ \A s \in Sides : MatchLists(s, collected'[s], matchable'[s], open')
  BY BeginMatchEffect
<1>2. /\ order \in Seq(Order) /\ TypeOK /\ TypeOK' /\ CollectedOK
      /\ \A s \in Sides : collected[s] \in Seq(DOMAIN order)
  BY BeginMatchKeeps DEF IInv, TypeOK
<1>3. ASSUME NEW s \in Sides
      PROVE  /\ SumFunction([r \in ToSet(collected'[s]) |-> order[r].filled]) = 0
             /\ open' # NoPrice =>
                   \A i \in 1 .. Len(collected'[s]) :
                       Accepts(order[collected'[s][i]], open') => i <= Len(matchable'[s])
  <2>1. /\ collected'[s] \in Seq(DOMAIN order)
        /\ \A i \in 1 .. Len(collected'[s]) : order[collected'[s][i]].filled = 0
    BY <1>1 DEF MatchLists
  <2>2. SumFunction([r \in ToSet(collected'[s]) |-> order[r].filled]) = 0
    BY <1>2, <2>1, NothingFilled
  <2>3. QED
    BY <1>1, <2>2 DEF MatchLists
<1>4. VolumeOK'
  BY <1>1, <1>3 DEF VolumeOK
<1>5. ASSUME NEW s \in Sides, NEW p PROVE Demand(s, p)' = Demand(s, p)
  <2>1. /\ Demand(s, p) = Asks(order, collected[s], p)
        /\ Demand(s, p)' = Asks(order', collected'[s], p)
    BY <1>2, DemandTotal, DemandTotalNext
  <2>2. /\ collected'[s] \in Seq(DOMAIN order) /\ ToSet(collected'[s]) = ToSet(collected[s])
        /\ SameOrders(order, order')
    BY <1>1 DEF MatchLists, SameOrders
  <2>3. QED
    BY <1>1, <1>2, <2>1, <2>2, AsksSame
<1>6. ASSUME NEW p \in Prices
      PROVE  \E s \in Sides :
                IF open' = NoPrice
                THEN Demand(s, p)' = 0
                ELSE \A t \in Sides : Demand(s, p)' <= Asks(order', collected'[t], open')
  <2>1. \A t \in Sides : Asks(order', collected'[t], open') = Demand(t, open')
    <3>1. SUFFICES ASSUME NEW t \in Sides
                   PROVE  Asks(order', collected'[t], open') = Demand(t, open')
      OBVIOUS
    <3>2. /\ collected'[t] \in Seq(DOMAIN order) /\ ToSet(collected'[t]) = ToSet(collected[t])
          /\ SameOrders(order, order')
      BY <1>1 DEF MatchLists, SameOrders
    <3>3. Asks(order', collected'[t], open') = Asks(order, collected[t], open')
      BY <1>1, <1>2, <3>2, AsksSame
    <3>4. QED
      BY <1>2, <3>3, DemandTotal
  <2>2. QED
    BY <1>1, <1>2, <1>5, <2>1, OpenBest
<1>7. OpenOK'
  BY <1>2, <1>6, DemandTotalNext DEF OpenOK
<1>8. QED
  BY <1>4, <1>7

LEMMA InitSums == Init => SumsInv
BY InitIInv DEF Init, AuctionInit, SumsInv, VolumeOK, OpenOK

LEMMA NextSums == SumsInv /\ [Next]_vars => SumsInv'
<1> SUFFICES ASSUME SumsInv, [Next]_vars PROVE SumsInv'
  OBVIOUS
<1>1. IInv'
  BY NextIInv DEF SumsInv
<1>2. CASE UNCHANGED vars
  <2>1. UNCHANGED <<order, phase, collected, open, matchable, volume>>
    BY <1>2 DEF vars, auctionVars, locals
  <2>2. VolumeOK'
    <3>1. \A s \in Sides : [r \in ToSet(collected'[s]) |-> order'[r].filled]
                              = [r \in ToSet(collected[s]) |-> order[r].filled]
      BY <2>1
    <3>2. QED
      BY <2>1, <3>1 DEF SumsInv, VolumeOK, Accepts
  <2>3. OpenOK'
    <3>1. TypeOK /\ TypeOK'
      BY <1>1 DEF SumsInv, IInv
    <3>2. \A s \in Sides, p \in Prices \cup {open} : Demand(s, p)' = Demand(s, p)
      BY <2>1, <3>1, DemandTotal, DemandTotalNext
    <3>3. QED
      BY <2>1, <3>2 DEF SumsInv, OpenOK
  <2>4. QED
    BY <1>1, <2>2, <2>3 DEF SumsInv
<1>3. CASE phase' # "MATCH"
  BY <1>1, <1>3 DEF SumsInv, VolumeOK, OpenOK
<1>4. CASE BeginEmpty
  BY <1>1, <1>4, BeginEmptySums DEF SumsInv
<1>5. CASE BeginMatch
  BY <1>1, <1>5, BeginMatchSums DEF SumsInv
<1>6. CASE Pair
  BY <1>1, <1>6, PairVolume, PairOpen DEF SumsInv
<1>7. ASSUME Next, ~ BeginEmpty, ~ BeginMatch, ~ Pair
      PROVE  phase' # "MATCH"
  BY <1>7 DEF Next, StartAuction, Reset, AddOrder, CancelOrder, Step, EndMatch
<1>8. QED
  BY <1>2, <1>3, <1>4, <1>5, <1>6, <1>7

LEMMA SumsInvariant == Spec => []SumsInv
BY InitSums, NextSums, PTL DEF Spec

(* What the loop has traded when it is over is what the side that ran out     *)
(* asked for at the opening price.                                          *)
LEMMA MaximalHolds ==
    ASSUME SumsInv
    PROVE  VolumeMaximal
<1>1. SUFFICES ASSUME Paired, NEW p \in Prices
               PROVE  \E s \in Sides : volume >= Demand(s, p)
  BY DEF VolumeMaximal
<1>2. phase = "MATCH" /\ \E s \in Sides : ~ (next[s] <= Len(matchable[s]))
  BY <1>1 DEF Paired, Pairing
<1>3. PICK t \in Sides : ~ (next[t] <= Len(matchable[t]))
  BY <1>2
<1>4. /\ TypeOK /\ order \in Seq(Order) /\ collected[t] \in Seq(DOMAIN order)
      /\ matchable[t] \in Seq(DOMAIN order) /\ next[t] \in Nat /\ volume \in Nat
  BY DEF SumsInv, IInv, TypeOK
<1>5. PICK s \in Sides : IF open = NoPrice THEN Demand(s, p) = 0
                         ELSE Demand(s, p) <= Demand(t, open)
  BY <1>2 DEF SumsInv, OpenOK
<1>6. CASE open = NoPrice
  BY <1>4, <1>5, <1>6
<1>7. CASE open # NoPrice
  <2> DEFINE all == ToSet(collected[t])
             T == Takers(order, collected[t], open)
             f == FilledOf(order)
  <2>1. /\ IsFiniteSet(all) /\ all \in SUBSET DOMAIN order
        /\ volume = Total(f, all)
    BY <1>2, <1>4, FilledSum DEF SumsInv, VolumeOK
  <2>2. T \in SUBSET all /\ IsFiniteSet(T) /\ \A r \in all : f[r] \in Nat
    BY <1>4, <2>1, AsksSum, HeapNumbers DEF Takers
  <2>3. ASSUME NEW r \in T PROVE QtyOf(order)[r] \in Int /\ QtyOf(order)[r] <= f[r]
    <3>1. PICK i \in 1 .. Len(collected[t]) :
              r = collected[t][i] /\ Accepts(order[collected[t][i]], open)
      <4>1. r \in ToSet(collected[t]) /\ Accepts(order[r], open)
        BY DEF Takers
      <4>2. PICK i \in 1 .. Len(collected[t]) : r = collected[t][i]
        <5>1. collected[t] \in Seq(DOMAIN order)
          BY <1>4
        <5>2. QED
          BY ONLY <4>1, <5>1 DEF ToSet
      <4>3. QED
        BY <4>1, <4>2
    <3>2. i <= Len(matchable[t])
      BY <1>2, <1>7, <3>1 DEF SumsInv, VolumeOK
    <3>3. i < next[t]
      BY <1>3, <1>4, <3>2
    <3>4. IsFilled(order[r])
      BY <1>2, <3>1, <3>3 DEF SumsInv, IInv, MatchOK
    <3>5. r \in DOMAIN order
      BY <2>1, <2>2
    <3>6. QED
      BY <1>4, <3>4, <3>5, HeapNumbers DEF IsFilled
  <2>4. Demand(t, open) = Total(QtyOf(order), T)
    BY <1>4, DemandTotal DEF Asks
  <2> HIDE DEF all, T, f
  <2>5. Total(QtyOf(order), T) <= Total(f, T)
    <3>1. \A r \in T : QtyOf(order)[r] \in Int /\ f[r] \in Int /\ QtyOf(order)[r] <= f[r]
      BY <2>2, <2>3
    <3>2. QED
      BY ONLY <2>2, <3>1, TotalCompare
  <2>6. Total(f, T) <= Total(f, all) /\ Total(f, T) \in Nat
    BY ONLY <2>1, <2>2, TotalSubset
  <2>7. Demand(s, p) \in Nat /\ Demand(t, open) \in Nat
    BY <1>4, DemandTotal
  <2>8. volume >= Demand(s, p)
    BY <1>4, <1>5, <1>7, <2>1, <2>4, <2>5, <2>6, <2>7
  <2>9. QED
    BY <2>8
<1>8. QED
  BY <1>6, <1>7

(* The auction executes as much as can be executed at any one price of the   *)
(* market, whatever the orders: the price is found among those that orders   *)
(* name (auction_engine.go:323), the volume comes about trade by trade       *)
(* (auction_engine.go:251).                                                 *)
THEOREM MaximalAlways == Spec => []VolumeMaximal
<1>1. SumsInv => VolumeMaximal
  BY MaximalHolds
<1>2. QED
  BY <1>1, SumsInvariant, PTL

-----------------------------------------------------------------------------
(* What the result reports.                                                 *)

(* The last loops of match() keep all they are given when nothing of it is   *)
(* filled.                                                                  *)
LEMMA AllKept ==
    ASSUME NEW S, NEW list \in Seq(S), NEW rest \in Seq(S),
           \A i \in 1 .. Len(rest) : ~ IsFilled(order[rest[i]])
    PROVE  WithUnfilled(list, rest) = list \o rest
<1> DEFINE D == DOMAIN rest
           V == Seq(S)
           pick == [s \in SUBSET D |-> Max(s)]
           g == [x \in D \X V |-> IF IsFilled(order[rest[x[1]]]) THEN x[2]
                                  ELSE Append(x[2], rest[x[1]])]
           Body(k) == k = [s \in SUBSET D |->
                         IF s = {} THEN list
                         ELSE LET x == Max(s)
                              IN  IF IsFilled(order[rest[x]]) THEN k[s \ {x}]
                                  ELSE Append(k[s \ {x}], rest[x])]
           iter == CHOOSE k : Body(k)
<1>1. WithUnfilled(list, rest) = iter[D]
  BY DEF WithUnfilled, FoldLeft, MapThenFoldSet
<1>2. D = 1 .. Len(rest) /\ Len(rest) \in Nat /\ D \in SUBSET Nat /\ IsFiniteSet(D)
  <2>1. D = 1 .. Len(rest) /\ Len(rest) \in Nat /\ D \in SUBSET Nat
    OBVIOUS
  <2>2. 1 \in Int /\ Len(rest) \in Int
    BY <2>1
  <2>3. IsFiniteSet(1 .. Len(rest))
    BY <2>2, FS_Interval
  <2>4. QED
    BY <2>1, <2>3
<1>3. \A s \in (SUBSET D) \ {{}} : pick[s] = Max(s) /\ Max(s) \in s /\ \A x \in s : x <= Max(s)
  <2>1. SUFFICES ASSUME NEW s \in SUBSET D, s # {}
                 PROVE  Max(s) \in s /\ \A x \in s : x <= Max(s)
    OBVIOUS
  <2>2. s \in SUBSET Nat /\ IsFiniteSet(s)
    BY <1>2, FS_Subset
  <2>3. QED
    BY <2>1, <2>2, GreatestExists
<1>4. /\ g \in [D \X V -> V]
      /\ \A x \in D, v \in V : g[<<x, v>>] = IF IsFilled(order[rest[x]]) THEN v
                                             ELSE Append(v, rest[x])
  <2>1. \A x \in D, v \in V : rest[x] \in S /\ Append(v, rest[x]) \in V
    OBVIOUS
  <2>2. QED
    BY <2>1
<1>5. list \in V
  OBVIOUS
<1> HIDE DEF pick, g, V, D
<1>6. PICK h \in [SUBSET D -> V] : Recursion(D, list, pick, g, h)
  <2>1. \A s \in (SUBSET D) \ {{}} : pick[s] \in s
    BY <1>3
  <2>2. IsFiniteSet(D) /\ g \in [D \X V -> V]
    BY <1>2, <1>4
  <2>3. QED
    BY ONLY <1>5, <2>1, <2>2, RecursionExists
<1>7. Body(h)
  <2> DEFINE next1(s) == IF s = {} THEN list
                         ELSE LET x == Max(s)
                              IN  IF IsFilled(order[rest[x]]) THEN h[s \ {x}]
                                  ELSE Append(h[s \ {x}], rest[x])
  <2>1. ASSUME NEW s \in SUBSET D PROVE h[s] = next1(s)
    <3>1. CASE s = {}
      BY <1>6, <3>1 DEF Recursion
    <3>2. CASE s # {}
      <4>1. Max(s) \in D /\ s \ {Max(s)} \in SUBSET D
        BY <1>3, <3>2
      <4>2. h[s \ {Max(s)}] \in V
        BY <1>6, <4>1
      <4>3. h[s] = g[<<Max(s), h[s \ {Max(s)}]>>]
        BY <1>3, <1>6, <3>2 DEF Recursion
      <4>4. QED
        BY <1>4, <3>2, <4>1, <4>2, <4>3
    <3>3. QED
      BY <3>1, <3>2
  <2> HIDE DEF next1
  <2>2. h = [s \in SUBSET D |-> next1(s)]
    BY <1>6, <2>1
  <2>3. QED
    BY <2>2 DEF next1
<1>8. Body(iter)
  <2> HIDE DEF Body
  <2>1. QED
    BY <1>7
<1> HIDE DEF iter
<1>9. iter[{}] = list
  BY <1>8
<1>10. ASSUME NEW s \in SUBSET D, s # {}
       PROVE  iter[s] = Append(iter[s \ {Max(s)}], rest[Max(s)])
  <2>1. Max(s) \in 1 .. Len(rest)
    BY <1>2, <1>3, <1>10
  <2>2. ~ IsFilled(order[rest[Max(s)]])
    BY <2>1
  <2>3. QED
    BY <1>8, <1>10, <2>2
<1> HIDE DEF Body
<1> DEFINE upto(n) == [i \in 1 .. Len(list) + n |->
                          IF i <= Len(list) THEN list[i] ELSE rest[i - Len(list)]]
           N == {n \in Nat : n <= Len(rest) => iter[1 .. n] = upto(n)}
<1>11. 0 \in N
  <2>1. 1 .. 0 = {} /\ upto(0) = list
    OBVIOUS
  <2>2. QED
    BY <1>9, <2>1
<1>12. ASSUME NEW n \in N PROVE n + 1 \in N
  <2>1. SUFFICES ASSUME n + 1 <= Len(rest) PROVE iter[1 .. n + 1] = upto(n + 1)
    OBVIOUS
  <2> DEFINE s == 1 .. n + 1
  <2>2. n \in Nat /\ s \in SUBSET D /\ s # {} /\ n + 1 \in s /\ n <= Len(rest)
    BY <1>2, <2>1
  <2>3. Max(s) = n + 1
    <3>1. Max(s) \in s /\ n + 1 <= Max(s)
      BY <1>3, <2>2
    <3>2. QED
      BY <2>2, <3>1
  <2>4. s \ {n + 1} = 1 .. n
    BY <2>2
  <2>5. iter[s] = Append(iter[1 .. n], rest[n + 1])
    BY <1>10, <2>2, <2>3, <2>4
  <2>6. iter[1 .. n] = upto(n)
    BY <1>12, <2>2
  <2>7. Append(upto(n), rest[n + 1]) = upto(n + 1)
    <3>1. /\ Len(list) + n \in Nat /\ Len(list) \in Nat
          /\ (Len(list) + n) + 1 = Len(list) + (n + 1)
      BY <2>2
    <3>2. upto(n) \in Seq(S) /\ Len(upto(n)) = Len(list) + n
      <4>1. \A i \in 1 .. Len(list) + n :
                (IF i <= Len(list) THEN list[i] ELSE rest[i - Len(list)]) \in S
        BY <2>1, <2>2
      <4>2. QED
        BY <3>1, <4>1, IsASeq
    <3>3. rest[n + 1] \in S
      BY <2>1, <2>2
    <3>4. /\ Append(upto(n), rest[n + 1]) \in Seq(S)
          /\ Len(Append(upto(n), rest[n + 1])) = Len(list) + (n + 1)
          /\ \A i \in 1 .. Len(list) + n : Append(upto(n), rest[n + 1])[i] = upto(n)[i]
          /\ Append(upto(n), rest[n + 1])[Len(list) + (n + 1)] = rest[n + 1]
      <4> DEFINE u == upto(n)
                 e == rest[n + 1]
      <4>1. u \in Seq(S) /\ Len(u) = Len(list) + n /\ e \in S
        BY <3>2, <3>3
      <4> HIDE DEF u, e
      <4>2. QED
        BY <3>1, <4>1, AppendProperties DEF u, e
    <3>5. \A i \in 1 .. Len(list) + (n + 1) :
              Append(upto(n), rest[n + 1])[i]
                 = IF i <= Len(list) THEN list[i] ELSE rest[i - Len(list)]
      <4>1. SUFFICES ASSUME NEW i \in 1 .. Len(list) + (n + 1)
                     PROVE  Append(upto(n), rest[n + 1])[i]
                               = IF i <= Len(list) THEN list[i] ELSE rest[i - Len(list)]
        OBVIOUS
      <4>2. CASE i \in 1 .. Len(list) + n
        BY <3>4, <4>2
      <4>3. CASE i = Len(list) + (n + 1)
        <5>1. ~ (i <= Len(list)) /\ i - Len(list) = n + 1
          BY <2>2, <3>1, <4>3
        <5>2. QED
          BY <3>4, <4>3, <5>1
      <4>4. i \in 1 .. Len(list) + n \/ i = Len(list) + (n + 1)
        <5> DEFINE m == Len(list) + n
        <5>1. m \in Nat /\ Len(list) + (n + 1) = m + 1 /\ i \in 1 .. m + 1
          BY <3>1
        <5> HIDE DEF m
        <5>2. i \in 1 .. m \/ i = m + 1
          BY ONLY <5>1
        <5>3. QED
          BY <5>1, <5>2 DEF m
      <4>5. QED
        BY <4>2, <4>3, <4>4
    <3> DEFINE w == Append(upto(n), rest[n + 1])
    <3>6. DOMAIN w = 1 .. Len(list) + (n + 1) /\ w = [i \in DOMAIN w |-> w[i]]
      BY <3>4
    <3> HIDE DEF w
    <3>7. QED
      BY <3>5, <3>6 DEF w
  <2> HIDE DEF upto
  <2>8. QED
    BY <2>5, <2>6, <2>7
<1>13. N = Nat
  <2> HIDE DEF N
  <2>1. N \in SUBSET Nat
    BY DEF N
  <2>2. QED
    BY <1>11, <1>12, <2>1, FromZero
<1>14. iter[D] = upto(Len(rest))
  <2>1. Len(rest) \in N
    BY <1>2, <1>13
  <2>2. iter[1 .. Len(rest)] = upto(Len(rest))
    BY <2>1
  <2>3. QED
    BY <1>2, <2>2
<1>15. upto(Len(rest)) = list \o rest
  <2> DEFINE w == list \o rest
  <2>1. /\ w \in Seq(S) /\ Len(w) = Len(list) + Len(rest)
        /\ \A i \in 1 .. Len(list) + Len(rest) :
              w[i] = IF i <= Len(list) THEN list[i] ELSE rest[i - Len(list)]
    BY ConcatProperties
  <2> HIDE DEF w
  <2>2. w = [i \in 1 .. Len(list) + Len(rest) |-> w[i]]
    BY <2>1
  <2>3. QED
    BY <2>1, <2>2 DEF w
<1>16. QED
  BY <1>1, <1>14, <1>15

-----------------------------------------------------------------------------
(* The lists, over all steps.                                               *)

LEMMA InitLists == Init => ListsInv
<1> SUFFICES ASSUME Init PROVE ListsInv
  OBVIOUS
<1>1. phase = "NONE"
  BY DEF Init, AuctionInit
<1>2. QED
  BY <1>1, InitIInv DEF ListsInv, ListsOK

LEMMA AddOrderLists ==
    ASSUME ListsInv, NEW f \in AuctionForms, NEW id, AddOrder(f, id)
    PROVE  ListsOK'
<1> DEFINE r == Len(order) + 1
<1>1. /\ phase = "CALL" /\ phase' = "CALL"
      /\ collected' = [collected EXCEPT ![f.side] = Append(@, r)]
  BY DEF AddOrder
<1>2. /\ order \in Seq(Order) /\ collected \in [Sides -> Seq(DOMAIN order)]
      /\ \A s \in Sides : IsInjective(collected[s])
  BY <1>1 DEF ListsInv, IInv, TypeOK, ListsOK
<1>3. r \notin DOMAIN order
  BY <1>2
<1>4. ASSUME NEW s \in Sides PROVE IsInjective(collected'[s])
  <2> DEFINE c == collected[s]
  <2>1. c \in Seq(DOMAIN order) /\ IsInjective(c)
    BY <1>2
  <2>2. collected'[s] = Append(c, r) \/ collected'[s] = c
    BY <1>1, <1>2
  <2> HIDE DEF c, r
  <2>3. \A i \in 1 .. Len(c) : c[i] # r
    BY <1>3, <2>1, ElementOfSeq
  <2>4. IsInjective(Append(c, r))
    <3>1. /\ DOMAIN Append(c, r) = 1 .. Len(c) + 1 /\ Len(c) \in Nat
          /\ \A i \in 1 .. Len(c) : Append(c, r)[i] = c[i]
          /\ Append(c, r)[Len(c) + 1] = r
      BY <2>1
    <3>2. \A i \in 1 .. Len(c) + 1 : i \in 1 .. Len(c) \/ i = Len(c) + 1
      BY <3>1
    <3>3. \A i, j \in 1 .. Len(c) : c[i] = c[j] => i = j
      BY <2>1 DEF IsInjective
    <3> DEFINE w == Append(c, r)
    <3> HIDE DEF w
    <3>4. \A i, j \in DOMAIN w : w[i] = w[j] => i = j
      BY <2>3, <3>1, <3>2, <3>3 DEF w
    <3>5. QED
      BY <3>4 DEF IsInjective, w
  <2>5. QED
    BY <2>1, <2>2, <2>4
<1>5. QED
  BY <1>1, <1>4 DEF ListsOK

LEMMA CancelOrderLists ==
    ASSUME ListsInv, NEW id, CancelOrder(id)
    PROVE  ListsOK'
<1> DEFINE r == Head(Found(id))
<1>1. /\ phase = "CALL" /\ phase' = "CALL"
      /\ collected' = [collected EXCEPT ![order[r].side] = RemoveFirst(@, r)]
  BY DEF CancelOrder
<1> HIDE DEF r
<1>2. /\ collected \in [Sides -> Seq(DOMAIN order)]
      /\ \A s \in Sides : IsInjective(collected[s])
  BY <1>1 DEF ListsInv, IInv, TypeOK, ListsOK
<1>3. ASSUME NEW s \in Sides PROVE IsInjective(collected'[s])
  <2> DEFINE c == collected[s]
  <2>1. c \in Seq(DOMAIN order) /\ IsInjective(c)
    BY <1>2
  <2>2. collected'[s] = RemoveFirst(c, r) \/ collected'[s] = c
    BY <1>1, <1>2
  <2> HIDE DEF c
  <2>3. IsInjective(RemoveFirst(c, r))
    BY <2>1, RemoveFirstInjective
  <2>4. QED
    BY <2>1, <2>2, <2>3
<1>4. QED
  BY <1>1, <1>3 DEF ListsOK

LEMMA BeginEmptyLists ==
    ASSUME ListsInv, BeginEmpty
    PROVE  ListsOK'
<1>1. /\ phase = "CALL" /\ phase' = "MATCH" /\ collected' = collected
      /\ matchable' = NoOrders /\ unmatched' = collected
  BY DEF BeginEmpty
<1>2. ASSUME NEW s \in Sides
      PROVE  /\ IsInjective(collected[s])
             /\ collected[s] = SubSeq(collected[s], Len(matchable'[s]) + 1,
                                      Len(collected[s]))
  <2>1. IsInjective(collected[s]) /\ collected[s] \in Seq(DOMAIN order)
    BY <1>1 DEF ListsInv, IInv, TypeOK, ListsOK
  <2>2. Len(matchable'[s]) + 1 = 1
    BY <1>1 DEF NoOrders
  <2>3. SubSeq(collected[s], 1, Len(collected[s])) = collected[s]
    BY <2>1, SubSeqFull
  <2>4. QED
    BY <2>1, <2>2, <2>3
<1>3. QED
  BY <1>1, <1>2 DEF ListsOK

LEMMA BeginMatchLists ==
    ASSUME ListsInv, BeginMatch
    PROVE  ListsOK'
<1>1. /\ phase' = "MATCH" /\ order' = order
      /\ collected' \in [Sides -> Seq(DOMAIN order)]
      /\ \A s \in Sides :
            /\ MatchLists(s, collected'[s], matchable'[s], open')
            /\ unmatched'[s] = SubSeq(collected'[s], Len(matchable'[s]) + 1,
                                      Len(collected'[s]))
  BY BeginMatchEffect DEF ListsInv
<1>2. ASSUME NEW s \in Sides PROVE IsInjective(collected'[s])
  <2> DEFINE c == collected'[s]
  <2>1. /\ c \in Seq(DOMAIN order)
        /\ \A i, j \in 1 .. Len(c) : i < j => Precedes(c[i], c[j])
    BY <1>1 DEF MatchLists
  <2> HIDE DEF c
  <2>2. ASSUME NEW i \in 1 .. Len(c), NEW j \in 1 .. Len(c), c[i] = c[j], i # j
        PROVE  FALSE
    <3>1. i < j \/ j < i
      BY <2>2
    <3> DEFINE r == c[i]
    <3>2. Precedes(r, r)
      BY <2>1, <2>2, <3>1
    <3>3. r \in Nat
      <4>1. r \in DOMAIN order /\ order \in Seq(Order)
        BY <2>1, ElementOfSeq DEF ListsInv, IInv, TypeOK
      <4> HIDE DEF r
      <4>2. QED
        BY ONLY <4>1
    <3> HIDE DEF r
    <3>4. ~ (r < r)
      BY <3>3
    <3>5. QED
      BY ONLY <3>2, <3>4, Zenon DEF Precedes
  <2>3. DOMAIN c = 1 .. Len(c)
    BY <2>1
  <2>4. IsInjective(c)
    BY <2>2, <2>3 DEF IsInjective
  <2>5. QED
    BY <2>4 DEF c
<1>3. QED
  BY <1>1, <1>2 DEF ListsOK

LEMMA NextLists == ListsInv /\ [Next]_vars => ListsInv'
<1> SUFFICES ASSUME ListsInv, [Next]_vars PROVE ListsOK'
  BY NextIInv DEF ListsInv
<1>1. CASE UNCHANGED <<phase, collected, matchable, unmatched>>
  BY <1>1 DEF ListsInv, ListsOK
<1>2. CASE phase' \notin {"CALL", "MATCH"}
  BY <1>2 DEF ListsOK
<1>3. CASE StartAuction
  <2>1. phase' = "CALL" /\ \A s \in Sides : collected'[s] = <<>>
    BY <1>3 DEF StartAuction, NoOrders
  <2>2. \A s \in Sides : IsInjective(collected'[s])
    BY <2>1 DEF IsInjective
  <2>3. QED
    BY <2>1, <2>2 DEF ListsOK
<1>4. ASSUME NEW f \in AuctionForms, NEW id, AddOrder(f, id)
      PROVE  ListsOK'
  BY <1>4, AddOrderLists
<1>5. ASSUME NEW id, CancelOrder(id)
      PROVE  ListsOK'
  BY <1>5, CancelOrderLists
<1>6. CASE BeginEmpty \/ BeginMatch
  BY <1>6, BeginEmptyLists, BeginMatchLists
<1>7. CASE Pair
  BY <1>1, <1>7 DEF Pair
<1>8. CASE Reset \/ EndMatch
  BY <1>2, <1>8 DEF Reset, EndMatch
<1>9. UNCHANGED vars => UNCHANGED <<phase, collected, matchable, unmatched>>
  BY DEF vars, auctionVars, locals
<1>10. QED
  BY <1>1, <1>3, <1>4, <1>5, <1>6, <1>7, <1>8, <1>9 DEF Next, Step

(* When the loop is over, the leftovers of a side are the orders from the    *)
(* index on, those that were to be matched last.                            *)
LEMMA LeftoverPlaces ==
    ASSUME ListsInv, Paired, NEW s \in Sides
    PROVE  LET c == collected[s]
               m == Len(matchable[s])
               n == next[s]
               from(i) == IF i <= Len(c) - m THEN m + i ELSE n + (i - (Len(c) - m)) - 1
           IN  /\ m \in Nat /\ Len(c) \in Nat /\ n \in Nat \ {0}
               /\ m <= Len(c) /\ n <= m + 1
               /\ Leftover(s) \in Seq(DOMAIN order)
               /\ Len(Leftover(s)) = (Len(c) - m) + ((m - n) + 1)
               /\ \A i \in 1 .. Len(Leftover(s)) : Leftover(s)[i] = c[from(i)]
<1> DEFINE c == collected[s]
           m == Len(matchable[s])
           n == next[s]
           R == DOMAIN order
           rest == SubSeq(matchable[s], n, m)
           from(i) == IF i <= Len(c) - m THEN m + i ELSE n + (i - (Len(c) - m)) - 1
<1>1. phase = "MATCH"
  BY DEF Paired
<1>2. /\ c \in Seq(R) /\ matchable[s] \in Seq(R) /\ n \in Nat \ {0}
      /\ m \in Nat /\ Len(c) \in Nat
  BY DEF ListsInv, IInv, TypeOK
<1>3. /\ m <= Len(c) /\ n <= m + 1
      /\ \A i \in 1 .. m : matchable[s][i] = c[i]
      /\ \A i \in 1 .. Len(c) : i < n <=> IsFilled(order[c[i]])
  BY <1>1 DEF ListsInv, IInv, MatchOK
<1>4. unmatched[s] = SubSeq(c, m + 1, Len(c))
  BY <1>1 DEF ListsInv, ListsOK
<1>5. /\ unmatched[s] \in Seq(R) /\ Len(unmatched[s]) = Len(c) - m
      /\ \A i \in 1 .. Len(c) - m : unmatched[s][i] = c[m + i]
  <2> DEFINE w == SubSeq(c, m + 1, Len(c))
             a == m + 1
             z == Len(c)
  <2>1. a \in Int /\ z \in Int /\ \A i \in a .. z : c[i] \in R
    BY <1>2, ElementOfSeq
  <2> HIDE DEF a, z
  <2>2. /\ SubSeq(c, a, z) \in Seq(R)
        /\ Len(SubSeq(c, a, z)) = IF a <= z THEN z - a + 1 ELSE 0
        /\ \A i \in 1 .. z - a + 1 : SubSeq(c, a, z)[i] = c[a + i - 1]
    BY <2>1, SubSeqProperties
  <2>3. /\ z - a + 1 = Len(c) - m /\ (a <= z \/ Len(c) - m = 0)
        /\ \A i \in 1 .. Len(c) - m : a + i - 1 = m + i
    BY <1>2, <1>3 DEF a, z
  <2>4. /\ w \in Seq(R) /\ Len(w) = Len(c) - m
        /\ \A i \in 1 .. Len(c) - m : w[i] = c[m + i]
    BY <2>2, <2>3 DEF a, z
  <2> HIDE DEF w
  <2>5. QED
    BY <1>4, <2>4 DEF w
<1>6. /\ rest \in Seq(R) /\ Len(rest) = (m - n) + 1
      /\ \A i \in 1 .. (m - n) + 1 : rest[i] = c[n + i - 1] /\ ~ IsFilled(order[rest[i]])
  <2>1. n \in Int /\ m \in Int /\ \A i \in n .. m : matchable[s][i] \in R
    BY <1>2, ElementOfSeq
  <2>2. /\ rest \in Seq(R)
        /\ Len(rest) = IF n <= m THEN m - n + 1 ELSE 0
        /\ \A i \in 1 .. m - n + 1 : rest[i] = matchable[s][n + i - 1]
    <3> DEFINE w == matchable[s]
    <3>1. n \in Int /\ m \in Int /\ \A i \in n .. m : w[i] \in R
      BY <2>1
    <3> HIDE DEF w, n, m, R
    <3>2. /\ SubSeq(w, n, m) \in Seq(R)
          /\ Len(SubSeq(w, n, m)) = IF n <= m THEN m - n + 1 ELSE 0
          /\ \A i \in 1 .. m - n + 1 : SubSeq(w, n, m)[i] = w[n + i - 1]
      BY ONLY <3>1, SubSeqProperties
    <3>3. QED
      BY <3>2 DEF w
  <2>3. \A i \in 1 .. m - n + 1 : /\ n + i - 1 \in 1 .. m /\ n + i - 1 \in 1 .. Len(c)
                                  /\ ~ (n + i - 1 < n)
    BY <1>2, <1>3
  <2> HIDE DEF rest, m, n, c
  <2>4. (n <= m \/ m - n + 1 = 0) /\ m - n + 1 = (m - n) + 1
    BY <1>2, <1>3
  <2>5. QED
    BY <1>3, <2>2, <2>3, <2>4
<1>7. Leftover(s) = unmatched[s] \o rest
  <2>1. Leftover(s) = WithUnfilled(unmatched[s], rest)
    BY DEF Leftover
  <2> HIDE DEF rest
  <2>2. \A i \in 1 .. Len(rest) : ~ IsFilled(order[rest[i]])
    BY <1>6
  <2>3. WithUnfilled(unmatched[s], rest) = unmatched[s] \o rest
    BY <1>5, <1>6, <2>2, AllKept
  <2>4. QED
    BY <2>1, <2>3
<1> HIDE DEF rest
<1> HIDE DEF c, m, n
<1>8. /\ Leftover(s) \in Seq(R)
      /\ Len(Leftover(s)) = Len(unmatched[s]) + Len(rest)
      /\ \A i \in 1 .. Len(unmatched[s]) + Len(rest) : Leftover(s)[i] =
            IF i <= Len(unmatched[s]) THEN unmatched[s][i]
            ELSE rest[i - Len(unmatched[s])]
  <2> DEFINE w == unmatched[s]
  <2>1. w \in Seq(R) /\ rest \in Seq(R)
    BY <1>5, <1>6
  <2>2. /\ w \o rest \in Seq(R)
        /\ Len(w \o rest) = Len(w) + Len(rest)
        /\ \A i \in 1 .. Len(w) + Len(rest) :
              (w \o rest)[i] = IF i <= Len(w) THEN w[i] ELSE rest[i - Len(w)]
    <3> HIDE DEF w
    <3>1. QED
      BY ONLY <2>1, ConcatProperties
  <2>3. QED
    BY <1>7, <2>2
<1>9. ASSUME NEW i \in 1 .. Len(Leftover(s))
      PROVE  Leftover(s)[i] = c[from(i)]
  <2> DEFINE k == Len(c) - m
  <2>1. /\ k \in Nat /\ (m - n) + 1 \in Nat /\ i \in 1 .. k + ((m - n) + 1)
        /\ Leftover(s)[i] = IF i <= k THEN unmatched[s][i] ELSE rest[i - k]
    BY <1>2, <1>3, <1>5, <1>6, <1>8
  <2>2. CASE i <= k
    <3>1. i \in 1 .. k
      BY <2>1, <2>2
    <3>2. QED
      BY <1>5, <2>1, <2>2, <3>1
  <2>3. CASE ~ (i <= k)
    <3>1. i - k \in 1 .. (m - n) + 1
      <4> DEFINE z == (m - n) + 1
      <4>1. k \in Nat /\ z \in Nat /\ i \in 1 .. k + z /\ ~ (i <= k)
        BY <2>1, <2>3
      <4> HIDE DEF k, z
      <4>2. i - k \in 1 .. z
        BY ONLY <4>1
      <4>3. QED
        BY <4>2 DEF k, z
    <3>2. Leftover(s)[i] = c[n + (i - k) - 1]
      BY <1>6, <2>1, <2>3, <3>1
    <3>3. QED
      BY <2>3, <3>2
  <2>4. QED
    BY <2>2, <2>3
<1>10. Len(Leftover(s)) = (Len(c) - m) + ((m - n) + 1)
  BY <1>5, <1>6, <1>8
<1>11. QED
  BY <1>2, <1>3, <1>8, <1>9, <1>10 DEF c, m, n

(* They are the orders that are not filled, each once.                      *)
LEMMA LeftoverOnce ==
    ASSUME ListsInv, Paired, NEW s \in Sides
    PROVE  /\ IsInjective(Leftover(s))
           /\ ToSet(Leftover(s)) = {r \in ToSet(collected[s]) : ~ IsFilled(order[r])}
<1> DEFINE c == collected[s]
           m == Len(matchable[s])
           n == next[s]
           list == Leftover(s)
           from(i) == IF i <= Len(c) - m THEN m + i ELSE n + (i - (Len(c) - m)) - 1
<1>1. /\ m \in Nat /\ Len(c) \in Nat /\ n \in Nat \ {0} /\ m <= Len(c) /\ n <= m + 1
      /\ list \in Seq(DOMAIN order) /\ Len(list) = (Len(c) - m) + ((m - n) + 1)
      /\ \A i \in 1 .. Len(list) : list[i] = c[from(i)]
  BY LeftoverPlaces
<1>2. /\ c \in Seq(DOMAIN order) /\ IsInjective(c)
      /\ \A i \in 1 .. Len(c) : i < n <=> IsFilled(order[c[i]])
  BY DEF ListsInv, ListsOK, Paired, IInv, MatchOK, TypeOK
<1> HIDE DEF c, m, n, list
<1>3. /\ DOMAIN c = 1 .. Len(c) /\ DOMAIN list = 1 .. Len(list)
      /\ \A i, j \in 1 .. Len(c) : c[i] = c[j] => i = j
  BY <1>1, <1>2 DEF IsInjective
<1> DEFINE z == Len(c)
           k == Len(list)
<1>4. /\ z \in Nat /\ k \in Nat /\ k = (z - m) + ((m - n) + 1)
      /\ \A i \in 1 .. z : ~ (i < n) <=> i \in n .. z
  BY <1>1
<1>5. \A i \in 1 .. k : from(i) \in n .. z /\ from(i) \in 1 .. z
  BY <1>1, <1>4
<1>6. \A i, j \in 1 .. k : from(i) = from(j) => i = j
  BY <1>1, <1>4
<1>7. \A j \in n .. z : \E i \in 1 .. k : j = from(i)
  <2>1. SUFFICES ASSUME NEW j \in n .. z PROVE \E i \in 1 .. k : j = from(i)
    OBVIOUS
  <2>2. CASE j > m
    <3>1. j - m \in 1 .. k /\ from(j - m) = j
      BY <1>1, <1>4, <2>2
    <3>2. QED
      BY <3>1
  <2>3. CASE ~ (j > m)
    <3> DEFINE i == (j - n) + 1 + (z - m)
    <3>1. i \in 1 .. k /\ from(i) = j
      BY <1>1, <1>4, <2>3
    <3>2. QED
      BY <3>1
  <2>4. QED
    BY <2>2, <2>3
<1> HIDE DEF from
<1>8. IsInjective(list)
  BY <1>1, <1>3, <1>5, <1>6 DEF IsInjective
<1>9. ToSet(list) = {r \in ToSet(c) : ~ IsFilled(order[r])}
  <2>1. ASSUME NEW r \in ToSet(list) PROVE r \in ToSet(c) /\ ~ IsFilled(order[r])
    <3>1. PICK i \in 1 .. k : r = list[i]
      BY <1>3 DEF ToSet
    <3>2. r = c[from(i)] /\ from(i) \in 1 .. z /\ ~ (from(i) < n)
      BY <1>1, <1>4, <1>5, <3>1
    <3>3. QED
      BY <1>2, <1>3, <3>2 DEF ToSet
  <2>2. ASSUME NEW r \in ToSet(c), ~ IsFilled(order[r]) PROVE r \in ToSet(list)
    <3>1. PICK j \in 1 .. z : r = c[j]
      BY <1>3 DEF ToSet
    <3>2. j \in n .. z
      BY <1>2, <1>4, <2>2, <3>1
    <3>3. PICK i \in 1 .. k : j = from(i)
      BY <1>7, <3>2
    <3>4. r = list[i]
      BY <1>1, <3>1, <3>3
    <3>5. QED
      BY <1>3, <3>4 DEF ToSet
  <2>3. QED
    BY <2>1, <2>2
<1>10. QED
  BY <1>8, <1>9 DEF c, list

LEMMA ListsInvariant == Spec => []ListsInv
BY InitLists, NextLists, PTL DEF Spec

(* The result of an auction is complete: every collected order is filled, or *)
(* is reported as unmatched, once (auction_engine.go:198-318).              *)
THEOREM CompleteAlways == Spec => []AuctionComplete
<1>1. ListsInv => AuctionComplete
  BY LeftoverOnce DEF AuctionComplete
<1>2. QED
  BY <1>1, ListsInvariant, PTL

(* A side with an order left over that accepts a price asks for more at that *)
(* price than it executed: all it executed were orders with a better claim,  *)
(* which accept the price too.                                              *)
LEMMA MoreAsked ==
    ASSUME SumsInv, phase = "MATCH", NEW s \in Sides, NEW b \in ToSet(collected[s]),
           ~ IsFilled(order[b]), NEW p \in Nat, Accepts(order[b], p)
    PROVE  volume < Demand(s, p)
<1> DEFINE all == ToSet(collected[s])
           T == Takers(order, collected[s], p)
           f == FilledOf(order)
           g == QtyOf(order)
<1>1. TypeOK /\ order \in Seq(Order) /\ collected[s] \in Seq(DOMAIN order)
  BY DEF SumsInv, IInv, TypeOK
<1>2. /\ IsFiniteSet(all) /\ all \in SUBSET DOMAIN order
      /\ volume = Total(f, all)
  BY <1>1, FilledSum DEF SumsInv, VolumeOK
<1>3. /\ T \in SUBSET all /\ IsFiniteSet(T) /\ b \in T
      /\ Demand(s, p) = Total(g, T)
  BY <1>1, AsksSum, DemandTotal DEF Takers, Asks
<1>4. \A r \in all : /\ f[r] = order[r].filled /\ g[r] = order[r].qty
                     /\ f[r] \in Nat /\ g[r] \in Nat
                     /\ order[r].side = s /\ order[r].price \in Nat
  <2>1. SUFFICES ASSUME NEW r \in all
                 PROVE  order[r].side = s /\ order[r].price \in Nat
    <3>1. \A r \in all : /\ f[r] = order[r].filled /\ g[r] = order[r].qty
                         /\ f[r] \in Nat /\ g[r] \in Nat
      BY <1>1, <1>2, HeapNumbers
    <3> HIDE DEF all, f, g
    <3>2. QED
      BY <3>1
  <2>2. PICK i \in 1 .. Len(collected[s]) : r = collected[s][i]
    <3>1. r \in ToSet(collected[s])
      OBVIOUS
    <3>2. QED
      BY ONLY <1>1, <3>1 DEF ToSet
  <2>3. QED
    BY <2>2 DEF SumsInv, IInv, CollectedOK
<1>5. AuctionPriority
  BY PriorityHolds DEF SumsInv
<1>6. ASSUME NEW r \in all, f[r] # 0 PROVE r \in T
  <2>1. order[r].filled > 0 /\ ~ Precedes(b, r)
    <3>1. order[r].filled > 0
      BY <1>4, <1>6
    <3>2. QED
      BY <1>5, <3>1 DEF AuctionPriority
  <2> DEFINE x == order[r].price
             y == order[b].price
  <2>2. /\ x \in Nat /\ y \in Nat /\ order[r].side = s /\ order[b].side = s
        /\ IF s = "buy" THEN y >= p ELSE y <= p
        /\ IF s = "buy" THEN ~ (y > x) ELSE ~ (y < x)
    BY <1>4, <2>1 DEF Accepts, Precedes
  <2>3. IF s = "buy" THEN x >= p ELSE x <= p
    <3> HIDE DEF x, y
    <3>1. QED
      BY <2>2
  <2>4. QED
    BY <2>2, <2>3 DEF Takers, Accepts
<1>7. \A r \in all : f[r] <= g[r]
  BY <1>4, <1>5 DEF AuctionPriority
<1>8. f[b] < g[b]
  BY <1>4 DEF IsFilled
<1> HIDE DEF all, T, f, g
<1>9. Total(f, all) = Total(f, T)
  <2>1. /\ \A r \in all : f[r] \in Int
        /\ \A r \in all \ T : f[r] = 0
    BY <1>4, <1>6
  <2>2. QED
    BY ONLY <1>2, <1>3, <2>1, TotalOutside
<1>10. Total(f, T) < Total(g, T)
  <2>1. \A r \in T : f[r] \in Int /\ g[r] \in Int /\ f[r] <= g[r]
    BY <1>3, <1>4, <1>7
  <2>2. QED
    BY ONLY <1>3, <1>8, <2>1, TotalStrict
<1>11. QED
  BY <1>2, <1>3, <1>9, <1>10

(* What the auction hands on to continuous trading is not crossed: if a buy   *)
(* and a sell were left over that accept one price, both sides would ask for *)
(* more at it than was executed, and the opening price would not have been   *)
(* one of the greatest volume (auction_engine.go:198-318).                  *)
THEOREM UncrossedAlways == Spec => []AuctionUncrossed
<1>1. ASSUME SumsInv, ListsInv
      PROVE  AuctionUncrossed
  <2>1. SUFFICES ASSUME Paired, NEW b \in ToSet(Leftover("buy")),
                        NEW a \in ToSet(Leftover("sell")),
                        ~ (order[b].price < order[a].price)
                 PROVE  FALSE
    BY DEF AuctionUncrossed
  <2>2. phase = "MATCH" /\ "buy" \in Sides /\ "sell" \in Sides
    BY <2>1 DEF Paired, Sides
  <2>3. /\ b \in ToSet(collected["buy"]) /\ ~ IsFilled(order[b])
        /\ a \in ToSet(collected["sell"]) /\ ~ IsFilled(order[a])
    BY <1>1, <2>1, <2>2, LeftoverOnce
  <2>4. ASSUME NEW s \in Sides, NEW r \in ToSet(collected[s])
        PROVE  order[r].side = s /\ order[r].price \in Prices
    <3>1. PICK i \in 1 .. Len(collected[s]) : r = collected[s][i]
      <4>1. collected[s] \in Seq(DOMAIN order)
        BY <1>1, <2>2 DEF SumsInv, IInv, TypeOK
      <4>2. r \in ToSet(collected[s])
        OBVIOUS
      <4>3. QED
        BY ONLY <4>1, <4>2 DEF ToSet
    <3>2. QED
      BY <1>1, <2>2, <3>1 DEF SumsInv, IInv, CollectedOK
  <2> DEFINE p == order[a].price
  <2>5. /\ p \in Prices /\ p \in Nat /\ order[b].price \in Nat
        /\ order[b].side = "buy" /\ order[a].side = "sell"
    BY <2>2, <2>3, <2>4
  <2>6. Accepts(order[b], p) /\ Accepts(order[a], p)
    BY <2>1, <2>5 DEF Accepts
  <2>7. volume < Demand("buy", p) /\ volume < Demand("sell", p)
    <3> HIDE DEF p
    <3>1. QED
      BY <1>1, <2>2, <2>3, <2>5, <2>6, MoreAsked
  <2>8. \E s \in Sides : volume >= Demand(s, p)
    BY <1>1, <2>1, <2>5, MaximalHolds DEF VolumeMaximal
  <2>9. TypeOK
    BY <1>1 DEF SumsInv, IInv
  <2>10. /\ volume \in Nat /\ Demand("buy", p) \in Nat /\ Demand("sell", p) \in Nat
    BY <2>2, <2>9, DemandTotal DEF TypeOK
  <2>11. QED
    BY <2>7, <2>8, <2>10 DEF Sides
<1>2. QED
  BY <1>1, SumsInvariant, ListsInvariant, PTL
=============================================================================
