------------------------ MODULE PriceLevelTreeProofs ------------------------
(***************************************************************************)
(* For every set of prices and both sides of the book: the level slice of  *)
(* PriceLevelTree stays in strict priority order, its index map agrees with *)
(* it, and the whole implements SortedPrices.                               *)
(*                                                                         *)
(* Sortedness is not inductive alone: an insertion keeps it only because   *)
(* the binary search has separated the slots before the new price from     *)
(* those after it (Window), and a removal only because the map names the   *)
(* slot of the price removed (MapAgrees).  IInv joins the three.            *)
(***************************************************************************)
EXTENDS PriceLevelTree, SequenceTheorems, TLAPS

\* What InsertAt returns, slot by slot.
LEMMA InsertAtSlots ==
    ASSUME NEW S, NEW s \in Seq(S), NEW k \in 1 .. Len(s) + 1, NEW e \in S
    PROVE  /\ InsertAt(s, k, e) \in Seq(S)
           /\ Len(InsertAt(s, k, e)) = Len(s) + 1
           /\ \A i \in 1 .. Len(s) + 1 :
                InsertAt(s, k, e)[i] =
                    IF i < k THEN s[i] ELSE IF i = k THEN e ELSE s[i - 1]
<1> DEFINE a == SubSeq(s, 1, k - 1)
           b == SubSeq(s, k, Len(s))
<1>1. /\ a \in Seq(S) /\ Len(a) = k - 1
      /\ \A i \in 1 .. k - 1 : a[i] = s[i]
  BY SubSeqProperties
<1>2. /\ b \in Seq(S) /\ Len(b) = Len(s) - k + 1
      /\ \A i \in 1 .. Len(s) - k + 1 : b[i] = s[k + i - 1]
  BY SubSeqProperties
<1>3. <<e>> \in Seq(S) /\ Len(<<e>>) = 1 /\ <<e>>[1] = e
  OBVIOUS
<1> HIDE DEF a, b
<1> DEFINE c == a \o <<e>>
<1>4. /\ c \in Seq(S) /\ Len(c) = k
      /\ \A i \in 1 .. k : c[i] = IF i < k THEN s[i] ELSE e
  BY <1>1, <1>3, ConcatProperties
<1> HIDE DEF c
<1>5. /\ c \o b \in Seq(S)
      /\ Len(c \o b) = Len(c) + Len(b)
      /\ \A i \in 1 .. Len(c) + Len(b) :
            (c \o b)[i] = IF i <= Len(c) THEN c[i] ELSE b[i - Len(c)]
  BY <1>2, <1>4, ConcatProperties
<1>6. InsertAt(s, k, e) = c \o b
  BY DEF InsertAt, a, b, c
<1>7. Len(c) + Len(b) = Len(s) + 1
  BY <1>2, <1>4
<1>8. ASSUME NEW i \in 1 .. Len(s) + 1
      PROVE  (c \o b)[i] = IF i < k THEN s[i] ELSE IF i = k THEN e ELSE s[i - 1]
  BY <1>2, <1>4, <1>5, <1>7
<1>9. QED
  BY <1>5, <1>6, <1>7, <1>8

\* What RemoveAt returns, slot by slot.
LEMMA RemoveAtSlots ==
    ASSUME NEW S, NEW s \in Seq(S), NEW k \in 1 .. Len(s)
    PROVE  /\ RemoveAt(s, k) \in Seq(S)
           /\ Len(RemoveAt(s, k)) = Len(s) - 1
           /\ \A i \in 1 .. Len(s) - 1 :
                RemoveAt(s, k)[i] = IF i < k THEN s[i] ELSE s[i + 1]
<1> DEFINE a == SubSeq(s, 1, k - 1)
           b == SubSeq(s, k + 1, Len(s))
<1>1. /\ a \in Seq(S) /\ Len(a) = k - 1
      /\ \A i \in 1 .. k - 1 : a[i] = s[i]
  BY SubSeqProperties
<1>2. /\ b \in Seq(S) /\ Len(b) = Len(s) - k
      /\ \A i \in 1 .. Len(s) - k : b[i] = s[k + i]
  BY SubSeqProperties
<1> HIDE DEF a, b
<1>3. /\ a \o b \in Seq(S)
      /\ Len(a \o b) = Len(a) + Len(b)
      /\ \A i \in 1 .. Len(a) + Len(b) :
            (a \o b)[i] = IF i <= Len(a) THEN a[i] ELSE b[i - Len(a)]
  BY <1>1, <1>2, ConcatProperties
<1>4. RemoveAt(s, k) = a \o b
  BY DEF RemoveAt, a, b
<1>5. Len(a) + Len(b) = Len(s) - 1
  BY <1>1, <1>2
<1>6. ASSUME NEW i \in 1 .. Len(s) - 1
      PROVE  (a \o b)[i] = IF i < k THEN s[i] ELSE s[i + 1]
  BY <1>1, <1>2, <1>3, <1>5
<1>7. QED
  BY <1>3, <1>4, <1>5, <1>6

\* The elements of a sequence are what its slots hold.
LEMMA ToSetSlots ==
    ASSUME NEW S, NEW s \in Seq(S), NEW e
    PROVE  e \in ToSet(s) <=> \E i \in 1 .. Len(s) : s[i] = e
BY DEF ToSet

\* The order of a side is a strict order on prices, total where it matters.
LEMMA BeforeOrder ==
    ASSUME NEW a \in Prices, NEW b \in Prices, NEW c \in Prices
    PROVE  /\ ~ Before(a, a)
           /\ Before(a, b) => ~ Before(b, a) /\ a # b
           /\ Before(a, b) /\ Before(b, c) => Before(a, c)
           /\ a = b \/ Before(a, b) \/ Before(b, a)
           /\ Abstract!Precedes(a, b) <=> Before(a, b)
BY PricesAssumption, DescendingAssumption DEF Before, Abstract!Precedes

\* rebuildPriceMap on a slice in strict order yields the inverse of the slice.
LEMMA RebuildAgrees ==
    ASSUME NEW ls \in Seq(Prices),
           \A i, j \in 1 .. Len(ls) : i < j => Before(ls[i], ls[j])
    PROVE  /\ DOMAIN RebuildPriceMap(ls) = ToSet(ls)
           /\ \A p \in ToSet(ls) :
                /\ RebuildPriceMap(ls)[p] \in 0 .. Len(ls) - 1
                /\ ls[RebuildPriceMap(ls)[p] + 1] = p
<1>1. ASSUME NEW p \in ToSet(ls)
      PROVE  \E i \in 0 .. Len(ls) - 1 :
                /\ ls[i + 1] = p
                /\ \A j \in i + 1 .. Len(ls) - 1 : ls[j + 1] # p
  <2>1. PICK k \in 1 .. Len(ls) : ls[k] = p
    BY <1>1, ToSetSlots
  <2>2. \A j \in k .. Len(ls) - 1 : ls[j + 1] # p
    <3>1. TAKE j \in k .. Len(ls) - 1
    <3>2. Before(ls[k], ls[j + 1])
      BY <3>1
    <3>3. ls[k] \in Prices /\ ls[j + 1] \in Prices
      BY <3>1
    <3>4. QED
      BY <2>1, <3>2, <3>3, BeforeOrder
  <2>3. /\ k - 1 \in 0 .. Len(ls) - 1
        /\ ls[(k - 1) + 1] = p
        /\ \A j \in (k - 1) + 1 .. Len(ls) - 1 : ls[j + 1] # p
    BY <2>1, <2>2
  <2>4. QED
    BY <2>3
<1>2. QED
  BY <1>1 DEF RebuildPriceMap

-----------------------------------------------------------------------------

LEMMA InitIInv == Init => IInv
<1>1. ASSUME Init PROVE IInv
  <2>1. levels \in Seq(Prices) /\ Len(levels) = 0 /\ ToSet(levels) = {}
    BY <1>1 DEF Init, ToSet
  <2>2. TypeOK /\ Sorted /\ Window
    BY <1>1, <2>1 DEF Init, TypeOK, Sorted, Window
  <2>3. MapAgrees
    BY <1>1, <2>1 DEF Init, MapAgrees, RebuildPriceMap
  <2>4. QED
    BY <2>2, <2>3 DEF IInv
<1>2. QED
  BY <1>1

\* The insertion itself: the slots below `left` come before the new price,
\* the others after it, so the longer slice is in strict order again.
LEMMA FinishInsertKeepsOrder ==
    ASSUME IInv, FinishInsert
    PROVE  /\ levels' \in Seq(Prices)
           /\ Sorted'
           /\ ToSet(levels') = ToSet(levels) \cup {price}
<1> USE DEF IInv
<1> DEFINE k == left + 1
<1>1. /\ levels \in Seq(Prices) /\ price \in Prices
      /\ k \in 1 .. Len(levels) + 1 /\ left = right
      /\ levels' = InsertAt(levels, k, price)
  BY DEF TypeOK, FinishInsert, Window
<1> HIDE DEF k
<1>2. /\ levels' \in Seq(Prices)
      /\ Len(levels') = Len(levels) + 1
      /\ \A i \in 1 .. Len(levels) + 1 :
            levels'[i] = IF i < k THEN levels[i]
                         ELSE IF i = k THEN price ELSE levels[i - 1]
  <2>1. /\ InsertAt(levels, k, price) \in Seq(Prices)
        /\ Len(InsertAt(levels, k, price)) = Len(levels) + 1
        /\ \A i \in 1 .. Len(levels) + 1 :
              InsertAt(levels, k, price)[i] =
                  IF i < k THEN levels[i]
                  ELSE IF i = k THEN price ELSE levels[i - 1]
    <3>1. levels \in Seq(Prices) /\ k \in 1 .. Len(levels) + 1 /\ price \in Prices
      BY <1>1
    <3>2. QED
      BY ONLY <3>1, InsertAtSlots
  <2>2. QED
    BY <1>1, <2>1
<1>3. /\ \A i \in 1 .. k - 1 : Before(levels[i], price)
      /\ \A i \in k .. Len(levels) : Before(price, levels[i])
  BY <1>1 DEF Window, FinishInsert, TypeOK, k
<1>4. \A i, j \in 1 .. Len(levels) : i < j => Before(levels[i], levels[j])
  <2>1. ASSUME NEW i \in 1 .. Len(levels), NEW j \in 1 .. Len(levels), i < j
        PROVE  Before(levels[i], levels[j])
    <3>1. levels[i] \in Prices /\ levels[j] \in Prices
      BY <1>1
    <3>2. QED
      BY <2>1, <3>1, BeforeOrder DEF Sorted
  <2>2. QED
    BY <2>1
<1>5. ASSUME NEW i \in 1 .. Len(levels'), NEW j \in 1 .. Len(levels'), i < j
      PROVE  Before(levels'[i], levels'[j])
  <2>1. CASE j < k
    BY <1>1, <1>2, <1>4, <1>5, <2>1
  <2>2. CASE j = k
    <3>1. levels'[i] = levels[i] /\ levels'[j] = price /\ i \in 1 .. k - 1
      BY <1>1, <1>2, <1>5, <2>2
    <3>2. QED
      BY <1>3, <3>1
  <2>3. CASE j > k /\ i < k
    <3>1. levels'[i] = levels[i] /\ levels'[j] = levels[j - 1]
      BY <1>1, <1>2, <1>5, <2>3
    <3>2. i \in 1 .. Len(levels) /\ j - 1 \in 1 .. Len(levels) /\ i < j - 1
      BY <1>1, <1>2, <1>5, <2>3
    <3>3. QED
      BY <1>4, <3>1, <3>2
  <2>4. CASE j > k /\ i = k
    <3>1. levels'[i] = price /\ levels'[j] = levels[j - 1]
      BY <1>1, <1>2, <1>5, <2>4
    <3>2. j - 1 \in k .. Len(levels)
      BY <1>1, <1>2, <1>5, <2>4
    <3>3. QED
      BY <1>3, <3>1, <3>2
  <2>5. CASE j > k /\ i > k
    <3>1. levels'[i] = levels[i - 1] /\ levels'[j] = levels[j - 1]
      BY <1>1, <1>2, <1>5, <2>5
    <3>2. i - 1 \in 1 .. Len(levels) /\ j - 1 \in 1 .. Len(levels) /\ i - 1 < j - 1
      BY <1>1, <1>2, <1>5, <2>5
    <3>3. QED
      BY <1>4, <3>1, <3>2
  <2>6. QED
    BY <1>1, <1>2, <2>1, <2>2, <2>3, <2>4, <2>5
<1>6. Sorted'
  <2>1. ASSUME NEW i \in 1 .. Len(levels'), NEW j \in 1 .. Len(levels'), i < j
        PROVE  Abstract!Precedes(levels'[i], levels'[j])
    <3>1. levels'[i] \in Prices /\ levels'[j] \in Prices
      BY <1>2
    <3>2. QED
      BY <1>5, <2>1, <3>1, BeforeOrder
  <2>2. QED
    BY <2>1 DEF Sorted, Abstract!Precedes
<1>7. ToSet(levels') = ToSet(levels) \cup {price}
  <2>1. ASSUME NEW e \in ToSet(levels') PROVE e \in ToSet(levels) \cup {price}
    <3>1. PICK i \in 1 .. Len(levels') : levels'[i] = e
      BY <1>2, <2>1, ToSetSlots
    <3>2. e = price \/ \E n \in 1 .. Len(levels) : levels[n] = e
      BY <1>1, <1>2, <3>1
    <3>3. QED
      BY <1>1, <3>2, ToSetSlots
  <2>2. price \in ToSet(levels')
    BY <1>1, <1>2, ToSetSlots
  <2>3. ASSUME NEW e \in ToSet(levels) PROVE e \in ToSet(levels')
    <3>1. PICK i \in 1 .. Len(levels) : levels[i] = e
      BY <1>1, <2>3, ToSetSlots
    <3>2. levels'[IF i < k THEN i ELSE i + 1] = e
      BY <1>1, <1>2, <3>1
    <3>3. (IF i < k THEN i ELSE i + 1) \in 1 .. Len(levels')
      BY <1>2
    <3>4. QED
      BY <1>2, <3>2, <3>3, ToSetSlots
  <2>4. QED
    BY <2>1, <2>2, <2>3
<1>8. QED
  BY <1>2, <1>6, <1>7

\* A removal cuts exactly the slot of the price it was asked to remove.
LEMMA RemoveKeepsOrder ==
    ASSUME IInv, NEW p \in Prices, RemoveLevel(p)
    PROVE  /\ levels' \in Seq(Prices)
           /\ Sorted'
           /\ ToSet(levels') = ToSet(levels) \ {p}
<1> DEFINE k == priceMap[p] + 1
<1>1. /\ levels \in Seq(Prices) /\ p \in ToSet(levels)
      /\ k \in 1 .. Len(levels) /\ levels[k] = p
      /\ levels' = RemoveAt(levels, k)
  BY DEF IInv, TypeOK, MapAgrees, RemoveLevel
<1> HIDE DEF k
<1>2. /\ levels' \in Seq(Prices)
      /\ Len(levels') = Len(levels) - 1
      /\ \A i \in 1 .. Len(levels) - 1 :
            levels'[i] = IF i < k THEN levels[i] ELSE levels[i + 1]
  BY <1>1, RemoveAtSlots
<1>3. \A i, j \in 1 .. Len(levels) :
        i < j => Abstract!Precedes(levels[i], levels[j])
  BY DEF IInv, Sorted
<1>4. ASSUME NEW i \in 1 .. Len(levels'), NEW j \in 1 .. Len(levels'), i < j
      PROVE  Abstract!Precedes(levels'[i], levels'[j])
  <2> DEFINE f == IF i < k THEN i ELSE i + 1
             g == IF j < k THEN j ELSE j + 1
  <2>1. levels'[i] = levels[f] /\ levels'[j] = levels[g]
    BY <1>1, <1>2, <1>4
  <2>2. f \in 1 .. Len(levels) /\ g \in 1 .. Len(levels) /\ f < g
    BY <1>1, <1>2, <1>4
  <2> HIDE DEF f, g
  <2>3. QED
    BY <1>3, <2>1, <2>2
<1>5. Sorted'
  BY <1>4 DEF Sorted, Abstract!Precedes
<1>6. ASSUME NEW i \in 1 .. Len(levels), i # k PROVE levels[i] # p
  <2>1. levels[i] \in Prices /\ levels[k] \in Prices
    BY <1>1
  <2>2. Before(levels[i], levels[k]) \/ Before(levels[k], levels[i])
    BY <1>1, <1>3, <1>6, <2>1, BeforeOrder
  <2>3. QED
    BY <1>1, <2>1, <2>2, BeforeOrder
<1>7. ToSet(levels') = ToSet(levels) \ {p}
  <2>1. ASSUME NEW e \in ToSet(levels') PROVE e \in ToSet(levels) \ {p}
    <3>1. PICK i \in 1 .. Len(levels') : levels'[i] = e
      BY <1>2, <2>1, ToSetSlots
    <3>2. \E j \in 1 .. Len(levels) : j # k /\ levels[j] = e
      BY <1>1, <1>2, <3>1
    <3>3. QED
      BY <1>1, <1>6, <3>2, ToSetSlots
  <2>2. ASSUME NEW e \in ToSet(levels) \ {p} PROVE e \in ToSet(levels')
    <3>1. PICK i \in 1 .. Len(levels) : levels[i] = e
      BY <1>1, <2>2, ToSetSlots
    <3>2. i # k
      BY <1>1, <2>2, <3>1
    <3>3. levels'[IF i < k THEN i ELSE i - 1] = e
      BY <1>1, <1>2, <3>1, <3>2
    <3>4. (IF i < k THEN i ELSE i - 1) \in 1 .. Len(levels')
      BY <1>1, <1>2, <3>2
    <3>5. QED
      BY <1>2, <3>3, <3>4, ToSetSlots
  <2>3. QED
    BY <2>1, <2>2
<1>8. QED
  BY <1>2, <1>5, <1>7

\* After a reindex of a slice in order, map and slice agree.
LEMMA ReindexAgrees ==
    ASSUME levels' \in Seq(Prices), Sorted', priceMap' = RebuildPriceMap(levels')
    PROVE  MapAgrees'
<1>1. ASSUME NEW i \in 1 .. Len(levels'), NEW j \in 1 .. Len(levels'), i < j
      PROVE  Before(levels'[i], levels'[j])
  <2>1. levels'[i] \in Prices /\ levels'[j] \in Prices
    OBVIOUS
  <2>2. Abstract!Precedes(levels'[i], levels'[j])
    BY <1>1 DEF Sorted, Abstract!Precedes
  <2>3. QED
    BY <2>1, <2>2, BeforeOrder
<1>2. QED
  BY <1>1, RebuildAgrees DEF MapAgrees

LEMMA NextIInv == IInv /\ [Next]_vars => IInv'
<1> SUFFICES ASSUME IInv, [Next]_vars PROVE IInv'
  OBVIOUS
<1>1. ASSUME NEW p \in Prices, StartInsert(p) PROVE IInv'
  <2>1. p \notin ToSet(levels)
    BY <1>1 DEF StartInsert, IInv, MapAgrees
  <2>2. QED
    BY <1>1, <2>1 DEF StartInsert, IInv, TypeOK, Sorted, MapAgrees, Window,
                      Abstract!Precedes
<1>2. ASSUME NEW p \in Prices, RemoveLevel(p) PROVE IInv'
  <2>1. levels' \in Seq(Prices) /\ Sorted'
    BY <1>2, RemoveKeepsOrder
  <2>2. MapAgrees'
    BY <1>2, <2>1, ReindexAgrees DEF RemoveLevel
  <2>3. TypeOK' /\ Window'
    BY <1>2, <2>1 DEF RemoveLevel, IInv, TypeOK, Window
  <2>4. QED
    BY <2>1, <2>2, <2>3 DEF IInv
<1>3. CASE SearchStep
  <2> DEFINE mid == (left + right) \div 2
  <2>1. /\ levels \in Seq(Prices) /\ price \in Prices
        /\ left \in Nat /\ right \in Nat /\ right <= Len(levels)
        /\ left < right /\ mid \in left .. right - 1
        /\ levels[mid + 1] \in Prices
    BY <1>3 DEF IInv, TypeOK, SearchStep
  <2>2. /\ price \notin ToSet(levels)
        /\ \A i \in 1 .. left : Before(levels[i], price)
        /\ \A i \in right + 1 .. Len(levels) : Before(price, levels[i])
    BY <1>3 DEF IInv, Window, SearchStep
  <2>3. price # levels[mid + 1]
    BY <2>1, <2>2, ToSetSlots
  <2> HIDE DEF mid
  <2>4. ASSUME NEW i \in 1 .. Len(levels), NEW j \in 1 .. Len(levels), i < j
        PROVE  Before(levels[i], levels[j])
    <3>1. levels[i] \in Prices /\ levels[j] \in Prices
      BY <2>1
    <3>2. QED
      BY <2>4, <3>1, BeforeOrder DEF IInv, Sorted
  <2>5. CASE Before(price, levels[mid + 1])
    <3>1. right' = mid /\ left' = left
      BY <1>3, <2>5 DEF SearchStep, mid
    <3>2. ASSUME NEW i \in mid + 1 .. Len(levels)
          PROVE  Before(price, levels[i])
      <4>1. levels[i] \in Prices
        BY <2>1
      <4>2. i = mid + 1 \/ Before(levels[mid + 1], levels[i])
        BY <2>1, <2>4
      <4>3. QED
        BY <2>1, <2>5, <4>1, <4>2, BeforeOrder
    <3>3. QED
      BY <1>3, <2>1, <2>2, <3>1, <3>2
         DEF SearchStep, IInv, TypeOK, Sorted, MapAgrees, Window,
             Abstract!Precedes
  <2>6. CASE ~ Before(price, levels[mid + 1])
    <3>1. left' = mid + 1 /\ right' = right
      BY <1>3, <2>6 DEF SearchStep, mid
    <3>2. Before(levels[mid + 1], price)
      BY <2>1, <2>3, <2>6, BeforeOrder
    <3>3. ASSUME NEW i \in 1 .. mid + 1
          PROVE  Before(levels[i], price)
      <4>1. levels[i] \in Prices
        BY <2>1
      <4>2. i = mid + 1 \/ Before(levels[i], levels[mid + 1])
        BY <2>1, <2>4
      <4>3. QED
        BY <2>1, <3>2, <4>1, <4>2, BeforeOrder
    <3>4. QED
      BY <1>3, <2>1, <2>2, <3>1, <3>3
         DEF SearchStep, IInv, TypeOK, Sorted, MapAgrees, Window,
             Abstract!Precedes
  <2>7. QED
    BY <2>5, <2>6
<1>4. CASE FinishInsert
  <2>1. levels' \in Seq(Prices) /\ Sorted'
    BY <1>4, FinishInsertKeepsOrder
  <2>2. MapAgrees'
    BY <1>4, <2>1, ReindexAgrees DEF FinishInsert
  <2>3. TypeOK' /\ Window'
    BY <1>4, <2>1 DEF FinishInsert, IInv, TypeOK, Window
  <2>4. QED
    BY <2>1, <2>2, <2>3 DEF IInv
<1>5. CASE Clear
  <2>1. levels' \in Seq(Prices) /\ Len(levels') = 0 /\ Sorted'
    BY <1>5 DEF Clear, Sorted
  <2>2. MapAgrees'
    BY <1>5, <2>1, ReindexAgrees DEF Clear
  <2>3. TypeOK' /\ Window'
    <3>1. left = 0 /\ right = 0
      BY <1>5 DEF Clear, IInv, Window
    <3>2. QED
      BY <1>5, <2>1, <3>1 DEF Clear, IInv, TypeOK, Window
  <2>4. QED
    BY <2>1, <2>2, <2>3 DEF IInv
<1>6. CASE UNCHANGED vars
  BY <1>6 DEF vars, IInv, TypeOK, Sorted, MapAgrees, Window, Abstract!Precedes
<1>7. QED
  BY <1>1, <1>2, <1>3, <1>4, <1>5, <1>6 DEF Next

\* The inductive invariant holds of every behaviour of the tree.
THEOREM TreeInvariant == Spec => []IInv
BY InitIInv, NextIInv, PTL DEF Spec

\* Types: the slice holds prices, the window lies inside the slice.
THEOREM TypeCorrect == Spec => []TypeOK
<1>1. IInv => TypeOK
  BY DEF IInv
<1>2. QED
  BY <1>1, TreeInvariant, PTL

\* The slice is in strict priority order after any sequence of operations
\* (pricetree.go: insert, Remove, Clear), so slot 0 is the best price.
THEOREM SortedAlways == Spec => []Sorted
<1>1. IInv => Sorted
  BY DEF IInv
<1>2. QED
  BY <1>1, TreeInvariant, PTL

\* Get and Remove find the level of the price they are asked for.
THEOREM MapAgreesAlways == Spec => []MapAgrees
<1>1. IInv => MapAgrees
  BY DEF IInv
<1>2. QED
  BY <1>1, TreeInvariant, PTL

-----------------------------------------------------------------------------

\* In a slice in strict order the first slot is the extremal price.
LEMMA FirstIsBest ==
    ASSUME NEW ls \in Seq(Prices),
           \A i, j \in 1 .. Len(ls) : i < j => Abstract!Precedes(ls[i], ls[j])
    PROVE  (IF ls = <<>> THEN {} ELSE {ls[1]}) = Abstract!BestOf(ToSet(ls))
<1>1. CASE ls = <<>>
  BY <1>1 DEF ToSet, Abstract!BestOf
<1>2. CASE ls # <<>>
  <2>1. 1 \in 1 .. Len(ls) /\ ls[1] \in Prices /\ ls[1] \in ToSet(ls)
    BY <1>2, EmptySeq, ToSetSlots
  <2>2. ASSUME NEW q \in ToSet(ls) \ {ls[1]} PROVE Abstract!Precedes(ls[1], q)
    <3>1. PICK i \in 1 .. Len(ls) : ls[i] = q
      BY <2>2, ToSetSlots
    <3>2. 1 < i
      BY <2>2, <3>1
    <3>3. QED
      BY <2>1, <3>1, <3>2
  <2>3. ls[1] \in Abstract!BestOf(ToSet(ls))
    BY <2>1, <2>2 DEF Abstract!BestOf
  <2>4. ASSUME NEW p \in Abstract!BestOf(ToSet(ls)) PROVE p = ls[1]
    <3>1. p \in ToSet(ls) /\ \A q \in ToSet(ls) \ {p} : Abstract!Precedes(p, q)
      BY <2>4 DEF Abstract!BestOf
    <3>2. p \in Prices
      BY <3>1, ToSetSlots
    <3>3. p = ls[1] \/ (Abstract!Precedes(p, ls[1]) /\ Abstract!Precedes(ls[1], p))
      BY <2>1, <2>2, <3>1
    <3>4. QED
      BY <2>1, <3>2, <3>3, BeforeOrder
  <2>5. QED
    BY <1>2, <2>3, <2>4
<1>3. QED
  BY <1>1, <1>2

\* Every step of the tree is a step of SortedPrices, or leaves it alone.
LEMMA StepImplements ==
    IInv /\ IInv' /\ [Next]_vars => [Abstract!AbsNext]_(Abstract!absVars)
<1> SUFFICES ASSUME IInv, IInv', [Next]_vars
             PROVE  [Abstract!AbsNext]_(Abstract!absVars)
  OBVIOUS
<1> DEFINE bestNow == IF levels = <<>> THEN {} ELSE {levels[1]}
<1>1. bestNow' = Abstract!BestOf(ToSet(levels'))
  <2>1. /\ levels' \in Seq(Prices)
        /\ \A i, j \in 1 .. Len(levels') :
              i < j => Abstract!Precedes(levels'[i], levels'[j])
    BY DEF IInv, TypeOK, Sorted, Abstract!Precedes
  <2>2. (IF levels' = <<>> THEN {} ELSE {levels'[1]})
            = Abstract!BestOf(ToSet(levels'))
    BY ONLY <2>1, FirstIsBest
  <2>3. QED
    BY <2>2
<1>2. ASSUME NEW p \in Prices, RemoveLevel(p) PROVE Abstract!Close(p)
  <2>1. p \in ToSet(levels)
    BY <1>2 DEF RemoveLevel, IInv, MapAgrees
  <2>2. ToSet(levels') = ToSet(levels) \ {p}
    BY <1>2, RemoveKeepsOrder
  <2>3. QED
    BY <1>1, <2>1, <2>2 DEF Abstract!Close
<1>3. CASE FinishInsert
  <2>1. price \in Prices /\ price \notin ToSet(levels)
    BY <1>3 DEF FinishInsert, IInv, TypeOK, Window
  <2>2. ToSet(levels') = ToSet(levels) \cup {price}
    BY <1>3, FinishInsertKeepsOrder
  <2>3. Abstract!Open(price)
    BY <1>1, <2>1, <2>2 DEF Abstract!Open
  <2>4. QED
    BY <2>1, <2>3 DEF Abstract!AbsNext
<1>4. CASE Clear
  BY <1>4 DEF Clear, ToSet, Abstract!AbsNext, Abstract!Empty
<1>5. ASSUME UNCHANGED levels PROVE UNCHANGED Abstract!absVars
  BY <1>5 DEF Abstract!absVars
<1>6. QED
  BY <1>2, <1>3, <1>4, <1>5
     DEF Next, StartInsert, SearchStep, vars, Abstract!AbsNext

\* A caller cannot tell the searched slice from a plain set of prices whose
\* Best is the highest (bids) or the lowest (asks) of them.
THEOREM Implements == Spec => ImplementsSortedPrices
<1>1. Init => Abstract!AbsInit
  BY DEF Init, Abstract!AbsInit, ToSet
<1>2. QED
  BY <1>1, StepImplements, TreeInvariant, PTL
     DEF Spec, ImplementsSortedPrices, Abstract!AbsSpec
=============================================================================
