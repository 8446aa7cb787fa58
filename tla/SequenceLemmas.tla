--------------------------- MODULE SequenceLemmas ---------------------------
(***************************************************************************)
(* Facts about sequences and finite sets that the proofs of several modules *)
(* use: extremes exist, RemoveFirst takes nothing but one element away,     *)
(* what keeps a line of elements in order, and what a sum over a finite set *)
(* of numbers is.                                                           *)
(*                                                                         *)
(* The sums of the models are folds.  Induction over naturals and finite    *)
(* sets is stated with a set in place of a predicate (FromZero, FromEmpty), *)
(* and by it there is a function with the equations of a sum (SumsExist),   *)
(* only one (SumsAgree), and the fold is it (SumIsTotal).                   *)
(***************************************************************************)
EXTENDS Integers, SequencesExt, FiniteSetsExt, SequenceTheorems,
        FiniteSetTheorems, WellFoundedInduction, TLAPS

(* A finite set of numbers has a greatest one.                              *)
LEMMA GreatestExists ==
    ASSUME NEW D \in SUBSET Nat, IsFiniteSet(D), D # {}
    PROVE  /\ \E p \in D : \A q \in D : q <= p
           /\ Max(D) \in D
           /\ \A q \in D : q <= Max(D)
<1> DEFINE Up(p) == {q \in D : q >= p}
           T == {Up(p) : p \in D}
           R == StrictSubsetOrdering(D)
<1>1. IsWellFoundedOn(R, FiniteSubsetsOf(D))
  BY FS_StrictSubsetOrderingWellFounded
<1>2. T \subseteq FiniteSubsetsOf(D)
  BY FS_FiniteSubsetsOfFinite
<1>3. T # {}
  <2>1. PICK p \in D : TRUE
    OBVIOUS
  <2>2. Up(p) \in T
    BY <2>1
  <2>3. QED
    BY <2>2
<1> HIDE DEF T, R
<1>4. PICK x \in T : \A y \in T : ~ (<<y, x>> \in R)
  BY ONLY <1>1, <1>2, <1>3, WFMin
<1>5. PICK p \in D : x = Up(p)
  BY <1>4 DEF T
<1>6. ASSUME NEW q \in D, ~ (q <= p)
      PROVE  FALSE
  <2>1. p \in Nat /\ q \in Nat
    OBVIOUS
  <2>2. p \notin Up(q) /\ p \in Up(p) /\ Up(q) \subseteq Up(p)
    <3>1. p \notin Up(q) /\ p \in Up(p)
      BY <1>6, <2>1
    <3>2. ASSUME NEW z \in Up(q)
          PROVE  z \in Up(p)
      <4>1. z \in D /\ z \in Nat /\ z >= q
        OBVIOUS
      <4>2. z >= p
        BY <1>6, <2>1, <4>1
      <4>3. QED
        BY <4>1, <4>2
    <3>3. QED
      BY <3>1, <3>2
  <2>3. <<Up(q), Up(p)>> \in R
    BY <2>2 DEF R, StrictSubsetOrdering
  <2>4. Up(q) \in T
    BY DEF T
  <2>5. QED
    BY <1>4, <1>5, <2>3, <2>4
<1>7. \E m \in D : \A q \in D : q <= m
  BY <1>6
<1>8. Max(D) \in D /\ \A q \in D : q <= Max(D)
  BY <1>7 DEF Max
<1>9. QED
  BY <1>7, <1>8

(* And a least one.                                                         *)
LEMMA LeastExists ==
    ASSUME NEW D \in SUBSET Nat, IsFiniteSet(D), D # {}
    PROVE  /\ \E p \in D : \A q \in D : p <= q
           /\ Min(D) \in D
           /\ \A q \in D : Min(D) <= q
<1> DEFINE Down(p) == {q \in D : q <= p}
           T == {Down(p) : p \in D}
           R == StrictSubsetOrdering(D)
<1>1. IsWellFoundedOn(R, FiniteSubsetsOf(D))
  BY FS_StrictSubsetOrderingWellFounded
<1>2. T \subseteq FiniteSubsetsOf(D)
  BY FS_FiniteSubsetsOfFinite
<1>3. T # {}
  <2>1. PICK p \in D : TRUE
    OBVIOUS
  <2>2. Down(p) \in T
    BY <2>1
  <2>3. QED
    BY <2>2
<1> HIDE DEF T, R
<1>4. PICK x \in T : \A y \in T : ~ (<<y, x>> \in R)
  BY ONLY <1>1, <1>2, <1>3, WFMin
<1>5. PICK p \in D : x = Down(p)
  BY <1>4 DEF T
<1>6. ASSUME NEW q \in D, ~ (p <= q)
      PROVE  FALSE
  <2>1. p \in Nat /\ q \in Nat
    OBVIOUS
  <2>2. p \notin Down(q) /\ p \in Down(p) /\ Down(q) \subseteq Down(p)
    <3>1. p \notin Down(q) /\ p \in Down(p)
      BY <1>6, <2>1
    <3>2. ASSUME NEW z \in Down(q)
          PROVE  z \in Down(p)
      <4>1. z \in D /\ z \in Nat /\ z <= q
        OBVIOUS
      <4>2. z <= p
        BY <1>6, <2>1, <4>1
      <4>3. QED
        BY <4>1, <4>2
    <3>3. QED
      BY <3>1, <3>2
  <2>3. <<Down(q), Down(p)>> \in R
    BY <2>2 DEF R, StrictSubsetOrdering
  <2>4. Down(q) \in T
    BY DEF T
  <2>5. QED
    BY <1>4, <1>5, <2>3, <2>4
<1>7. \E m \in D : \A q \in D : m <= q
  BY <1>6
<1>8. Min(D) \in D /\ \A q \in D : Min(D) <= q
  BY <1>7 DEF Min
<1>9. QED
  BY <1>7, <1>8

(* Taking an element out of a sequence leaves a sequence over the same set. *)
LEMMA RemoveFirstType ==
    ASSUME NEW S, NEW s \in Seq(S), NEW e
    PROVE  RemoveFirst(s, e) \in Seq(S)
<1> DEFINE I == {i \in 1 .. Len(s) : s[i] = e}
<1>1. CASE I = {}
  BY <1>1 DEF RemoveFirst
<1>2. CASE I # {}
  <2>1. I \in SUBSET Nat
    OBVIOUS
  <2>2. IsFiniteSet(I)
    <3>1. Len(s) \in Nat /\ 1 \in Int
      OBVIOUS
    <3>2. IsFiniteSet(1 .. Len(s))
      BY <3>1, FS_Interval
    <3>3. QED
      BY <3>2, FS_Subset
  <2>3. Min(I) \in I
    BY <1>2, <2>1, <2>2, LeastExists
  <2> DEFINE k == SelectInSeq(s, LAMBDA v : v = e)
  <2>4. k = Min(I)
    BY <1>2 DEF SelectInSeq
  <2>5. k \in 1 .. Len(s)
    BY <2>3, <2>4
  <2>6. RemoveFirst(s, e) = SubSeq(s, 1, k - 1) \o SubSeq(s, k + 1, Len(s))
    BY <1>2 DEF RemoveFirst, RemoveAt
  <2> HIDE DEF k
  <2>7. SubSeq(s, 1, k - 1) \in Seq(S) /\ SubSeq(s, k + 1, Len(s)) \in Seq(S)
    BY <2>5, SubSeqProperties
  <2>8. QED
    BY <2>6, <2>7, ConcatProperties
<1>3. QED
  BY <1>1, <1>2

(* Taking an element out of a sequence closes the gap at its first place.   *)
LEMMA RemoveFirstParts ==
    ASSUME NEW S, NEW s \in Seq(S), NEW e, \E i \in 1 .. Len(s) : s[i] = e
    PROVE  LET t == RemoveFirst(s, e)
           IN  /\ t \in Seq(S) /\ Len(t) = Len(s) - 1
               /\ \E k \in 1 .. Len(s) :
                     /\ s[k] = e
                     /\ \A i \in 1 .. Len(t) :
                           t[i] = IF i < k THEN s[i] ELSE s[i + 1]
<1> DEFINE I == {i \in 1 .. Len(s) : s[i] = e}
           k == SelectInSeq(s, LAMBDA v : v = e)
<1>1. I # {} /\ I \in SUBSET Nat
  OBVIOUS
<1>2. IsFiniteSet(I)
  <2>1. Len(s) \in Nat /\ 1 \in Int
    OBVIOUS
  <2>2. IsFiniteSet(1 .. Len(s))
    BY <2>1, FS_Interval
  <2>3. QED
    BY <2>2, FS_Subset
<1>3. k = Min(I)
  BY <1>1 DEF SelectInSeq
<1>4. Min(I) \in I
  BY <1>1, <1>2, LeastExists
<1>5. k \in 1 .. Len(s) /\ s[k] = e
  BY <1>3, <1>4
<1> DEFINE t == SubSeq(s, 1, k - 1) \o SubSeq(s, k + 1, Len(s))
<1>6. RemoveFirst(s, e) = t
  BY DEF RemoveFirst, RemoveAt
<1> HIDE DEF k
<1> DEFINE a == SubSeq(s, 1, k - 1)
           b == SubSeq(s, k + 1, Len(s))
<1>7. /\ a \in Seq(S) /\ Len(a) = k - 1
      /\ \A i \in 1 .. k - 1 : a[i] = s[i]
  BY <1>5, SubSeqProperties
<1>8. /\ b \in Seq(S) /\ Len(b) = Len(s) - k
      /\ \A i \in 1 .. Len(s) - k : b[i] = s[k + i]
  BY <1>5, SubSeqProperties
<1> HIDE DEF a, b
<1>9. /\ a \o b \in Seq(S) /\ Len(a \o b) = Len(s) - 1
      /\ \A i \in 1 .. Len(s) - 1 :
            (a \o b)[i] = IF i <= Len(a) THEN a[i] ELSE b[i - Len(a)]
  <2>1. Len(a) + Len(b) = Len(s) - 1
    BY <1>5, <1>7, <1>8
  <2>2. /\ a \o b \in Seq(S) /\ Len(a \o b) = Len(a) + Len(b)
        /\ \A i \in 1 .. Len(a) + Len(b) :
              (a \o b)[i] = IF i <= Len(a) THEN a[i] ELSE b[i - Len(a)]
    BY ONLY <1>7, <1>8, ConcatProperties
  <2>3. QED
    BY ONLY <2>1, <2>2
<1>10. ASSUME NEW i \in 1 .. Len(s) - 1
       PROVE  (a \o b)[i] = IF i < k THEN s[i] ELSE s[i + 1]
  <2>1. CASE i < k
    <3>1. i <= Len(a) /\ i \in 1 .. k - 1
      BY <1>5, <1>7, <2>1
    <3>2. QED
      BY <1>7, <1>9, <2>1, <3>1
  <2>2. CASE ~ (i < k)
    <3>1. /\ ~ (i <= Len(a)) /\ i - Len(a) \in 1 .. Len(s) - k
          /\ k + (i - Len(a)) = i + 1
      BY <1>5, <1>7, <2>2
    <3>2. (a \o b)[i] = b[i - Len(a)]
      BY <1>9, <3>1
    <3>3. b[i - Len(a)] = s[i + 1]
      BY <1>8, <3>1
    <3>4. QED
      BY <2>2, <3>2, <3>3
  <2>3. QED
    BY <2>1, <2>2
<1>11. QED
  BY <1>5, <1>6, <1>9, <1>10 DEF a, b

Increasing(s) == \A i, j \in DOMAIN s : i < j => s[i] < s[j]

(* Out of an increasing sequence the element is gone, and nothing else.      *)
LEMMA RemoveFirstIncreasing ==
    ASSUME NEW s \in Seq(Nat), Increasing(s), NEW e \in ToSet(s)
    PROVE  /\ Increasing(RemoveFirst(s, e))
           /\ ToSet(RemoveFirst(s, e)) = ToSet(s) \ {e}
<1> DEFINE t == RemoveFirst(s, e)
<1>1. \E i \in 1 .. Len(s) : s[i] = e
  BY DEF ToSet
<1>2. /\ t \in Seq(Nat) /\ Len(t) = Len(s) - 1
      /\ \E k \in 1 .. Len(s) :
            /\ s[k] = e
            /\ \A i \in 1 .. Len(t) : t[i] = IF i < k THEN s[i] ELSE s[i + 1]
  <2> DEFINE S == Nat
  <2>1. s \in Seq(S)
    OBVIOUS
  <2> HIDE DEF S
  <2>2. /\ t \in Seq(S) /\ Len(t) = Len(s) - 1
        /\ \E k \in 1 .. Len(s) :
              /\ s[k] = e
              /\ \A i \in 1 .. Len(t) : t[i] = IF i < k THEN s[i] ELSE s[i + 1]
    BY ONLY <1>1, <2>1, RemoveFirstParts
  <2>3. QED
    BY <2>2 DEF S
<1> HIDE DEF t
<1>3. PICK k \in 1 .. Len(s) :
         /\ s[k] = e
         /\ \A i \in 1 .. Len(t) : t[i] = IF i < k THEN s[i] ELSE s[i + 1]
  BY <1>2
<1>4. DOMAIN t = 1 .. Len(s) - 1 /\ DOMAIN s = 1 .. Len(s) /\ Len(s) \in Nat
  BY <1>2
<1>5. Increasing(t)
  <2>1. ASSUME NEW i \in DOMAIN t, NEW j \in DOMAIN t, i < j PROVE t[i] < t[j]
    <3> DEFINE m == IF i < k THEN i ELSE i + 1
               n == IF j < k THEN j ELSE j + 1
    <3>1. m \in DOMAIN s /\ n \in DOMAIN s /\ m < n
      <4>1. i \in 1 .. Len(s) - 1 /\ j \in 1 .. Len(s) - 1 /\ k \in Nat
        BY <1>4
      <4>2. CASE i < k
        BY <1>4, <2>1, <4>1, <4>2
      <4>3. CASE ~ (i < k)
        BY <1>4, <2>1, <4>1, <4>3
      <4>4. QED
        BY <4>2, <4>3
    <3>2. t[i] = s[m] /\ t[j] = s[n]
      BY <1>2, <1>3, <1>4
    <3> HIDE DEF m, n
    <3>3. QED
      BY <3>1, <3>2 DEF Increasing
  <2>2. QED
    BY <2>1 DEF Increasing
<1>6. \A i \in DOMAIN s : i # k => s[i] # e
  <2>1. ASSUME NEW i \in DOMAIN s, i # k PROVE s[i] # s[k]
    <3>1. s[i] \in Nat /\ s[k] \in Nat
      BY <1>4
    <3>2. s[i] < s[k] \/ s[k] < s[i]
      BY <1>4, <2>1 DEF Increasing
    <3>3. QED
      BY <3>1, <3>2
  <2>2. QED
    BY <1>3, <2>1
<1>7. ToSet(t) \subseteq ToSet(s) \ {e}
  <2>1. ASSUME NEW i \in DOMAIN t PROVE t[i] \in ToSet(s) /\ t[i] # e
    <3> DEFINE m == IF i < k THEN i ELSE i + 1
    <3>1. m \in DOMAIN s /\ m # k
      BY <1>4
    <3>2. t[i] = s[m]
      BY <1>2, <1>3, <1>4
    <3> HIDE DEF m
    <3>3. QED
      BY <1>6, <3>1, <3>2 DEF ToSet
  <2>2. QED
    BY <2>1 DEF ToSet
<1>8. ToSet(s) \ {e} \subseteq ToSet(t)
  <2>1. ASSUME NEW i \in DOMAIN s, s[i] # e PROVE s[i] \in ToSet(t)
    <3> DEFINE m == IF i < k THEN i ELSE i - 1
    <3>1. i # k
      BY <1>3, <2>1
    <3>2. m \in DOMAIN t /\ (IF m < k THEN m = i ELSE m + 1 = i)
      BY <1>4, <3>1
    <3>3. t[m] = s[i]
      BY <1>2, <1>3, <1>4, <3>2
    <3> HIDE DEF m
    <3>4. QED
      BY <3>2, <3>3 DEF ToSet
  <2>2. QED
    BY <2>1 DEF ToSet
<1>9. QED
  BY <1>5, <1>7, <1>8 DEF t

(* ... and no element that was in it once is in it twice.                    *)
LEMMA RemoveFirstInjective ==
    ASSUME NEW S, NEW s \in Seq(S), IsInjective(s), NEW e
    PROVE  IsInjective(RemoveFirst(s, e))
<1> DEFINE t == RemoveFirst(s, e)
<1>1. CASE \E i \in 1 .. Len(s) : s[i] = e
  <2>1. /\ t \in Seq(S) /\ Len(t) = Len(s) - 1
        /\ \E k \in 1 .. Len(s) : \A i \in 1 .. Len(t) :
              t[i] = IF i < k THEN s[i] ELSE s[i + 1]
    <3>1. LET u == RemoveFirst(s, e)
          IN  /\ u \in Seq(S) /\ Len(u) = Len(s) - 1
              /\ \E k \in 1 .. Len(s) :
                    /\ s[k] = e
                    /\ \A i \in 1 .. Len(u) :
                          u[i] = IF i < k THEN s[i] ELSE s[i + 1]
      BY <1>1, RemoveFirstParts
    <3>2. QED
      BY <3>1
  <2> HIDE DEF t
  <2>2. PICK k \in 1 .. Len(s) : \A i \in 1 .. Len(t) :
              t[i] = IF i < k THEN s[i] ELSE s[i + 1]
    BY <2>1
  <2> DEFINE from(i) == IF i < k THEN i ELSE i + 1
  <2>3. Len(s) \in Nat /\ Len(t) = Len(s) - 1 /\ DOMAIN s = 1 .. Len(s)
        /\ DOMAIN t = 1 .. Len(t)
    BY <2>1
  <2>4. \A i \in 1 .. Len(t) : from(i) \in 1 .. Len(s) /\ t[i] = s[from(i)]
    BY <2>2, <2>3
  <2>5. \A i, j \in 1 .. Len(t) : from(i) = from(j) => i = j
    BY <2>3
  <2> HIDE DEF from
  <2>6. \A i, j \in 1 .. Len(t) : t[i] = t[j] => i = j
    BY <2>3, <2>4, <2>5 DEF IsInjective
  <2>7. QED
    BY <2>3, <2>6 DEF IsInjective, t
<1>2. CASE ~ \E i \in 1 .. Len(s) : s[i] = e
  <2>1. t = s
    BY <1>2 DEF RemoveFirst
  <2>2. QED
    BY <2>1
<1>3. QED
  BY <1>1, <1>2

(* What is in a list with one element more.                                  *)
LEMMA AppendSet ==
    ASSUME NEW S, NEW s \in Seq(S), NEW r
    PROVE  ToSet(Append(s, r)) = ToSet(s) \cup {r}
<1> DEFINE t == Append(s, r)
<1>1. /\ Len(t) = Len(s) + 1 /\ Len(s) \in Nat
      /\ \A i \in 1 .. Len(s) : t[i] = s[i]
      /\ t[Len(s) + 1] = r
      /\ DOMAIN t = 1 .. Len(s) + 1 /\ DOMAIN s = 1 .. Len(s)
  OBVIOUS
<1> HIDE DEF t
<1>2. ASSUME NEW x \in ToSet(t) PROVE x \in ToSet(s) \cup {r}
  <2>1. PICK i \in 1 .. Len(s) + 1 : t[i] = x
    BY <1>1 DEF ToSet
  <2>2. i = Len(s) + 1 \/ i \in 1 .. Len(s)
    BY <1>1
  <2>3. QED
    BY <1>1, <2>1, <2>2 DEF ToSet
<1>3. ASSUME NEW x \in ToSet(s) PROVE x \in ToSet(t)
  <2>1. PICK i \in 1 .. Len(s) : s[i] = x
    BY <1>1 DEF ToSet
  <2>2. i \in DOMAIN t /\ t[i] = x
    BY <1>1, <2>1
  <2>3. QED
    BY <2>2 DEF ToSet
<1>4. r \in ToSet(t)
  <2>1. Len(s) + 1 \in DOMAIN t
    BY <1>1
  <2>2. QED
    BY <1>1, <2>1 DEF ToSet
<1>5. ToSet(t) = ToSet(s) \cup {r}
  BY <1>2, <1>3, <1>4
<1>6. QED
  BY <1>5 DEF t

-----------------------------------------------------------------------------
(* Sequences each of whose elements is related to those after it.           *)
Chained(R, q) == \A i, j \in DOMAIN q : i < j => <<q[i], q[j]>> \in R

\* Whatever is in the one set may be followed by whatever is in the other.
AllBefore(R, A, B) == \A a \in A, b \in B : <<a, b>> \in R

LEMMA ChainedConcat ==
    ASSUME NEW R, NEW S, NEW s \in Seq(S), NEW t \in Seq(S)
    PROVE  Chained(R, s \o t) <=> Chained(R, s) /\ Chained(R, t) /\ AllBefore(R, ToSet(s), ToSet(t))
<1> DEFINE st == s \o t
<1>1. /\ Len(s) \in Nat /\ Len(t) \in Nat
      /\ DOMAIN st = 1 .. Len(s) + Len(t)
      /\ DOMAIN s = 1 .. Len(s) /\ DOMAIN t = 1 .. Len(t)
      /\ \A i \in 1 .. Len(s) : st[i] = s[i]
      /\ \A i \in 1 .. Len(t) : st[Len(s) + i] = t[i]
  OBVIOUS
<1> HIDE DEF st
<1>2. ASSUME Chained(R, st) PROVE Chained(R, s) /\ Chained(R, t) /\ AllBefore(R, ToSet(s), ToSet(t))
  <2>1. Chained(R, s)
    <3>1. ASSUME NEW i \in 1 .. Len(s), NEW j \in 1 .. Len(s), i < j PROVE <<s[i], s[j]>> \in R
      <4>1. <<st[i], st[j]>> \in R
        BY ONLY <1>1, <1>2, <3>1 DEF Chained
      <4>2. QED
        BY ONLY <1>1, <3>1, <4>1
    <3>2. QED
      BY ONLY <1>1, <3>1 DEF Chained
  <2>2. Chained(R, t)
    <3>1. ASSUME NEW i \in 1 .. Len(t), NEW j \in 1 .. Len(t), i < j PROVE <<t[i], t[j]>> \in R
      <4>1. PICK a \in DOMAIN st, b \in DOMAIN st : a = Len(s) + i /\ b = Len(s) + j /\ a < b
        BY ONLY <1>1, <3>1
      <4>2. <<st[a], st[b]>> \in R
        BY ONLY <1>2, <4>1 DEF Chained
      <4>3. QED
        BY ONLY <1>1, <3>1, <4>1, <4>2
    <3>2. QED
      BY ONLY <1>1, <3>1 DEF Chained
  <2>3. ASSUME NEW m \in ToSet(s), NEW e \in ToSet(t) PROVE <<m, e>> \in R
    <3>1. PICK i \in 1 .. Len(s) : s[i] = m
      BY <1>1 DEF ToSet
    <3>2. PICK j \in 1 .. Len(t) : t[j] = e
      BY <1>1 DEF ToSet
    <3>3. <<st[i], st[Len(s) + j]>> \in R
      BY ONLY <1>1, <1>2, <3>1, <3>2 DEF Chained
    <3>4. QED
      BY ONLY <1>1, <3>1, <3>2, <3>3
  <2>4. QED
    BY <2>1, <2>2, <2>3 DEF AllBefore
<1>3. ASSUME Chained(R, s), Chained(R, t), AllBefore(R, ToSet(s), ToSet(t)) PROVE Chained(R, st)
  <2>1. ASSUME NEW i \in 1 .. Len(s) + Len(t), NEW j \in 1 .. Len(s) + Len(t), i < j
        PROVE  <<st[i], st[j]>> \in R
    <3>1. CASE j <= Len(s)
      <4>1. i \in 1 .. Len(s) /\ j \in 1 .. Len(s)
        BY <1>1, <2>1, <3>1
      <4>2. <<s[i], s[j]>> \in R
        BY ONLY <1>1, <1>3, <2>1, <4>1 DEF Chained
      <4>3. QED
        BY ONLY <1>1, <4>1, <4>2
    <3>2. CASE i > Len(s)
      <4>1. PICK a \in 1 .. Len(t), b \in 1 .. Len(t) :
                i = Len(s) + a /\ j = Len(s) + b /\ a < b
        <5>1. i - Len(s) \in 1 .. Len(t) /\ j - Len(s) \in 1 .. Len(t)
          BY <1>1, <2>1, <3>2
        <5>2. i = Len(s) + (i - Len(s)) /\ j = Len(s) + (j - Len(s)) /\ i - Len(s) < j - Len(s)
          BY <1>1, <2>1
        <5>3. QED
          BY <5>1, <5>2
      <4>2. <<t[a], t[b]>> \in R
        BY ONLY <1>1, <1>3, <4>1 DEF Chained
      <4>3. QED
        BY ONLY <1>1, <4>1, <4>2
    <3>3. CASE i <= Len(s) /\ j > Len(s)
      <4>1. i \in 1 .. Len(s)
        BY <1>1, <2>1, <3>3
      <4>2. PICK b \in 1 .. Len(t) : j = Len(s) + b
        <5>1. j - Len(s) \in 1 .. Len(t) /\ j = Len(s) + (j - Len(s))
          BY <1>1, <2>1, <3>3
        <5>2. QED
          BY <5>1
      <4>3. s[i] \in ToSet(s) /\ t[b] \in ToSet(t)
        BY ONLY <1>1, <4>1, <4>2 DEF ToSet
      <4>4. <<s[i], t[b]>> \in R
        BY ONLY <1>3, <4>3 DEF AllBefore
      <4>5. QED
        BY ONLY <1>1, <4>1, <4>2, <4>4
    <3>4. QED
      BY <1>1, <2>1, <3>1, <3>2, <3>3
  <2>2. QED
    BY ONLY <1>1, <2>1 DEF Chained
<1>4. QED
  BY <1>2, <1>3 DEF st

LEMMA ChainedSingle ==
    ASSUME NEW R, NEW e
    PROVE  /\ Chained(R, <<e>>) /\ ToSet(<<e>>) = {e}
           /\ Chained(R, <<>>) /\ ToSet(<<>>) = {}
BY DEF Chained, ToSet

-----------------------------------------------------------------------------
(* The elements of two sequences put together.                              *)
LEMMA ConcatSet ==
    ASSUME NEW S, NEW s \in Seq(S), NEW t \in Seq(S)
    PROVE  ToSet(s \o t) = ToSet(s) \cup ToSet(t)
<1> DEFINE st == s \o t
<1>1. /\ Len(s) \in Nat /\ Len(t) \in Nat
      /\ DOMAIN st = 1 .. Len(s) + Len(t)
      /\ DOMAIN s = 1 .. Len(s) /\ DOMAIN t = 1 .. Len(t)
      /\ \A i \in 1 .. Len(s) : st[i] = s[i]
      /\ \A i \in 1 .. Len(t) : st[Len(s) + i] = t[i]
  OBVIOUS
<1> HIDE DEF st
<1>2. ASSUME NEW x \in ToSet(st) PROVE x \in ToSet(s) \cup ToSet(t)
  <2>1. PICK i \in 1 .. Len(s) + Len(t) : st[i] = x
    BY <1>1 DEF ToSet
  <2>2. CASE i <= Len(s)
    BY <1>1, <2>1, <2>2 DEF ToSet
  <2>3. CASE i > Len(s)
    <3>1. i - Len(s) \in 1 .. Len(t) /\ i = Len(s) + (i - Len(s))
      BY <1>1, <2>1, <2>3
    <3>2. x = t[i - Len(s)]
      BY <1>1, <2>1, <3>1
    <3>3. QED
      BY <1>1, <3>1, <3>2 DEF ToSet
  <2>4. QED
    BY <1>1, <2>1, <2>2, <2>3
<1>3. ASSUME NEW x \in ToSet(s) PROVE x \in ToSet(st)
  <2>1. PICK i \in 1 .. Len(s) : s[i] = x
    BY <1>1 DEF ToSet
  <2>2. i \in DOMAIN st /\ st[i] = x
    BY <1>1, <2>1
  <2>3. QED
    BY <2>2 DEF ToSet
<1>4. ASSUME NEW x \in ToSet(t) PROVE x \in ToSet(st)
  <2>1. PICK i \in 1 .. Len(t) : t[i] = x
    BY <1>1 DEF ToSet
  <2>2. Len(s) + i \in DOMAIN st /\ st[Len(s) + i] = x
    BY <1>1, <2>1
  <2>3. QED
    BY <2>2 DEF ToSet
<1>5. ToSet(st) = ToSet(s) \cup ToSet(t)
  BY <1>2, <1>3, <1>4
<1>6. QED
  BY <1>5 DEF st

(* Recursion over finite sets: folds, and what they add up to.               *)

(* Induction, for a set in place of a predicate.                             *)
LEMMA FromZero ==
    ASSUME NEW N \in SUBSET Nat, 0 \in N, \A n \in N : n + 1 \in N
    PROVE  N = Nat
<1>1. ASSUME NEW m \in Nat, m \notin N PROVE FALSE
  <2> DEFINE D == {k \in 0 .. m : k \notin N}
  <2>1. D \in SUBSET Nat /\ D # {}
    BY <1>1
  <2>2. IsFiniteSet(D)
    <3>1. 0 \in Int /\ m \in Int /\ D \in SUBSET (0 .. m)
      OBVIOUS
    <3>2. IsFiniteSet(0 .. m)
      BY <3>1, FS_Interval
    <3>3. QED
      BY <3>1, <3>2, FS_Subset
  <2>3. PICK k \in D : \A q \in D : k <= q
    BY <2>1, <2>2, LeastExists
  <2>4. k \in Nat /\ k <= m /\ k \notin N /\ k # 0
    BY <2>3
  <2>5. k - 1 \in 0 .. m /\ ~ (k <= k - 1)
    BY <2>4
  <2>6. k - 1 \in N
    BY <2>3, <2>5
  <2>7. (k - 1) + 1 \in N
    BY <2>6
  <2>8. QED
    BY <2>4, <2>7
<1>2. QED
  BY <1>1

\* h is what a recursion computes for each subset of S: it takes the element
\* that pick chooses, and g joins it to the result for the others.
Recursion(S, base, pick, g, h) ==
    \A s \in SUBSET S :
        h[s] = IF s = {} THEN base ELSE g[<<pick[s], h[s \ {pick[s]}]>>]

(* Every such recursion over a finite set has a result.                      *)
LEMMA RecursionExists ==
    ASSUME NEW S, IsFiniteSet(S), NEW V, NEW base \in V, NEW pick,
           \A s \in (SUBSET S) \ {{}} : pick[s] \in s,
           NEW g \in [S \X V -> V]
    PROVE  \E h \in [SUBSET S -> V] : Recursion(S, base, pick, g, h)
<1> DEFINE Upto(n, h) ==
              \A s \in SUBSET S :
                 Cardinality(s) <= n =>
                    h[s] = IF s = {} THEN base ELSE g[<<pick[s], h[s \ {pick[s]}]>>]
           N == {n \in Nat : \E h \in [SUBSET S -> V] : Upto(n, h)}
<1>1. \A s \in SUBSET S : IsFiniteSet(s) /\ Cardinality(s) \in Nat
                          /\ Cardinality(s) <= Cardinality(S)
  BY FS_Subset, FS_CardinalityType
<1>2. \A s \in (SUBSET S) \ {{}} :
          /\ s \ {pick[s]} \in SUBSET S /\ pick[s] \in S
          /\ Cardinality(s \ {pick[s]}) = Cardinality(s) - 1
  BY <1>1, FS_RemoveElement
<1>3. 0 \in N
  <2> DEFINE h == [s \in SUBSET S |-> base]
  <2>1. \A s \in SUBSET S : Cardinality(s) <= 0 => s = {}
    BY <1>1, FS_EmptySet
  <2>2. h \in [SUBSET S -> V] /\ Upto(0, h)
    BY <2>1
  <2>3. QED
    BY <2>2
<1>4. ASSUME NEW n \in N PROVE n + 1 \in N
  <2>1. PICK h \in [SUBSET S -> V] : Upto(n, h)
    BY <1>4
  <2> DEFINE Next1(s) == IF s = {} THEN base ELSE g[<<pick[s], h[s \ {pick[s]}]>>]
             k == [s \in SUBSET S |-> Next1(s)]
  <2>2. k \in [SUBSET S -> V]
    BY <1>2, <2>1
  <2>3. \A s \in SUBSET S : Cardinality(s) <= n => k[s] = h[s]
    BY <2>1
  <2>4. ASSUME NEW s \in SUBSET S, Cardinality(s) <= n + 1, s # {}
        PROVE  k[s] = g[<<pick[s], k[s \ {pick[s]}]>>]
    <3>1. Cardinality(s \ {pick[s]}) <= n /\ s \ {pick[s]} \in SUBSET S
      BY <1>1, <1>2, <2>4, n \in Nat
    <3>2. k[s \ {pick[s]}] = h[s \ {pick[s]}]
      BY <2>3, <3>1
    <3>3. QED
      BY <2>4, <3>2
  <2>5. k[{}] = base
    OBVIOUS
  <2>6. Upto(n + 1, k)
    BY <2>4, <2>5
  <2> HIDE DEF k
  <2>7. n + 1 \in Nat
    OBVIOUS
  <2>8. QED
    BY <2>2, <2>6, <2>7
<1>5. Cardinality(S) \in N
  <2>1. N = Nat
    BY <1>3, <1>4, FromZero
  <2>2. QED
    BY <2>1, FS_CardinalityType
<1>6. PICK h \in [SUBSET S -> V] : Upto(Cardinality(S), h)
  BY <1>5
<1>7. QED
  BY <1>1, <1>6 DEF Recursion

(* Induction over the subsets of a finite set.                               *)
LEMMA FromEmpty ==
    ASSUME NEW D, IsFiniteSet(D), NEW U, {} \in U,
           \A s \in SUBSET D : s \in U => \A x \in D \ s : s \cup {x} \in U
    PROVE  SUBSET D \subseteq U
<1> DEFINE N == {n \in Nat : \A s \in SUBSET D : Cardinality(s) = n => s \in U}
<1>1. \A s \in SUBSET D : IsFiniteSet(s) /\ Cardinality(s) \in Nat
  BY FS_Subset, FS_CardinalityType
<1>2. 0 \in N
  <2>1. \A s \in SUBSET D : Cardinality(s) = 0 => s = {}
    BY <1>1, FS_EmptySet
  <2>2. QED
    BY <2>1
<1>3. ASSUME NEW n \in N PROVE n + 1 \in N
  <2>1. ASSUME NEW s \in SUBSET D, Cardinality(s) = n + 1 PROVE s \in U
    <3>1. PICK x \in s : TRUE
      BY <2>1, FS_EmptySet
    <3>2. s \ {x} \in SUBSET D /\ Cardinality(s \ {x}) = n
      <4>1. IsFiniteSet(s) /\ x \in s
        BY <1>1
      <4>2. Cardinality(s \ {x}) = Cardinality(s) - 1
        BY <4>1, FS_RemoveElement
      <4>3. QED
        BY <2>1, <4>2, n \in Nat
    <3>3. s \ {x} \in U /\ (s \ {x}) \cup {x} = s /\ x \in D \ (s \ {x})
      BY <3>2
    <3>4. QED
      BY <3>2, <3>3
  <2>2. QED
    BY <2>1
<1>4. N = Nat
  BY <1>2, <1>3, FromZero
<1>5. QED
  BY <1>1, <1>4

-----------------------------------------------------------------------------
(* Sums over finite sets.                                                    *)

Total(f, S) == MapThenSumSet(LAMBDA x : f[x], S)

\* h is what the recursion of MapThenSumSet computes for each subset of S.
Sums(f, S, h) ==
    h = [s \in SUBSET S |->
            IF s = {} THEN 0
            ELSE LET x == CHOOSE x \in s : TRUE IN f[x] + h[s \ {x}]]

LEMMA SumsExist ==
    ASSUME NEW S, IsFiniteSet(S), NEW f, \A x \in S : f[x] \in Int
    PROVE  \E h \in [SUBSET S -> Int] : Sums(f, S, h)
<1> DEFINE pick == [s \in SUBSET S |-> CHOOSE x \in s : TRUE]
           g == [p \in S \X Int |-> f[p[1]] + p[2]]
<1>1. g \in [S \X Int -> Int] /\ 0 \in Int
  OBVIOUS
<1>2. \A s \in (SUBSET S) \ {{}} : pick[s] \in s
  OBVIOUS
<1>3. \A x \in S, n \in Int : g[<<x, n>>] = f[x] + n
  OBVIOUS
<1>4. \A s \in SUBSET S : pick[s] = CHOOSE x \in s : TRUE
  OBVIOUS
<1> HIDE DEF pick, g
<1>5. PICK h \in [SUBSET S -> Int] : Recursion(S, 0, pick, g, h)
  BY <1>1, <1>2, RecursionExists
<1>6. ASSUME NEW s \in SUBSET S, s # {}
      PROVE  h[s] = f[CHOOSE x \in s : TRUE] + h[s \ {CHOOSE x \in s : TRUE}]
  <2>1. pick[s] \in S /\ h[s \ {pick[s]}] \in Int
    BY <1>2, <1>5, <1>6
  <2>2. h[s] = f[pick[s]] + h[s \ {pick[s]}]
    BY <1>3, <1>5, <1>6, <2>1 DEF Recursion
  <2>3. QED
    BY <1>4, <2>2
<1>7. h[{}] = 0
  BY <1>5 DEF Recursion
<1>8. Sums(f, S, h)
  BY <1>5, <1>6, <1>7 DEF Sums
<1>9. QED
  BY <1>5, <1>8

LEMMA SumsAgree ==
    ASSUME NEW D, IsFiniteSet(D), NEW S \in SUBSET D, NEW f, \A x \in D : f[x] \in Int,
           NEW h, Sums(f, D, h), NEW k, Sums(f, S, k)
    PROVE  h[S] = k[S]
<1> DEFINE N == {n \in Nat : \A s \in SUBSET S : Cardinality(s) = n => h[s] = k[s]}
<1>1. \A s \in SUBSET S : IsFiniteSet(s) /\ Cardinality(s) \in Nat
  BY FS_Subset, FS_CardinalityType
<1>2. 0 \in N
  <2>1. \A s \in SUBSET S : Cardinality(s) = 0 => s = {}
    BY <1>1, FS_EmptySet
  <2>2. h[{}] = 0 /\ k[{}] = 0
    BY DEF Sums
  <2>3. QED
    BY <2>1, <2>2
<1>3. ASSUME NEW n \in N PROVE n + 1 \in N
  <2>1. ASSUME NEW s \in SUBSET S, Cardinality(s) = n + 1 PROVE h[s] = k[s]
    <3> DEFINE x == CHOOSE x \in s : TRUE
    <3>1. s # {} /\ x \in s
      BY <2>1, FS_EmptySet
    <3>2. s \ {x} \in SUBSET S /\ Cardinality(s \ {x}) = n
      <4>1. IsFiniteSet(s) /\ x \in s
        BY <1>1, <3>1
      <4>2. Cardinality(s \ {x}) = Cardinality(s) - 1
        BY <4>1, FS_RemoveElement
      <4>3. QED
        BY <2>1, <4>2, n \in Nat
    <3>3. h[s \ {x}] = k[s \ {x}]
      BY <3>2
    <3>4. h[s] = f[x] + h[s \ {x}]
      <4>1. s \in SUBSET D
        OBVIOUS
      <4>2. QED
        BY <3>1, <4>1 DEF Sums
    <3>5. k[s] = f[x] + k[s \ {x}]
      BY <3>1 DEF Sums
    <3>6. QED
      BY <3>3, <3>4, <3>5
  <2>2. QED
    BY <2>1
<1>4. N = Nat
  BY <1>2, <1>3, FromZero
<1>5. QED
  BY <1>1, <1>4

Summable(f, S) == IsFiniteSet(S) /\ \A x \in S : f[x] \in Int

\* The total of each subset is what one recursion computes.
Totals(f, D, h) ==
    /\ h \in [SUBSET D -> Int] /\ Sums(f, D, h)
    /\ \A S \in SUBSET D : Total(f, S) = h[S]

LEMMA TotalsOf == ASSUME NEW D, NEW f, Summable(f, D) PROVE \E h : Totals(f, D, h)
<1> USE DEF Summable
<1>1. PICK h \in [SUBSET D -> Int] : Sums(f, D, h)
  BY SumsExist
<1>2. ASSUME NEW S \in SUBSET D PROVE Total(f, S) = h[S]
  <2>1. IsFiniteSet(S) /\ \A x \in S : f[x] \in Int
    BY FS_Subset
  <2>2. \E k : Sums(f, S, k)
    BY <2>1, SumsExist
  <2> DEFINE k == CHOOSE k : Sums(f, S, k)
  <2>3. Sums(f, S, k)
    BY <2>2
  <2>4. Total(f, S) = k[S]
    BY DEF Total, Sums, MapThenSumSet, MapThenFoldSet
  <2> HIDE DEF k
  <2>5. QED
    BY <1>1, <2>3, <2>4, SumsAgree
<1>3. QED
  BY <1>1, <1>2 DEF Totals

LEMMA TotalNone == ASSUME NEW f PROVE Total(f, {}) = 0
<1>1. Total(f, {}) = (CHOOSE h : Sums(f, {}, h))[{}]
  BY DEF Total, Sums, MapThenSumSet, MapThenFoldSet
<1>2. \E h : Sums(f, {}, h)
  BY FS_EmptySet, SumsExist
<1>3. ASSUME NEW h, Sums(f, {}, h) PROVE h[{}] = 0
  BY <1>3 DEF Sums
<1>4. Sums(f, {}, CHOOSE h : Sums(f, {}, h))
  BY ONLY <1>2
<1>5. QED
  BY ONLY <1>1, <1>3, <1>4

LEMMA TotalType ==
    ASSUME NEW S, IsFiniteSet(S), NEW f, \A x \in S : f[x] \in Int
    PROVE  Total(f, S) \in Int
<1>1. Summable(f, S)
  BY DEF Summable
<1>2. PICK h : Totals(f, S, h)
  BY ONLY <1>1, TotalsOf
<1>3. QED
  BY <1>2 DEF Totals

(* The order in which the recursion takes the elements does not matter.      *)
LEMMA TotalLess ==
    ASSUME NEW S, IsFiniteSet(S), NEW f, \A x \in S : f[x] \in Int, NEW y \in S
    PROVE  Total(f, S) = f[y] + Total(f, S \ {y})
<1>1. Summable(f, S)
  BY DEF Summable
<1>2. PICK h : Totals(f, S, h)
  BY ONLY <1>1, TotalsOf
<1>3. /\ h \in [SUBSET S -> Int] /\ Sums(f, S, h)
      /\ \A s \in SUBSET S : Total(f, s) = h[s]
  BY <1>2 DEF Totals
<1> DEFINE pick(s) == CHOOSE x \in s : TRUE
           N == {n \in Nat : \A s \in SUBSET S : \A x \in s :
                    Cardinality(s) = n => h[s] = f[x] + h[s \ {x}]}
<1>4. ASSUME NEW s \in SUBSET S, s # {}
      PROVE  pick(s) \in s /\ h[s] = f[pick(s)] + h[s \ {pick(s)}]
  BY <1>3, <1>4 DEF Sums
<1> HIDE DEF pick
<1>5. \A s \in SUBSET S : IsFiniteSet(s) /\ Cardinality(s) \in Nat
  BY FS_Subset, FS_CardinalityType
<1>6. 0 \in N
  <2>1. \A s \in SUBSET S : Cardinality(s) = 0 => s = {}
    BY <1>5, FS_EmptySet
  <2>2. QED
    BY <2>1
<1>7. ASSUME NEW n \in N PROVE n + 1 \in N
  <2>1. ASSUME NEW s \in SUBSET S, NEW x \in s, Cardinality(s) = n + 1
        PROVE  h[s] = f[x] + h[s \ {x}]
    <3> DEFINE z == pick(s)
               r == (s \ {x}) \ {z}
    <3>1. z \in s /\ h[s] = f[z] + h[s \ {z}]
      BY <1>4
    <3> HIDE DEF z
    <3>2. CASE z = x
      BY <3>1, <3>2
    <3>3. CASE z # x
      <4>1. ASSUME NEW v \in s PROVE s \ {v} \in SUBSET S /\ Cardinality(s \ {v}) = n
        <5>1. IsFiniteSet(s) /\ Cardinality(s) \in Nat
          BY <1>5
        <5>2. Cardinality(s \ {v}) = Cardinality(s) - 1
          BY <5>1, FS_RemoveElement
        <5>3. QED
          BY <2>1, <5>2, n \in Nat
      <4>2. h[s \ {z}] = f[x] + h[(s \ {z}) \ {x}]
        BY <3>1, <3>3, <4>1
      <4>3. h[s \ {x}] = f[z] + h[r]
        BY <3>1, <3>3, <4>1
      <4>4. (s \ {z}) \ {x} = r
        OBVIOUS
      <4>5. f[x] \in Int /\ f[z] \in Int /\ h[r] \in Int
        BY <1>3, <3>1
      <4>6. h[s \ {z}] = f[x] + h[r]
        BY <4>2, <4>4
      <4> HIDE DEF r
      <4>7. QED
        BY <3>1, <4>3, <4>5, <4>6
    <3>4. QED
      BY <3>2, <3>3
  <2>2. QED
    BY <2>1
<1>8. N = Nat
  BY <1>6, <1>7, FromZero
<1>9. h[S] = f[y] + h[S \ {y}]
  BY <1>5, <1>8
<1>10. QED
  BY <1>3, <1>9

LEMMA TotalMore ==
    ASSUME NEW S, IsFiniteSet(S), NEW y, y \notin S, NEW f,
           \A x \in S \cup {y} : f[x] \in Int
    PROVE  Total(f, S \cup {y}) = f[y] + Total(f, S)
<1>1. IsFiniteSet(S \cup {y}) /\ (S \cup {y}) \ {y} = S /\ y \in S \cup {y}
  BY FS_AddElement
<1>2. Total(f, S \cup {y}) = f[y] + Total(f, (S \cup {y}) \ {y})
  BY <1>1, TotalLess
<1>3. QED
  BY <1>1, <1>2

(* A total depends on the elements' numbers only, and grows with them ...    *)
LEMMA TotalCompare ==
    ASSUME NEW S, IsFiniteSet(S), NEW f, NEW g,
           \A x \in S : f[x] \in Int /\ g[x] \in Int /\ f[x] <= g[x]
    PROVE  Total(f, S) <= Total(g, S)
<1> DEFINE U == {s \in SUBSET S : Total(f, s) <= Total(g, s)}
<1>1. {} \in U
  BY TotalNone
<1>2. ASSUME NEW s \in SUBSET S, s \in U, NEW x \in S \ s
      PROVE  s \cup {x} \in U
  <2>1. IsFiniteSet(s) /\ x \notin s
    BY FS_Subset
  <2>2. /\ Total(f, s \cup {x}) = f[x] + Total(f, s)
        /\ Total(g, s \cup {x}) = g[x] + Total(g, s)
    BY <2>1, TotalMore
  <2>3. Total(f, s) \in Int /\ Total(g, s) \in Int /\ Total(f, s) <= Total(g, s)
    BY <1>2, <2>1, TotalType
  <2>4. f[x] \in Int /\ g[x] \in Int /\ f[x] <= g[x] /\ s \cup {x} \in SUBSET S
    BY <1>2
  <2>5. f[x] + Total(f, s) <= g[x] + Total(g, s)
    BY <2>3, <2>4
  <2>6. QED
    BY <2>2, <2>4, <2>5
<1>3. SUBSET S \subseteq U
  <2> HIDE DEF U
  <2>1. QED
    BY ONLY IsFiniteSet(S), <1>1, <1>2, FromEmpty
<1>4. QED
  BY <1>3

LEMMA TotalSame ==
    ASSUME NEW S, IsFiniteSet(S), NEW f, NEW g,
           \A x \in S : f[x] \in Int /\ f[x] = g[x]
    PROVE  Total(f, S) = Total(g, S)
<1>1. Total(f, S) <= Total(g, S) /\ Total(g, S) <= Total(f, S)
  BY TotalCompare
<1>2. Total(f, S) \in Int /\ Total(g, S) \in Int
  BY TotalType
<1>3. QED
  BY <1>1, <1>2

(* ... and with the set, when no number is negative.                         *)
LEMMA TotalSubset ==
    ASSUME NEW S, IsFiniteSet(S), NEW T \in SUBSET S, NEW f, \A x \in S : f[x] \in Nat
    PROVE  /\ Total(f, S) \in Nat /\ Total(f, T) \in Nat
           /\ Total(f, T) <= Total(f, S)
           /\ \A x \in S \ T : Total(f, T) + f[x] <= Total(f, S)
<1> DEFINE U == {s \in SUBSET S :
                    /\ Total(f, T) <= Total(f, T \cup s) /\ Total(f, s) >= 0
                    /\ \A x \in s \ T : Total(f, T) + f[x] <= Total(f, T \cup s)}
<1>1. \A s \in SUBSET S : Total(f, s) \in Int /\ IsFiniteSet(s)
  BY FS_Subset, TotalType
<1>2. {} \in U
  <2>1. T \cup {} = T
    OBVIOUS
  <2>2. QED
    BY <1>1, <2>1, TotalNone
<1>3. ASSUME NEW s \in SUBSET S, s \in U, NEW x \in S \ s
      PROVE  s \cup {x} \in U
  <2> DEFINE r == T \cup s
  <2>1. /\ Total(f, T) \in Int /\ Total(f, s) \in Int /\ Total(f, r) \in Int
        /\ f[x] \in Nat /\ IsFiniteSet(s) /\ IsFiniteSet(r)
    BY <1>1
  <2>2. /\ Total(f, T) <= Total(f, r) /\ Total(f, s) >= 0
        /\ \A y \in s \ T : Total(f, T) + f[y] <= Total(f, r)
    BY <1>3
  <2>3. Total(f, s \cup {x}) >= 0
    <3>1. Total(f, s \cup {x}) = f[x] + Total(f, s)
      <4>1. x \notin s /\ \A v \in s \cup {x} : f[v] \in Int
        OBVIOUS
      <4>2. QED
        BY ONLY <2>1, <4>1, TotalMore
    <3>2. QED
      BY <2>1, <2>2, <3>1
  <2>4. Total(f, T \cup (s \cup {x})) >= Total(f, r)
        /\ (x \notin T => Total(f, T \cup (s \cup {x})) >= Total(f, T) + f[x])
    <3>1. CASE x \in T
      <4>1. T \cup (s \cup {x}) = r
        BY <3>1
      <4> HIDE DEF r
      <4>2. Total(f, r) >= Total(f, r)
        BY <2>1
      <4>3. QED
        BY <3>1, <4>1, <4>2
    <3>2. CASE x \notin T
      <4>1. T \cup (s \cup {x}) = r \cup {x} /\ x \notin r
        BY <3>2
      <4>2. \A v \in r \cup {x} : f[v] \in Int
        OBVIOUS
      <4> HIDE DEF r
      <4>3. Total(f, r \cup {x}) = f[x] + Total(f, r)
        BY ONLY <2>1, <4>1, <4>2, TotalMore
      <4>4. /\ Total(f, r \cup {x}) >= Total(f, r)
            /\ Total(f, r \cup {x}) >= Total(f, T) + f[x]
        BY ONLY <2>1, <2>2, <4>3
      <4>5. QED
        BY <4>1, <4>4
    <3>3. QED
      BY <3>1, <3>2
  <2>5. Total(f, T \cup (s \cup {x})) \in Int /\ s \cup {x} \in SUBSET S
    <3>1. T \cup (s \cup {x}) \in SUBSET S /\ s \cup {x} \in SUBSET S
      OBVIOUS
    <3>2. QED
      BY <1>1, <3>1
  <2> HIDE DEF r
  <2>6. Total(f, T) <= Total(f, T \cup (s \cup {x}))
    BY <2>1, <2>2, <2>4, <2>5
  <2>7. ASSUME NEW y \in (s \cup {x}) \ T
        PROVE  Total(f, T) + f[y] <= Total(f, T \cup (s \cup {x}))
    <3>1. f[y] \in Int
      OBVIOUS
    <3>2. CASE y \in s
      <4>1. Total(f, T) + f[y] <= Total(f, r)
        BY <2>2, <3>2
      <4>2. QED
        BY <2>1, <2>4, <2>5, <3>1, <4>1
    <3>3. CASE y = x
      BY <2>4, <2>5, <2>1, <3>3
    <3>4. QED
      BY <3>2, <3>3
  <2>8. QED
    BY <2>3, <2>5, <2>6, <2>7
<1>4. SUBSET S \subseteq U
  <2> HIDE DEF U
  <2>1. QED
    BY <1>2, <1>3, FromEmpty
<1>5. /\ S \in U /\ T \in U /\ T \cup S = S
      /\ Total(f, S) \in Int /\ Total(f, T) \in Int
  BY <1>1, <1>4
<1>6. Total(f, S) \in Nat /\ Total(f, T) \in Nat
  BY <1>5
<1>7. QED
  BY <1>5, <1>6

(* The image of a finite set is finite, and so are the elements of a list.   *)
LEMMA FiniteImage ==
    ASSUME NEW S, IsFiniteSet(S), NEW f
    PROVE  IsFiniteSet({f[x] : x \in S})
<1> DEFINE T == {f[x] : x \in S}
           g == [x \in S |-> f[x]]
<1>1. g \in Surjection(S, T)
  <2>1. g \in [S -> T]
    OBVIOUS
  <2>2. \A t \in T : \E x \in S : g[x] = t
    OBVIOUS
  <2> HIDE DEF g, T
  <2>3. QED
    BY <2>1, <2>2 DEF Surjection
<1>2. QED
  BY <1>1, FS_Surjection

LEMMA FiniteList ==
    ASSUME NEW S, NEW list \in Seq(S)
    PROVE  IsFiniteSet(ToSet(list))
<1>1. ToSet(list) = {list[i] : i \in 1 .. Len(list)}
  BY DEF ToSet
<1>2. IsFiniteSet(1 .. Len(list))
  <2>1. 1 \in Int /\ Len(list) \in Int
    OBVIOUS
  <2>2. QED
    BY <2>1, FS_Interval
<1>3. QED
  BY <1>1, <1>2, FiniteImage

(* What adds nothing.                                                        *)
LEMMA TotalZero ==
    ASSUME NEW S, IsFiniteSet(S), NEW f, \A x \in S : f[x] = 0
    PROVE  Total(f, S) = 0
<1> DEFINE U == {s \in SUBSET S : Total(f, s) = 0}
<1>1. {} \in U
  BY TotalNone
<1>2. ASSUME NEW s \in SUBSET S, s \in U, NEW x \in S \ s
      PROVE  s \cup {x} \in U
  <2>1. IsFiniteSet(s) /\ x \notin s /\ \A y \in s \cup {x} : f[y] \in Int
    BY FS_Subset
  <2>2. Total(f, s \cup {x}) = f[x] + Total(f, s)
    BY ONLY <2>1, TotalMore
  <2>3. f[x] = 0 /\ Total(f, s) = 0
    BY <1>2
  <2>4. QED
    BY <2>2, <2>3
<1>3. SUBSET S \subseteq U
  <2> HIDE DEF U
  <2>1. QED
    BY <1>1, <1>2, FromEmpty
<1>4. QED
  BY <1>3

(* The sum of a function's values is the total over its domain, of any        *)
(* numbers that agree with it there.                                        *)
LEMMA SumIsTotal ==
    ASSUME NEW S, IsFiniteSet(S), NEW f, DOMAIN f = S, NEW g,
           \A x \in S : f[x] = g[x] /\ g[x] \in Int
    PROVE  SumFunction(f) = Total(g, S)
<1>1. SumFunction(f) = Total(f, S)
  BY DEF SumFunction, SumFunctionOnSet, FoldFunctionOnSet, Total, MapThenSumSet
<1>2. Total(f, S) = Total(g, S)
  <2>1. \A x \in S : f[x] \in Int
    OBVIOUS
  <2>2. QED
    BY <2>1, TotalSame
<1>3. QED
  BY <1>1, <1>2

(* One greater number makes the total greater.                              *)
LEMMA TotalStrict ==
    ASSUME NEW S, IsFiniteSet(S), NEW f, NEW g,
           \A x \in S : f[x] \in Int /\ g[x] \in Int /\ f[x] <= g[x],
           NEW y \in S, f[y] < g[y]
    PROVE  Total(f, S) < Total(g, S)
<1> DEFINE R == S \ {y}
<1>1. IsFiniteSet(R) /\ \A x \in R : f[x] \in Int /\ g[x] \in Int /\ f[x] <= g[x]
  BY FS_Subset
<1> HIDE DEF R
<1>2. /\ Total(f, R) <= Total(g, R)
      /\ Total(f, R) \in Int /\ Total(g, R) \in Int
  BY ONLY <1>1, TotalCompare, TotalType
<1>3. Total(f, S) = f[y] + Total(f, R) /\ Total(g, S) = g[y] + Total(g, R)
  BY TotalLess DEF R
<1>4. f[y] \in Int /\ g[y] \in Int /\ f[y] < g[y]
  OBVIOUS
<1>5. QED
  BY <1>2, <1>3, <1>4

(* What is not in the subset adds nothing.                                  *)
LEMMA TotalOutside ==
    ASSUME NEW S, IsFiniteSet(S), NEW T \in SUBSET S, NEW f, \A x \in S : f[x] \in Int,
           \A x \in S \ T : f[x] = 0
    PROVE  Total(f, S) = Total(f, T)
<1> DEFINE U == {s \in SUBSET (S \ T) : Total(f, T \cup s) = Total(f, T)}
<1>1. {} \in U
  <2>1. T \cup {} = T
    OBVIOUS
  <2>2. QED
    BY <2>1
<1>2. ASSUME NEW s \in SUBSET (S \ T), s \in U, NEW x \in (S \ T) \ s
      PROVE  s \cup {x} \in U
  <2> DEFINE r == T \cup s
  <2>1. /\ IsFiniteSet(r) /\ x \notin r /\ \A v \in r \cup {x} : f[v] \in Int
        /\ T \cup (s \cup {x}) = r \cup {x}
    <3>1. r \in SUBSET S
      OBVIOUS
    <3>2. IsFiniteSet(r)
      BY <3>1, FS_Subset
    <3>3. QED
      BY <3>2
  <2>2. Total(f, r) = Total(f, T)
    BY <1>2
  <2>3. f[x] = 0 /\ s \cup {x} \in SUBSET (S \ T)
    OBVIOUS
  <2> HIDE DEF r
  <2>4. Total(f, r \cup {x}) = f[x] + Total(f, r)
    BY ONLY <2>1, TotalMore
  <2>5. Total(f, r) \in Int
    <3>1. IsFiniteSet(r) /\ \A v \in r : f[v] \in Int
      BY <2>1
    <3>2. QED
      BY ONLY <3>1, TotalType
  <2> DEFINE a == Total(f, r \cup {x})
             c == Total(f, r)
  <2>6. a = c
    <3>1. a = f[x] + c /\ f[x] = 0 /\ c \in Int
      BY <2>3, <2>4, <2>5
    <3> HIDE DEF a, c
    <3>2. QED
      BY ONLY <3>1
  <2>7. Total(f, T \cup (s \cup {x})) = Total(f, T)
    BY ONLY <2>1, <2>2, <2>6
  <2>8. QED
    BY <2>3, <2>7
<1>3. IsFiniteSet(S \ T) /\ T \cup (S \ T) = S
  BY FS_Subset
<1> DEFINE D == S \ T
<1>4. SUBSET D \subseteq U
  <2>1. /\ IsFiniteSet(D) /\ {} \in U
        /\ \A s \in SUBSET D : s \in U => \A x \in D \ s : s \cup {x} \in U
    BY <1>1, <1>2, <1>3
  <2> HIDE DEF U, D
  <2>2. QED
    BY ONLY <2>1, FromEmpty
<1>5. QED
  BY <1>3, <1>4
=============================================================================
