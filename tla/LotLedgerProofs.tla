--------------------------- MODULE LotLedgerProofs ---------------------------
(***************************************************************************)
(* For any lot, receipts, keys, adjustments and calls at the same time:    *)
(* nothing that record_payment(), allocate_payment(), reverse_entry() and  *)
(* the repairs do to it loses a payment, allocates a receipt or an item    *)
(* beyond its amount, lets a reversed receipt pay, or loses the surplus of *)
(* one it allocated, but for the calls whose copies were old when they     *)
(* committed.                                                              *)
(***************************************************************************)
EXTENDS LotLedger, TotalLemmas

\* What is allocated of a receipt, and what a call has read of that, is of one that went
\* through allocate_payment().
NothingUnplaced ==
  \A r \in Receipt \ Placed :
    alloc[r] = None[r] /\ \A w \in Worker : seenAlloc[w][r] = None[r]

\* A reversal deletes allocations of its own receipt only, a repair those of reversed
\* receipts, and an item that is recomputed is one of those it deletes from.
CopiesBelong ==
  \A w \in Worker :
    /\ pc[w] \in {"idle", "open", "total", "adjust"} => seenAlloc[w] = None
    /\ pc[w] \in {"find", "survey", "reverse"} =>
         on[w] \in posted /\ \A r \in Receipt \ {on[w]} : seenAlloc[w][r] = None[r]
    /\ pc[w] \in {"scan", "repair"} =>
         \A r \in Receipt \ Reversed : seenAlloc[w][r] = None[r]
    /\ pc[w] \in {"reverse", "repair"} =>
         \A i \in Item \ seenOpen[w] : \A r \in Receipt : seenAlloc[w][r][i] = 0

\* No item is allocated beyond its charge by receipts that were not raced.
ItemCapped ==
  \A i \in Item \ drifted :
    Total([r \in Receipt \ raced |-> alloc[r][i]]) <= Charge[i]

\* No receipt that was not raced is allocated beyond its amount.
RowCapped == \A r \in Receipt \ raced : Total(alloc[r]) <= Amount[r]

\* The inductive invariant: the properties of the runs, and what they rest on.
LotInv ==
  /\ TypeOK
  /\ PaidIsAllocated
  /\ RowCapped
  /\ ReversedPaysNothing
  /\ SurplusIsCredited
  /\ NothingUnplaced
  /\ CopiesBelong
  /\ ItemCapped

-----------------------------------------------------------------------------
\* An amount paid out in order, to each as much as it lacks and there is left: in all,
\* what they lack or the amount.
LEMMA Cascade ==
  ASSUME NEW n \in Nat, NEW f, \A i \in 1 .. n : f[i] \in Nat, NEW c \in Nat, NEW p,
         \A i \in 1 .. n : p[i] = Least(f[i], Minus(c, TotalOver(f, 1 .. i - 1)))
  PROVE  TotalOver(p, 1 .. n) = Least(c, TotalOver(f, 1 .. n))
<1> DEFINE T == {k \in Nat : k <= n => TotalOver(p, 1 .. k) = Least(c, TotalOver(f, 1 .. k))}
<1>1. IsFiniteSet(1 .. n)
  BY FS_Interval
<1>2. \A k \in 0 .. n : TotalOver(f, 1 .. k) \in Nat
  <2>1. \A s \in SUBSET (1 .. n) : TotalOver(f, s) \in Nat
    BY <1>1, TotalNat
  <2>2. \A k \in 0 .. n : 1 .. k \in SUBSET (1 .. n)
    OBVIOUS
  <2> QED
    BY <2>1, <2>2
<1>3. \A i \in 1 .. n : p[i] \in Nat
  <2> SUFFICES ASSUME NEW i \in 1 .. n PROVE p[i] \in Nat
    OBVIOUS
  <2>1. TotalOver(f, 1 .. i - 1) \in Nat
    <3>1. i - 1 \in 0 .. n
      OBVIOUS
    <3> QED
      BY <1>2, <3>1
  <2>2. f[i] \in Nat /\ p[i] = Least(f[i], Minus(c, TotalOver(f, 1 .. i - 1)))
    OBVIOUS
  <2> QED
    BY <2>1, <2>2 DEF Least, Minus
<1>4. 0 \in T
  <2>1. 1 .. 0 = {}
    OBVIOUS
  <2>2. TotalOver(p, {}) = 0 /\ TotalOver(f, {}) = 0
    BY TotalPick, FS_EmptySet
  <2> QED
    BY <2>1, <2>2 DEF Least
<1>5. ASSUME NEW k \in Nat, k \in T PROVE k + 1 \in T
  <2> SUFFICES ASSUME k + 1 <= n
               PROVE TotalOver(p, 1 .. k + 1) = Least(c, TotalOver(f, 1 .. k + 1))
    OBVIOUS
  <2>1. /\ 1 .. k + 1 \in SUBSET (1 .. n)
        /\ k + 1 \in 1 .. k + 1
        /\ (1 .. k + 1) \ {k + 1} = 1 .. k
        /\ k + 1 - 1 = k
        /\ k \in 0 .. n
    OBVIOUS
  <2>2. TotalOver(f, 1 .. k + 1) = f[k + 1] + TotalOver(f, 1 .. k)
    <3>1. \A i \in 1 .. n : f[i] \in Int
      OBVIOUS
    <3> QED
      BY <3>1, TotalOfInterval
  <2>3. TotalOver(p, 1 .. k + 1) = p[k + 1] + TotalOver(p, 1 .. k)
    <3>1. \A i \in 1 .. n : p[i] \in Int
      BY <1>3
    <3> QED
      BY <3>1, TotalOfInterval
  <2>4. p[k + 1] = Least(f[k + 1], Minus(c, TotalOver(f, 1 .. k)))
    BY <2>1
  <2>5. TotalOver(p, 1 .. k) = Least(c, TotalOver(f, 1 .. k))
    BY <1>5
  <2>6. f[k + 1] \in Nat /\ TotalOver(f, 1 .. k) \in Nat
    BY <1>2, <2>1
  <2> HIDE DEF T
  <2>7. \A a, b \in Nat : Least(a, Minus(c, b)) + Least(c, b) = Least(c, a + b)
    BY DEF Least, Minus
  <2> QED
    BY <2>2, <2>3, <2>4, <2>5, <2>6, <2>7
<1> HIDE DEF T
<1>6. n \in T
  BY <1>4, <1>5, NaturalsByInduction
<1> QED
  BY <1>6 DEF T

\* The same from the last one back.
LEMMA CascadeBack ==
  ASSUME NEW n \in Nat, NEW f, \A i \in 1 .. n : f[i] \in Nat, NEW c \in Nat, NEW p,
         \A i \in 1 .. n : p[i] = Least(f[i], Minus(c, TotalOver(f, i + 1 .. n)))
  PROVE  TotalOver(p, 1 .. n) = Least(c, TotalOver(f, 1 .. n))
<1> DEFINE T == {k \in Nat : k <= n =>
                   TotalOver(p, n - k + 1 .. n) = Least(c, TotalOver(f, n - k + 1 .. n))}
<1>1. \A k \in 1 .. n + 1 : TotalOver(f, k .. n) \in Nat
  <2>1. IsFiniteSet(1 .. n)
    BY FS_Interval
  <2>2. \A s \in SUBSET (1 .. n) : TotalOver(f, s) \in Nat
    BY <2>1, TotalNat
  <2>3. \A k \in 1 .. n + 1 : k .. n \in SUBSET (1 .. n)
    OBVIOUS
  <2> QED
    BY <2>2, <2>3
<1>2. \A i \in 1 .. n : p[i] \in Nat
  <2> SUFFICES ASSUME NEW i \in 1 .. n PROVE p[i] \in Nat
    OBVIOUS
  <2>1. TotalOver(f, i + 1 .. n) \in Nat
    <3>1. i + 1 \in 1 .. n + 1
      OBVIOUS
    <3> QED
      BY <1>1, <3>1
  <2>2. f[i] \in Nat /\ p[i] = Least(f[i], Minus(c, TotalOver(f, i + 1 .. n)))
    OBVIOUS
  <2> QED
    BY <2>1, <2>2 DEF Least, Minus
<1>3. 0 \in T
  <2>1. n - 0 + 1 .. n = {}
    OBVIOUS
  <2>2. TotalOver(p, {}) = 0 /\ TotalOver(f, {}) = 0
    BY TotalPick, FS_EmptySet
  <2> QED
    BY <2>1, <2>2 DEF Least
<1>4. ASSUME NEW k \in Nat, k \in T PROVE k + 1 \in T
  <2> SUFFICES ASSUME k + 1 <= n
               PROVE TotalOver(p, n - (k + 1) + 1 .. n) = Least(c, TotalOver(f, n - (k + 1) + 1 .. n))
    OBVIOUS
  <2> DEFINE j == n - k
  <2>1. j \in 1 .. n /\ j + 1 \in 1 .. n + 1 /\ n - (k + 1) + 1 = j /\ n - k + 1 = j + 1
    OBVIOUS
  <2>2. TotalOver(p, j + 1 .. n) = Least(c, TotalOver(f, j + 1 .. n))
    BY <1>4, <2>1
  <2> HIDE DEF j, T
  <2>3. TotalOver(f, j .. n) = f[j] + TotalOver(f, j + 1 .. n)
    <3>1. \A i \in 1 .. n : f[i] \in Int
      OBVIOUS
    <3> QED
      BY <2>1, <3>1, TotalFromInterval
  <2>4. TotalOver(p, j .. n) = p[j] + TotalOver(p, j + 1 .. n)
    <3>1. \A i \in 1 .. n : p[i] \in Int
      BY <1>2
    <3> QED
      BY <2>1, <3>1, TotalFromInterval
  <2>5. p[j] = Least(f[j], Minus(c, TotalOver(f, j + 1 .. n)))
    BY <2>1
  <2>6. f[j] \in Nat /\ TotalOver(f, j + 1 .. n) \in Nat
    BY <1>1, <2>1
  <2>7. \A a, b \in Nat : Least(a, Minus(c, b)) + Least(c, b) = Least(c, a + b)
    BY DEF Least, Minus
  <2>8. TotalOver(p, j .. n) = Least(c, TotalOver(f, j .. n))
    BY <2>2, <2>3, <2>4, <2>5, <2>6, <2>7
  <2> QED
    BY <2>1, <2>8
<1> HIDE DEF T
<1>5. n \in T
  BY <1>3, <1>4, NaturalsByInduction
<1>6. n - n + 1 = 1
  OBVIOUS
<1> QED
  BY <1>5, <1>6 DEF T

\* The floors and minima of the code stay within the naturals.
LEMMA Floors ==
  /\ \A a, b \in Nat : Minus(a, b) \in Nat /\ Minus(a, b) <= a
  /\ \A a, b \in Nat : Least(a, b) \in Nat /\ Least(a, b) <= a /\ Least(a, b) <= b
  /\ \A a \in Nat : Minus(a, 0) = a /\ Minus(0, a) = 0 /\ Minus(a, a) = 0
BY DEF Minus, Least

\* A lot has finitely many charges, numbered, each of some cents.
LEMMA ItemFacts ==
  /\ Len(Charge) \in Nat
  /\ IsFiniteSet(Item)
  /\ \A i \in Item : i \in Nat /\ Charge[i] \in Nat
<1>1. Len(Charge) \in Nat /\ \A i \in 1 .. Len(Charge) : Charge[i] \in Nat \ {0}
  BY LotAssumption
<1>2. IsFiniteSet(1 .. Len(Charge))
  BY <1>1, FS_Interval
<1> QED
  BY <1>1, <1>2 DEF Item

\* A total of amounts is a natural number that no amount exceeds.
LEMMA TotalOfFunction ==
  ASSUME NEW S, IsFiniteSet(S), NEW f \in [S -> Nat]
  PROVE  Total(f) = TotalOver(f, S) /\ Total(f) \in Nat /\ \A x \in S : f[x] <= Total(f)
<1>1. f = [x \in S |-> f[x]]
  OBVIOUS
<1>2. Total(f) = TotalOver(f, S)
  BY <1>1 DEF Total, TotalOver
<1> QED
  BY <1>2, TotalNat

\* What a ledger holds for item i, by receipt.
Column(ledger, i) == [r \in Receipt |-> ledger[r][i]]

\* What a ledger holds for an item is a natural number, for any receipts.
LEMMA ColumnTotal ==
  ASSUME NEW ledger \in Ledgers, NEW i \in Item
  PROVE  /\ Column(ledger, i) \in [Receipt -> Nat]
         /\ Allocated(ledger, i) = TotalOver(Column(ledger, i), Receipt)
         /\ Allocated(ledger, i) \in Nat
         /\ \A s \in SUBSET Receipt :
              Total([r \in s |-> ledger[r][i]]) = TotalOver(Column(ledger, i), s)
<1>1. Column(ledger, i) \in [Receipt -> Nat]
  BY DEF Column, Ledgers
<1>2. Total(Column(ledger, i)) = TotalOver(Column(ledger, i), Receipt)
      /\ Total(Column(ledger, i)) \in Nat
  BY <1>1, LotAssumption, TotalOfFunction
<1>3. Allocated(ledger, i) = Total(Column(ledger, i))
  BY DEF Allocated, Column
<1>4. ASSUME NEW s \in SUBSET Receipt
      PROVE  Total([r \in s |-> ledger[r][i]]) = TotalOver(Column(ledger, i), s)
  <2>1. [r \in s |-> ledger[r][i]] = [r \in s |-> Column(ledger, i)[r]]
    BY DEF Column
  <2> QED
    BY <2>1 DEF Total, TotalOver
<1> QED
  BY <1>1, <1>2, <1>3, <1>4

\* So is what a ledger holds of a receipt.
LEMMA RowTotal ==
  ASSUME NEW ledger \in Ledgers, NEW r \in Receipt
  PROVE  /\ ledger[r] \in [Item -> Nat]
         /\ Total(ledger[r]) = TotalOver(ledger[r], Item)
         /\ Total(ledger[r]) \in Nat
<1>1. ledger[r] \in [Item -> Nat]
  BY DEF Ledgers
<1> QED
  BY <1>1, ItemFacts, TotalOfFunction

\* A ledger row with nothing in it.
LEMMA NoneTotal ==
  /\ None \in Ledgers
  /\ \A r \in Receipt : \A i \in Item : None[r][i] = 0
  /\ \A r \in Receipt : Total(None[r]) = 0
<1>1. None \in Ledgers /\ \A r \in Receipt : \A i \in Item : None[r][i] = 0
  BY DEF None, Ledgers
<1>2. ASSUME NEW r \in Receipt PROVE Total(None[r]) = 0
  <2>1. Total(None[r]) = TotalOver(None[r], Item)
    BY <1>1, RowTotal
  <2>2. TotalOver(None[r], {}) = 0 /\ TotalOver(None[r], {}) = TotalOver(None[r], Item)
    <3> DEFINE f == None[r]
    <3>1. \A x \in Item : f[x] \in Nat /\ f[x] \in Int /\ f[x] = 0
      BY <1>1
    <3> HIDE DEF f
    <3>2. TotalOver(f, {}) = TotalOver(f, Item)
      BY <3>1, ItemFacts, TotalWithin
    <3>3. TotalOver(f, {}) = 0
      BY <3>1, ItemFacts, TotalPick
    <3> QED
      BY <3>2, <3>3 DEF f
  <2> QED
    BY <2>1, <2>2
<1> QED
  BY <1>1, <1>2

\* The loop of allocate_payment() gives no item more than it lacks, and all of them
\* together no more than there is.
LEMMA PortionFits ==
  ASSUME TypeOK, NEW w \in Worker
  PROVE  /\ Rest(w) \in Nat
         /\ Portion(w) \in [Item -> Nat]
         /\ \A i \in Item : Outstanding(w, i) \in Nat /\ Portion(w)[i] <= Outstanding(w, i)
         /\ Total(Portion(w)) = TotalOver(Portion(w), Item)
         /\ Total(Portion(w)) \in Nat
         /\ Total(Portion(w)) <= Rest(w)
         /\ Surplus(w) \in Nat
         /\ Surplus(w) > 0 => \A i \in Item : Portion(w)[i] = Outstanding(w, i)
<1> DEFINE lacks == [i \in Item |-> Outstanding(w, i)]
           c == Rest(w)
           p == Portion(w)
<1>1. c \in Nat
  <2>1. on[w] \in Receipt /\ seenAlloc[w] \in Ledgers
    BY DEF TypeOK
  <2>2. Amount[on[w]] \in Nat /\ Total(seenAlloc[w][on[w]]) \in Nat
    BY <2>1, RowTotal, LotAssumption
  <2> QED
    BY <2>2, Floors DEF Rest
<1>2. \A i \in Item : Outstanding(w, i) \in Nat
  <2> SUFFICES ASSUME NEW i \in Item PROVE Outstanding(w, i) \in Nat
    OBVIOUS
  <2>1. seenPaid[w][i] \in Nat /\ Charge[i] \in Nat
    BY ItemFacts DEF TypeOK
  <2> QED
    BY <2>1, Floors DEF Outstanding
<1>3. ASSUME NEW i \in Item
      PROVE  Before(w, i) = TotalOver(lacks, 1 .. i - 1) /\ Before(w, i) \in Nat
  <2>1. 1 .. i - 1 \in SUBSET Item
    BY ItemFacts DEF Item
  <2>2. [j \in 1 .. i - 1 |-> Outstanding(w, j)] = [j \in 1 .. i - 1 |-> lacks[j]]
    BY <2>1
  <2>3. \A x \in Item : lacks[x] \in Nat
    BY <1>2
  <2>4. Before(w, i) = TotalOver(lacks, 1 .. i - 1)
    BY <2>2 DEF Before, Total, TotalOver
  <2> HIDE DEF lacks
  <2>5. TotalOver(lacks, 1 .. i - 1) \in Nat
    BY <2>1, <2>3, ItemFacts, TotalNat
  <2> QED
    BY <2>4, <2>5
<1>4. ASSUME NEW i \in Item
      PROVE  /\ p[i] = Least(lacks[i], Minus(c, TotalOver(lacks, 1 .. i - 1)))
             /\ p[i] \in Nat
             /\ p[i] <= Outstanding(w, i)
  <2>1. p[i] = Least(Outstanding(w, i), Minus(c, Before(w, i)))
    BY DEF Portion
  <2>2. Minus(c, Before(w, i)) \in Nat
    BY <1>1, <1>3, Floors
  <2> HIDE DEF p, c
  <2> QED
    BY <1>2, <1>3, <2>1, <2>2, Floors
<1>5. p \in [Item -> Nat]
  BY <1>4 DEF Portion
<1>6. Total(p) = TotalOver(p, Item) /\ Total(p) \in Nat
  BY <1>5, ItemFacts, TotalOfFunction
<1>7. TotalOver(p, Item) = Least(c, TotalOver(lacks, Item)) /\ TotalOver(lacks, Item) \in Nat
  <2>1. \A i \in Item : lacks[i] \in Nat
    BY <1>2
  <2> HIDE DEF lacks, c, p
  <2>2. TotalOver(lacks, Item) \in Nat
    BY <2>1, ItemFacts, TotalNat
  <2> QED
    BY <1>1, <1>4, <2>1, <2>2, ItemFacts, Cascade DEF Item
<1>8. Total(p) <= c
  BY <1>1, <1>6, <1>7, Floors
<1>9. Surplus(w) \in Nat
  BY <1>1, <1>6, Floors DEF Surplus
<1>10. ASSUME Surplus(w) > 0
       PROVE  \A i \in Item : p[i] = Outstanding(w, i)
  <2>1. TotalOver(p, Item) < c
    <3> HIDE DEF p, c
    <3> QED
      BY <1>1, <1>6, <1>8, <1>10 DEF Surplus, Minus, p, c
  <2>2. TotalOver(p, Item) = TotalOver(lacks, Item)
    <3> HIDE DEF lacks, p, c
    <3> QED
      BY <1>1, <1>7, <2>1 DEF Least
  <2>3. ASSUME NEW i \in Item
        PROVE  p[i] \in Int /\ lacks[i] \in Int /\ p[i] <= lacks[i]
    <3>1. lacks[i] = Outstanding(w, i)
      OBVIOUS
    <3> HIDE DEF p, lacks
    <3> QED
      BY <1>2, <1>4, <3>1
  <2>4. \A i \in Item : p[i] = lacks[i]
    <3> HIDE DEF lacks, p
    <3> QED
      BY <2>2, <2>3, ItemFacts, TotalSqueeze
  <2> QED
    BY <2>4
<1> QED
  BY <1>1, <1>2, <1>4, <1>5, <1>6, <1>8, <1>9, <1>10

\* decrement_paid_for_year() takes from no item more than it has, and what it is asked for
\* if there is enough.
LEMMA TakeFits ==
  ASSUME TypeOK, NEW w \in Worker, NEW a \in Adjustment
  PROVE  /\ Take(w, a) \in [Item -> Nat]
         /\ \A i \in Item : Take(w, a)[i] <= seenPaid[w][i]
         /\ Total(seenPaid[w]) >= Cents[a] => Total(Take(w, a)) = Cents[a]
<1>1. ASSUME NEW i \in Item
      PROVE  After(w, i) \in Nat /\ After(w, i) = TotalOver(seenPaid[w], i + 1 .. Len(Charge))
  <2> DEFINE f == seenPaid[w]
             s == i + 1 .. Len(Charge)
  <2>1. s \in SUBSET Item
    BY ItemFacts DEF Item
  <2>2. \A x \in Item : f[x] \in Nat
    BY DEF TypeOK
  <2>3. After(w, i) = TotalOver(f, s)
    BY DEF After, Total, TotalOver
  <2> HIDE DEF f, s
  <2>4. After(w, i) \in Nat
    BY <2>1, <2>2, <2>3, ItemFacts, TotalNat
  <2> QED
    BY <2>3, <2>4 DEF f, s
<1>2. ASSUME NEW i \in Item
      PROVE  /\ Take(w, a)[i] \in Nat
             /\ Take(w, a)[i] <= seenPaid[w][i]
  <2>1. seenPaid[w][i] \in Nat /\ Cents[a] \in Nat
    BY LotAssumption DEF TypeOK
  <2>2. Minus(Cents[a], After(w, i)) \in Nat
    BY <1>1, <2>1, Floors
  <2>3. Take(w, a)[i] = Least(seenPaid[w][i], Minus(Cents[a], After(w, i)))
    BY DEF Take
  <2> QED
    BY <2>1, <2>2, <2>3, Floors
<1>3. Take(w, a) \in [Item -> Nat]
  BY <1>2 DEF Take
<1>4. ASSUME Total(seenPaid[w]) >= Cents[a]
      PROVE  Total(Take(w, a)) = Cents[a]
  <2> DEFINE f == seenPaid[w]
             p == Take(w, a)
             n == Len(Charge)
  <2>1. f \in [Item -> Nat] /\ p \in [Item -> Nat] /\ Cents[a] \in Nat /\ n \in Nat
    BY <1>3, LotAssumption, ItemFacts DEF TypeOK
  <2>2. Total(f) = TotalOver(f, Item) /\ Total(p) = TotalOver(p, Item) /\ Total(f) \in Nat
    BY <2>1, ItemFacts, TotalOfFunction
  <2>3. \A i \in 1 .. n : f[i] \in Nat
    BY <2>1 DEF Item
  <2>4. \A i \in 1 .. n : p[i] = Least(f[i], Minus(Cents[a], TotalOver(f, i + 1 .. n)))
    <3> SUFFICES ASSUME NEW i \in Item
                 PROVE  p[i] = Least(f[i], Minus(Cents[a], TotalOver(f, i + 1 .. n)))
      BY DEF Item
    <3>1. p[i] = Least(f[i], Minus(Cents[a], After(w, i)))
      BY DEF Take
    <3>2. After(w, i) = TotalOver(f, i + 1 .. n)
      BY <1>1
    <3> QED
      BY <3>1, <3>2
  <2> HIDE DEF f, p, n
  <2>5. TotalOver(p, 1 .. n) = Least(Cents[a], TotalOver(f, 1 .. n))
    BY <2>1, <2>3, <2>4, CascadeBack
  <2>6. Item = 1 .. n
    BY DEF Item, n
  <2>7. Total(f) >= Cents[a]
    BY <1>4 DEF f
  <2>8. Total(p) = Cents[a]
    BY <2>1, <2>2, <2>5, <2>6, <2>7 DEF Least
  <2> QED
    BY <2>8 DEF p
<1> QED
  BY <1>2, <1>3, <1>4

\* delete_allocations() only takes away.
LEMMA LeftFits ==
  ASSUME TypeOK, NEW w \in Worker
  PROVE  /\ Left(w) \in Ledgers
         /\ \A r \in Receipt : \A i \in Item :
              /\ Left(w)[r][i] = Minus(alloc[r][i], seenAlloc[w][r][i])
              /\ alloc[r][i] \in Nat /\ seenAlloc[w][r][i] \in Nat
              /\ Left(w)[r][i] <= alloc[r][i]
<1>1. ASSUME NEW r \in Receipt, NEW i \in Item
      PROVE  /\ Left(w)[r][i] = Minus(alloc[r][i], seenAlloc[w][r][i])
             /\ alloc[r][i] \in Nat /\ seenAlloc[w][r][i] \in Nat
             /\ Left(w)[r][i] \in Nat
             /\ Left(w)[r][i] <= alloc[r][i]
  <2>1. alloc[r][i] \in Nat /\ seenAlloc[w][r][i] \in Nat
    <3>1. alloc \in [Receipt -> [Item -> Nat]] /\ seenAlloc[w] \in [Receipt -> [Item -> Nat]]
      BY DEF TypeOK, Ledgers
    <3> QED
      BY <3>1
  <2>2. Left(w)[r][i] = Minus(alloc[r][i], seenAlloc[w][r][i])
    BY DEF Left
  <2> QED
    BY <2>1, <2>2, Floors
<1>2. Left(w) = [r \in Receipt |-> [i \in Item |-> Minus(alloc[r][i], seenAlloc[w][r][i])]]
  BY DEF Left
<1>3. \A r \in Receipt : Left(w)[r] \in [Item -> Nat]
  BY <1>1, <1>2
<1>4. Left(w) \in Ledgers
  BY <1>2, <1>3 DEF Ledgers
<1> QED
  BY <1>1, <1>4

-----------------------------------------------------------------------------
\* A step that writes nothing to the ledger.
ReadsOnly ==
  UNCHANGED <<paid, settled, posted, bare, alloc, reversals, adjusted, credit, drifted, raced>>

\* Which steps write to the ledger, apart from create_levy().
LEMMA StepKinds ==
  ASSUME NEW w \in Worker, Step(w)
  PROVE  \/ ReadsOnly
         \/ PostBare(w) \/ Allocate(w) \/ CommitReversal(w) \/ CommitRepair(w)
         \/ \E a \in Adjustment : Decrement(w, a)
BY DEF Step, ReadsOnly, ledgerVars, Record, AllocateAgain, ReadOpen, ReadTotal, RecordRefused,
       Reverse, FindStale, Repair, Survey, ReverseRefused, RejectRefused, Adjust,
       AdjustRefused, Abort

\* The end of a call leaves its local state well typed.
LEMMA EndTyped ==
  ASSUME TypeOK, NEW w \in Worker, End(w)
  PROVE  /\ pc' \in [Worker -> PC]
         /\ on' \in [Worker -> Receipt]
         /\ key' \in [Worker -> Key]
         /\ fresh' \in [Worker -> BOOLEAN]
         /\ seenPaid' \in [Worker -> [Item -> Nat]]
         /\ seenOpen' \in [Worker -> SUBSET Item]
         /\ seenAlloc' \in [Worker -> Ledgers]
<1>1. (CHOOSE r \in Receipt : TRUE) \in Receipt
  BY LotAssumption
<1>2. None \in Ledgers /\ [i \in Item |-> 0] \in [Item -> Nat] /\ RejectKey \in Key
  BY NoneTotal, LotAssumption
<1> QED
  BY <1>1, <1>2 DEF TypeOK, End, GoTo, PC

\* What the calls keep for themselves has its type.
LocalsTyped ==
  /\ pc \in [Worker -> PC]
  /\ on \in [Worker -> Receipt]
  /\ key \in [Worker -> Key]
  /\ fresh \in [Worker -> BOOLEAN]
  /\ seenPaid \in [Worker -> [Item -> Nat]]
  /\ seenOpen \in [Worker -> SUBSET Item]
  /\ seenAlloc \in [Worker -> Ledgers]

\* A step that only reads keeps the types of what the calls keep.
LEMMA ReadsTyped ==
  ASSUME TypeOK, NEW w \in Worker, Step(w), ReadsOnly
  PROVE  LocalsTyped'
<1>1. CASE End(w)
  BY <1>1, EndTyped DEF LocalsTyped
<1>2. ASSUME NEW r \in Receipt, Record(w, r) \/ AllocateAgain(w, r)
      PROVE  LocalsTyped'
  <2>1. CASE Record(w, r)
    BY <2>1 DEF LocalsTyped, TypeOK, Record, GoTo, PC
  <2>2. CASE AllocateAgain(w, r)
    BY <2>2 DEF LocalsTyped, TypeOK, AllocateAgain, GoTo, PC
  <2> QED
    BY <1>2, <2>1, <2>2
<1>3. CASE ReadOpen(w)
  <2>1. (1 .. raised) \ settled \in SUBSET Item
    BY ItemFacts DEF TypeOK, Item
  <2> QED
    BY <1>3, <2>1 DEF LocalsTyped, TypeOK, ReadOpen, GoTo, PC
<1>4. CASE ReadTotal(w)
  <2>1. seenAlloc' = [seenAlloc EXCEPT ![w][on[w]] = alloc[on[w]]]
        /\ UNCHANGED <<on, key, fresh, seenPaid, seenOpen>>
    BY <1>4 DEF ReadTotal
  <2>2. seenAlloc' \in [Worker -> Ledgers]
    BY <2>1 DEF TypeOK, Ledgers
  <2> QED
    BY <1>4, <2>1, <2>2 DEF LocalsTyped, TypeOK, ReadTotal, GoTo, PC
<1>5. ASSUME NEW r \in Receipt, NEW k \in Key, Reverse(w, r, k)
      PROVE  LocalsTyped'
  BY <1>5 DEF LocalsTyped, TypeOK, Reverse, GoTo, PC
<1>6. CASE FindStale(w)
  <2>1. seenAlloc' = [seenAlloc EXCEPT ![w][on[w]] = alloc[on[w]]]
        /\ UNCHANGED <<on, key, fresh, seenPaid, seenOpen>>
    BY <1>6 DEF FindStale
  <2>2. seenAlloc' \in [Worker -> Ledgers]
    BY <2>1 DEF TypeOK, Ledgers
  <2>3. pc' \in [Worker -> PC]
    BY <1>6 DEF FindStale, TypeOK, GoTo, PC
  <2> QED
    BY <2>1, <2>2, <2>3 DEF LocalsTyped, TypeOK
<1>7. CASE Repair(w)
  <2> DEFINE l == [r \in Receipt |-> IF r \in Reversed THEN alloc[r] ELSE None[r]]
  <2>1. l \in Ledgers
    BY NoneTotal DEF TypeOK, Ledgers
  <2> QED
    BY <1>7, <2>1 DEF LocalsTyped, TypeOK, Repair, GoTo, PC
<1>8. CASE Survey(w)
  <2> DEFINE s == [i \in Item |-> Allocated(Left(w), i)]
  <2>1. s \in [Item -> Nat]
    BY LeftFits, ColumnTotal
  <2>2. Affected(w) \in SUBSET Item
    BY DEF Affected
  <2> HIDE DEF s
  <2>3. /\ seenOpen' = [seenOpen EXCEPT ![w] = Affected(w)]
        /\ seenPaid' = [seenPaid EXCEPT ![w] = s]
        /\ UNCHANGED <<on, key, fresh, seenAlloc>>
    BY <1>8 DEF Survey, s
  <2>4. pc' \in [Worker -> PC]
    BY <1>8 DEF Survey, TypeOK, GoTo, PC
  <2> QED
    BY <2>1, <2>2, <2>3, <2>4 DEF LocalsTyped, TypeOK
<1>9. CASE Adjust(w)
  <2> DEFINE s == [i \in Item |-> IF i <= raised THEN paid[i] ELSE 0]
  <2>1. s \in [Item -> Nat]
    BY DEF TypeOK
  <2> QED
    BY <1>9, <2>1 DEF LocalsTyped, TypeOK, Adjust, GoTo, PC
<1>10. CASE PostBare(w) \/ Allocate(w) \/ CommitReversal(w) \/ CommitRepair(w)
            \/ (\E a \in Adjustment : Decrement(w, a)) \/ Abort(w)
  BY <1>1, <1>10 DEF PostBare, Allocate, CommitReversal, CommitRepair, Unwind, Decrement, Abort
<1>11. CASE RecordRefused(w) \/ ReverseRefused(w) \/ RejectRefused(w)
            \/ \E a \in Adjustment : AdjustRefused(w, a)
  BY <1>1, <1>11 DEF RecordRefused, ReverseRefused, RejectRefused, AdjustRefused
<1> QED
  BY <1>2, <1>3, <1>4, <1>5, <1>6, <1>7, <1>8, <1>9, <1>10, <1>11 DEF Step

\* Every step keeps the types.
LEMMA TypeStep ==
  ASSUME TypeOK, [Next]_vars
  PROVE  TypeOK'
<1>1. CASE UNCHANGED vars
  BY <1>1 DEF TypeOK, vars, ledgerVars, callVars
<1>2. CASE RaiseLevy
  <2>1. raised' \in 0 .. Len(Charge)
    BY <1>2, ItemFacts DEF RaiseLevy, TypeOK
  <2> QED
    BY <1>2, <2>1 DEF RaiseLevy, TypeOK, callVars
<1>3. ASSUME NEW w \in Worker, Step(w), ReadsOnly
      PROVE  TypeOK'
  <2>1. LocalsTyped'
    BY <1>3, ReadsTyped
  <2>2. raised' = raised
    BY <1>3 DEF Step, ledgerVars, Record, AllocateAgain, ReadOpen, ReadTotal, RecordRefused,
       Reverse, FindStale, Repair, Survey, ReverseRefused, RejectRefused, Adjust,
       AdjustRefused, Abort, PostBare, Allocate, CommitReversal, CommitRepair, Unwind, Decrement
  <2> QED
    BY <1>3, <2>1, <2>2 DEF TypeOK, LocalsTyped, ReadsOnly
<1>4. ASSUME NEW w \in Worker, Allocate(w)
      PROVE  TypeOK'
  <2> DEFINE r == on[w]
             p == Portion(w)
  <2>1. r \in Receipt /\ p \in [Item -> Nat] /\ Surplus(w) \in Nat
    BY PortionFits DEF TypeOK
  <2> HIDE DEF p
  <2>2. /\ posted' = posted \cup {r}
        /\ bare' = bare \ {r}
        /\ alloc' = [alloc EXCEPT ![r] = [i \in Item |-> @[i] + p[i]]]
        /\ paid' = [i \in Item |-> paid[i] + p[i]]
        /\ credit' = credit + Surplus(w)
        /\ raced' \in {raced, raced \cup {r}}
        /\ End(w)
        /\ UNCHANGED <<raised, settled, reversals, adjusted, drifted>>
    BY <1>4 DEF Allocate, p
  <2>3. alloc' \in Ledgers
    <3>1. [i \in Item |-> alloc[r][i] + p[i]] \in [Item -> Nat]
      BY <2>1 DEF TypeOK, Ledgers
    <3> QED
      BY <2>1, <2>2, <3>1 DEF TypeOK, Ledgers
  <2>4. paid' \in [Item -> Nat] /\ credit' \in Nat /\ posted' \subseteq Receipt
        /\ bare' \subseteq posted' /\ raced' \subseteq Receipt
    BY <2>1, <2>2 DEF TypeOK
  <2> HIDE DEF r
  <2> QED
    BY <2>2, <2>3, <2>4, EndTyped DEF TypeOK
<1>5. ASSUME NEW w \in Worker, CommitReversal(w) \/ CommitRepair(w)
      PROVE  TypeOK'
  <2>1. Unwind(w)
    BY <1>5 DEF CommitReversal, CommitRepair
  <2>2. reversals' \in [Receipt -> SUBSET Key] /\ raced' \subseteq Receipt
    <3>1. CASE CommitRepair(w)
      BY <3>1 DEF CommitRepair, TypeOK
    <3>2. CASE CommitReversal(w)
      <4>1. /\ reversals' = [reversals EXCEPT ![on[w]] = @ \cup {key[w]}]
            /\ raced' = IF alloc[on[w]] # seenAlloc[w][on[w]] THEN raced \cup {on[w]} ELSE raced
        BY <3>2 DEF CommitReversal
      <4>2. on[w] \in Receipt /\ reversals[on[w]] \cup {key[w]} \in SUBSET Key
        BY DEF TypeOK
      <4> QED
        BY <4>1, <4>2 DEF TypeOK
    <3> QED
      BY <1>5, <3>1, <3>2
  <2>3. alloc' \in Ledgers
    BY <2>1, LeftFits DEF Unwind
  <2>4. paid' \in [Item -> Nat]
    BY <2>1 DEF Unwind, TypeOK
  <2>5. settled' \subseteq Item /\ drifted' \subseteq Item
    BY <2>1 DEF Unwind, TypeOK
  <2>6. UNCHANGED <<raised, posted, bare, adjusted, credit>> /\ End(w)
    BY <2>1 DEF Unwind
  <2> QED
    BY <2>2, <2>3, <2>4, <2>5, <2>6, EndTyped DEF TypeOK
<1>6. ASSUME NEW w \in Worker, NEW a \in Adjustment, Decrement(w, a)
      PROVE  TypeOK'
  <2> DEFINE p == Take(w, a)
  <2>1. p \in [Item -> Nat] /\ \A i \in Item : p[i] <= seenPaid[w][i]
    BY TakeFits
  <2> HIDE DEF p
  <2>2. \A i \in Item : seenPaid[w][i] - p[i] \in Nat
    BY <2>1 DEF TypeOK
  <2>3. /\ adjusted' = adjusted \cup {a}
        /\ paid' = [i \in Item |-> IF i \in {j \in Item : p[j] > 0}
                                   THEN seenPaid[w][i] - p[i] ELSE paid[i]]
        /\ drifted' = drifted \cup {i \in Item : p[i] > 0}
        /\ End(w)
        /\ UNCHANGED <<raised, settled, posted, bare, alloc, reversals, credit, raced>>
    BY <1>6 DEF Decrement, p
  <2>4. paid' \in [Item -> Nat]
    BY <2>2, <2>3 DEF TypeOK
  <2> QED
    BY <2>3, <2>4, EndTyped DEF TypeOK
<1>7. ASSUME NEW w \in Worker, PostBare(w)
      PROVE  TypeOK'
  <2>1. on[w] \in Receipt
    BY DEF TypeOK
  <2> QED
    BY <1>7, <2>1, EndTyped DEF PostBare, TypeOK
<1> QED
  BY <1>1, <1>2, <1>3, <1>4, <1>5, <1>6, <1>7, StepKinds DEF Next

\* The lot before its first charge is typed.
LEMMA TypeInit == Init => TypeOK
<1> SUFFICES ASSUME Init PROVE TypeOK
  OBVIOUS
<1>1. (CHOOSE r \in Receipt : TRUE) \in Receipt
  BY LotAssumption
<1>2. None \in Ledgers /\ [i \in Item |-> 0] \in [Item -> Nat] /\ RejectKey \in Key
      /\ Len(Charge) \in Nat
  BY NoneTotal, LotAssumption, ItemFacts
<1> QED
  BY <1>1, <1>2 DEF Init, TypeOK, PC

-----------------------------------------------------------------------------
\* What the four kinds of writes do to the ledger: a receipt that is posted bare is not
\* placed yet.
LEMMA PostBareEffect ==
  ASSUME NEW w \in Worker, PostBare(w)
  PROVE  /\ Placed' = Placed
         /\ posted \subseteq posted'
         /\ UNCHANGED <<paid, alloc, reversals, adjusted, credit, drifted, raced>>
BY DEF PostBare, Placed

\* allocate_payment() places its receipt.
LEMMA AllocateEffect ==
  ASSUME TypeOK, NEW w \in Worker, Allocate(w)
  PROVE  /\ on[w] \in Receipt
         /\ alloc' \in Ledgers
         /\ \A i \in Item : /\ alloc'[on[w]][i] = alloc[on[w]][i] + Portion(w)[i]
                            /\ paid'[i] = paid[i] + Portion(w)[i]
         /\ \A q \in Receipt \ {on[w]} : alloc'[q] = alloc[q]
         /\ posted' = posted \cup {on[w]}
         /\ Placed' = Placed \cup {on[w]}
         /\ credit' = credit + Surplus(w)
         /\ reversals' = reversals /\ drifted' = drifted /\ raced \subseteq raced'
         /\ on[w] \notin raced' =>
              /\ alloc[on[w]] = seenAlloc[w][on[w]]
              /\ reversals[on[w]] = {}
              /\ \A i \in Item : Portion(w)[i] > 0 => paid[i] = seenPaid[w][i]
         /\ raced' \subseteq raced \cup {on[w]}
<1> DEFINE r == on[w]
           p == Portion(w)
<1>1. r \in Receipt /\ p \in [Item -> Nat]
  BY PortionFits DEF TypeOK
<1>2. /\ posted' = posted \cup {r}
      /\ bare' = bare \ {r}
      /\ alloc' = [alloc EXCEPT ![r] = [i \in Item |-> @[i] + p[i]]]
      /\ paid' = [i \in Item |-> paid[i] + p[i]]
      /\ credit' = credit + Surplus(w)
      /\ raced' = IF reversals[r] # {} \/ alloc[r] # seenAlloc[w][r]
                     \/ \E i \in Item : p[i] > 0 /\ paid[i] # seenPaid[w][i]
                  THEN raced \cup {r}
                  ELSE raced
      /\ UNCHANGED <<reversals, drifted>>
  BY DEF Allocate
<1> HIDE DEF p, r
<1>3. alloc \in [Receipt -> [Item -> Nat]]
  BY DEF TypeOK, Ledgers
<1>4. [i \in Item |-> alloc[r][i] + p[i]] \in [Item -> Nat]
  BY <1>1, <1>3
<1>5. alloc' \in Ledgers
  BY <1>1, <1>2, <1>3, <1>4 DEF Ledgers
<1>6. alloc'[r] = [i \in Item |-> alloc[r][i] + p[i]] /\ \A q \in Receipt \ {r} : alloc'[q] = alloc[q]
  BY <1>1, <1>2, <1>3
<1>7. Placed' = Placed \cup {r}
  BY <1>2 DEF Placed
<1> QED
  BY <1>1, <1>2, <1>5, <1>6, <1>7 DEF p, r

\* allocate_payment() adds what it hands out to the receipt's allocations.
LEMMA AllocateTotal ==
  ASSUME TypeOK, NEW w \in Worker, Allocate(w)
  PROVE  /\ Total(alloc'[on[w]]) = Total(alloc[on[w]]) + Total(Portion(w))
         /\ Total(alloc[on[w]]) \in Nat
<1> DEFINE a == alloc[on[w]]
           p == Portion(w)
           l == alloc'[on[w]]
<1>1. /\ a \in [Item -> Nat] /\ Total(a) = TotalOver(a, Item) /\ Total(a) \in Nat
      /\ l \in [Item -> Nat] /\ Total(l) = TotalOver(l, Item)
  BY AllocateEffect, RowTotal DEF TypeOK
<1>2. p \in [Item -> Nat] /\ Total(p) = TotalOver(p, Item)
  BY PortionFits
<1>3. \A i \in Item : l[i] = a[i] + p[i]
  BY AllocateEffect
<1> HIDE DEF a, p, l
<1>4. TotalOver(l, Item) = TotalOver(a, Item) + TotalOver(p, Item)
  BY <1>1, <1>2, <1>3, ItemFacts, TotalSum
<1> QED
  BY <1>1, <1>2, <1>4 DEF a, p, l

\* The commit of a call that deletes allocations and recomputes the items they were of.
Commit(w) == CommitReversal(w) \/ CommitRepair(w)

\* What such a commit leaves, the items it wrote an old sum to apart.
LEMMA CommitEffect ==
  ASSUME TypeOK, NEW w \in Worker, Commit(w)
  PROVE  /\ alloc' = Left(w)
         /\ \A i \in Item : paid'[i] = IF i \in seenOpen[w] THEN seenPaid[w][i] ELSE paid[i]
         /\ drifted \subseteq drifted'
         /\ \A i \in seenOpen[w] \ drifted' : seenPaid[w][i] = Allocated(Left(w), i)
         /\ posted' = posted /\ Placed' = Placed /\ credit' = credit
         /\ raced \subseteq raced'
         /\ Reversed \subseteq Reversed'
         /\ pc[w] = "reverse" =>
              /\ on[w] \in Reversed'
              /\ Reversed' \subseteq Reversed \cup {on[w]}
              /\ on[w] \notin raced' => alloc[on[w]] = seenAlloc[w][on[w]]
         /\ pc[w] # "reverse" => pc[w] = "repair" /\ Reversed' = Reversed
<1>1. Unwind(w)
  BY DEF Commit, CommitReversal, CommitRepair
<1>2. /\ alloc' = Left(w)
      /\ paid' = [i \in Item |-> IF i \in seenOpen[w] THEN seenPaid[w][i] ELSE paid[i]]
      /\ drifted' = drifted \cup {i \in seenOpen[w] : seenPaid[w][i] # Allocated(Left(w), i)}
      /\ UNCHANGED <<posted, credit>>
      /\ Placed' = Placed
  BY <1>1 DEF Unwind, Placed
<1>3. CASE CommitReversal(w)
  <2>1. /\ pc[w] = "reverse"
        /\ on[w] \in Receipt
        /\ reversals' = [reversals EXCEPT ![on[w]] = @ \cup {key[w]}]
        /\ raced' = IF alloc[on[w]] # seenAlloc[w][on[w]] THEN raced \cup {on[w]} ELSE raced
    BY <1>3 DEF CommitReversal, TypeOK
  <2>2. \A q \in Receipt \ {on[w]} : reversals'[q] = reversals[q]
    BY <2>1 DEF TypeOK
  <2>3. reversals'[on[w]] = reversals[on[w]] \cup {key[w]}
    BY <2>1 DEF TypeOK
  <2>4. /\ on[w] \in Reversed' /\ Reversed \subseteq Reversed'
        /\ Reversed' \subseteq Reversed \cup {on[w]}
    BY <2>1, <2>2, <2>3 DEF Reversed
  <2> QED
    BY <1>2, <2>1, <2>4
<1>4. CASE CommitRepair(w)
  <2>1. pc[w] = "repair" /\ reversals' = reversals /\ raced' = raced
    BY <1>4 DEF CommitRepair
  <2> QED
    BY <1>2, <2>1 DEF Reversed
<1> QED
  BY <1>3, <1>4 DEF Commit

\* What an adjustment leaves, the items it wrote an old sum to apart.
LEMMA DecrementEffect ==
  ASSUME TypeOK, NEW w \in Worker, NEW a \in Adjustment, Decrement(w, a)
  PROVE  /\ drifted \subseteq drifted'
         /\ \A i \in Item \ drifted' : paid'[i] = paid[i]
         /\ UNCHANGED <<posted, alloc, reversals, credit, raced>>
         /\ Placed' = Placed
BY DEF Decrement, TypeOK, Placed

-----------------------------------------------------------------------------
\* A ledger that differs in one receipt differs in an item by that receipt's cents.
LEMMA ColumnUpdate ==
  ASSUME NEW ledger \in Ledgers, NEW later \in Ledgers, NEW r \in Receipt, NEW i \in Item,
         \A q \in Receipt \ {r} : later[q][i] = ledger[q][i]
  PROVE  \A s \in SUBSET Receipt :
           TotalOver(Column(later, i), s) =
             TotalOver(Column(ledger, i), s) + (IF r \in s THEN later[r][i] - ledger[r][i] ELSE 0)
<1> DEFINE f == Column(ledger, i)
           g == Column(later, i)
<1>1. f \in [Receipt -> Nat] /\ g \in [Receipt -> Nat]
  BY ColumnTotal
<1>2. \A q \in Receipt : f[q] = ledger[q][i] /\ g[q] = later[q][i]
  BY DEF Column
<1> HIDE DEF f, g
<1>3. ASSUME NEW s \in SUBSET Receipt
      PROVE  TotalOver(g, s) = TotalOver(f, s) + (IF r \in s THEN later[r][i] - ledger[r][i] ELSE 0)
  <2>1. IsFiniteSet(s)
    BY LotAssumption, FS_Subset
  <2>2. \A x \in s : f[x] \in Int /\ g[x] \in Int
    BY <1>1
  <2>3. CASE r \in s
    <3>1. \A x \in s \ {r} : g[x] = f[x]
      BY <1>2
    <3>2. TotalOver(g, s) = TotalOver(f, s) + (g[r] - f[r])
      BY <2>1, <2>2, <2>3, <3>1, TotalUpdate
    <3> QED
      BY <1>2, <2>3, <3>2
  <2>4. CASE r \notin s
    <3>1. TotalOver(g, s) = TotalOver(f, s)
      <4>1. \A x \in s : g[x] = f[x]
        BY <1>2, <2>4
      <4> QED
        BY <4>1, TotalSame
    <3>2. TotalOver(f, s) \in Int
      BY <2>1, <2>2, TotalPick
    <3> QED
      BY <2>4, <3>1, <3>2
  <2> QED
    BY <2>3, <2>4
<1> QED
  BY <1>3 DEF f, g

\* save_allocations() adds to an item what it adds to the receipt's allocations.
LEMMA AllocatePaid ==
  ASSUME LotInv, NEW w \in Worker, Allocate(w)
  PROVE  PaidIsAllocated'
<1> DEFINE r == on[w]
           p == Portion(w)
           later == alloc'
<1>1. /\ r \in Receipt /\ later \in Ledgers /\ alloc \in Ledgers
      /\ \A i \in Item : later[r][i] = alloc[r][i] + p[i] /\ paid'[i] = paid[i] + p[i]
      /\ \A q \in Receipt \ {r} : later[q] = alloc[q]
      /\ drifted' = drifted
  BY AllocateEffect DEF LotInv, TypeOK
<1>2. p \in [Item -> Nat]
  BY PortionFits DEF LotInv
<1> HIDE DEF p, r, later
<1>3. ASSUME NEW i \in Item \ drifted
      PROVE  paid'[i] = Allocated(later, i)
  <2>1. TotalOver(Column(later, i), Receipt) =
          TotalOver(Column(alloc, i), Receipt) + (later[r][i] - alloc[r][i])
    BY <1>1, ColumnUpdate
  <2>2. /\ Allocated(later, i) = TotalOver(Column(later, i), Receipt)
        /\ Allocated(alloc, i) = TotalOver(Column(alloc, i), Receipt)
        /\ Allocated(alloc, i) \in Nat
    BY <1>1, ColumnTotal
  <2>3. paid[i] = Allocated(alloc, i)
    BY DEF LotInv, PaidIsAllocated
  <2>4. alloc[r][i] \in Nat /\ p[i] \in Nat
    BY <1>1, <1>2 DEF Ledgers
  <2>5. later[r][i] - alloc[r][i] = p[i]
    BY <1>1, <2>4
  <2> QED
    BY <1>1, <2>1, <2>2, <2>3, <2>4, <2>5
<1> QED
  BY <1>1, <1>3 DEF PaidIsAllocated, later

\* recompute_paid_cents() writes what it has summed up, and only the items it deletes from
\* change their allocations.
LEMMA CommitPaid ==
  ASSUME LotInv, NEW w \in Worker, Commit(w)
  PROVE  PaidIsAllocated'
<1> SUFFICES ASSUME NEW i \in Item \ drifted'
             PROVE  paid'[i] = Allocated(Left(w), i)
  BY CommitEffect DEF PaidIsAllocated, LotInv
<1>1. CASE i \in seenOpen[w]
  BY <1>1, CommitEffect DEF LotInv
<1>2. CASE i \notin seenOpen[w]
  <2>1. pc[w] \in {"reverse", "repair"}
    BY DEF Commit, CommitReversal, CommitRepair
  <2>2. \A r \in Receipt : seenAlloc[w][r][i] = 0
    BY <1>2, <2>1 DEF LotInv, CopiesBelong
  <2>3. \A r \in Receipt : Left(w)[r][i] = alloc[r][i]
    BY <2>2, LeftFits, Floors DEF LotInv
  <2>4. [r \in Receipt |-> Left(w)[r][i]] = [r \in Receipt |-> alloc[r][i]]
    BY <2>3
  <2>5. Allocated(Left(w), i) = Allocated(alloc, i)
    BY <2>4 DEF Allocated
  <2>6. paid'[i] = paid[i] /\ i \notin drifted
    BY <1>2, CommitEffect DEF LotInv
  <2> QED
    BY <2>5, <2>6 DEF LotInv, PaidIsAllocated
<1> QED
  BY <1>1, <1>2

-----------------------------------------------------------------------------
\* A call whose copy is current adds no more than what is left of the receipt.
LEMMA AllocateRow ==
  ASSUME LotInv, NEW w \in Worker, Allocate(w)
  PROVE  RowCapped'
<1> SUFFICES ASSUME NEW q \in Receipt \ raced'
             PROVE  Total(alloc'[q]) <= Amount[q]
  BY DEF RowCapped
<1>1. q \notin raced /\ Total(alloc[q]) <= Amount[q]
  BY AllocateEffect DEF LotInv, RowCapped
<1>2. CASE q # on[w]
  BY <1>1, <1>2, AllocateEffect DEF LotInv
<1>3. CASE q = on[w]
  <2>1. alloc[q] = seenAlloc[w][q]
    BY <1>3, AllocateEffect DEF LotInv
  <2>2. Total(alloc'[q]) = Total(alloc[q]) + Total(Portion(w)) /\ Total(alloc[q]) \in Nat
    BY <1>3, AllocateTotal DEF LotInv
  <2>3. Total(Portion(w)) \in Nat /\ Total(Portion(w)) <= Rest(w)
    BY PortionFits DEF LotInv
  <2>4. Rest(w) = Minus(Amount[q], Total(alloc[q])) /\ Amount[q] \in Nat
    BY <1>3, <2>1, LotAssumption DEF Rest
  <2> QED
    BY <1>1, <2>2, <2>3, <2>4 DEF Minus
<1> QED
  BY <1>2, <1>3

\* A commit that deletes keeps every receipt within its amount.
LEMMA CommitRow ==
  ASSUME LotInv, NEW w \in Worker, Commit(w)
  PROVE  RowCapped'
<1> SUFFICES ASSUME NEW q \in Receipt \ raced'
             PROVE  Total(Left(w)[q]) <= Amount[q]
  BY CommitEffect DEF RowCapped, LotInv
<1>1. Total(alloc[q]) <= Amount[q]
  BY CommitEffect DEF LotInv, RowCapped
<1> DEFINE f == Left(w)[q]
           g == alloc[q]
<1>2. f \in [Item -> Nat] /\ g \in [Item -> Nat] /\ \A i \in Item : f[i] <= g[i]
  BY LeftFits, RowTotal DEF LotInv, TypeOK
<1>3. /\ Total(f) = TotalOver(f, Item) /\ Total(f) \in Nat
      /\ Total(g) = TotalOver(g, Item) /\ Total(g) \in Nat
  BY LeftFits, RowTotal DEF LotInv, TypeOK
<1>4. Amount[q] \in Nat
  BY LotAssumption
<1> HIDE DEF f, g
<1>5. TotalOver(f, Item) <= TotalOver(g, Item)
  BY <1>2, ItemFacts, TotalMonotone
<1>6. Total(f) <= Total(g)
  BY <1>3, <1>5
<1> QED
  BY <1>1, <1>3, <1>4, <1>6 DEF f, g

-----------------------------------------------------------------------------
\* What ItemCapped sums up, by column.
LEMMA ItemTotal ==
  ASSUME NEW ledger \in Ledgers, NEW i \in Item, NEW s \in SUBSET Receipt
  PROVE  /\ Total([r \in s |-> ledger[r][i]]) = TotalOver(Column(ledger, i), s)
         /\ TotalOver(Column(ledger, i), s) \in Nat
         /\ TotalOver(Column(ledger, i), s) <= Allocated(ledger, i)
         /\ \A u \in SUBSET s : TotalOver(Column(ledger, i), u) <= TotalOver(Column(ledger, i), s)
<1> DEFINE f == Column(ledger, i)
<1>1. /\ f \in [Receipt -> Nat]
      /\ Allocated(ledger, i) = TotalOver(f, Receipt)
      /\ Total([r \in s |-> ledger[r][i]]) = TotalOver(f, s)
  BY ColumnTotal
<1> HIDE DEF f
<1>2. IsFiniteSet(Receipt) /\ IsFiniteSet(s)
  BY LotAssumption, FS_Subset
<1>3. TotalOver(f, s) \in Nat
  BY <1>1, <1>2, TotalNat
<1>4. TotalOver(f, s) <= TotalOver(f, Receipt)
  BY <1>1, <1>2, TotalWithin
<1>5. \A u \in SUBSET s : TotalOver(f, u) <= TotalOver(f, s)
  <2>1. \A x \in s : f[x] \in Nat
    BY <1>1
  <2> QED
    BY <1>2, <2>1, TotalWithin
<1> QED
  BY <1>1, <1>3, <1>4, <1>5 DEF f

\* A call that saw the current paid_cents fills an item up to its charge.
LEMMA AllocateItem ==
  ASSUME LotInv, NEW w \in Worker, Allocate(w)
  PROVE  ItemCapped'
<1> DEFINE later == alloc'
           r == on[w]
           p == Portion(w)
           s == Receipt \ raced
           u == Receipt \ raced'
<1>1. /\ r \in Receipt /\ later \in Ledgers /\ alloc \in Ledgers
      /\ \A i \in Item : later[r][i] = alloc[r][i] + p[i]
      /\ \A q \in Receipt \ {r} : later[q] = alloc[q]
      /\ drifted' = drifted
      /\ u \in SUBSET s
      /\ r \in u => \A i \in Item : p[i] > 0 => paid[i] = seenPaid[w][i]
  BY AllocateEffect DEF LotInv, TypeOK
<1> SUFFICES ASSUME NEW i \in Item \ drifted
             PROVE  TotalOver(Column(later, i), u) <= Charge[i]
  <2>1. \A j \in Item : Total([q \in u |-> later[q][j]]) = TotalOver(Column(later, j), u)
    BY <1>1, ItemTotal
  <2> QED
    BY <1>1, <2>1 DEF ItemCapped
<1>2. p[i] \in Nat /\ alloc[r][i] \in Nat /\ Charge[i] \in Nat /\ paid[i] \in Nat
  BY <1>1, PortionFits, ItemFacts DEF LotInv, TypeOK, Ledgers
<1>3. p[i] <= Outstanding(w, i) /\ Outstanding(w, i) \in Nat
  BY PortionFits DEF LotInv
<1>4. /\ TotalOver(Column(alloc, i), s) <= Charge[i]
      /\ TotalOver(Column(alloc, i), u) <= TotalOver(Column(alloc, i), s)
      /\ TotalOver(Column(alloc, i), s) \in Nat
      /\ TotalOver(Column(alloc, i), u) \in Nat
      /\ TotalOver(Column(alloc, i), s) <= Allocated(alloc, i)
      /\ Allocated(alloc, i) \in Nat
  <2>1. Total([q \in s |-> alloc[q][i]]) <= Charge[i]
    BY DEF LotInv, ItemCapped
  <2> HIDE DEF s, u
  <2>2. s \in SUBSET Receipt /\ u \in SUBSET s
    BY <1>1 DEF s
  <2>3. u \in SUBSET Receipt
    BY <2>2
  <2> QED
    BY <1>1, <2>1, <2>2, <2>3, ItemTotal, ColumnTotal
<1>5. TotalOver(Column(later, i), u) =
        TotalOver(Column(alloc, i), u) + (IF r \in u THEN later[r][i] - alloc[r][i] ELSE 0)
  <2>1. u \in SUBSET Receipt
    OBVIOUS
  <2>2. \A q \in Receipt \ {r} : later[q][i] = alloc[q][i]
    BY <1>1
  <2> HIDE DEF u, later, r
  <2> QED
    BY <1>1, <2>1, <2>2, ColumnUpdate
<1>6. later[r][i] - alloc[r][i] = p[i]
  <2> HIDE DEF later, r, p
  <2> QED
    BY <1>1, <1>2
<1>7. paid[i] = Allocated(alloc, i)
  BY DEF LotInv, PaidIsAllocated
<1>8. CASE r \in u /\ p[i] > 0
  <2>1. Outstanding(w, i) \in {0, Minus(Charge[i], paid[i])}
    BY <1>1, <1>8 DEF Outstanding
  <2>2. p[i] <= Minus(Charge[i], paid[i])
    BY <1>2, <1>3, <1>8, <2>1, Floors
  <2> HIDE DEF u, r, p, later, s
  <2>3. paid[i] + p[i] <= Charge[i]
    BY <1>2, <1>8, <2>2 DEF Minus
  <2> QED
    BY <1>2, <1>4, <1>5, <1>6, <1>7, <1>8, <2>3
<1>9. CASE ~ (r \in u /\ p[i] > 0)
  <2> HIDE DEF u, r, p, later, s
  <2> QED
    BY <1>2, <1>4, <1>5, <1>6, <1>9
<1> QED
  BY <1>8, <1>9

\* A commit that deletes keeps every item within its charge.
LEMMA CommitItem ==
  ASSUME LotInv, NEW w \in Worker, Commit(w)
  PROVE  ItemCapped'
<1> DEFINE s == Receipt \ raced
           u == Receipt \ raced'
<1>1. /\ alloc' = Left(w) /\ drifted \subseteq drifted' /\ u \in SUBSET s
      /\ Left(w) \in Ledgers /\ alloc \in Ledgers
      /\ \A r \in Receipt : \A i \in Item : Left(w)[r][i] <= alloc[r][i]
  BY CommitEffect, LeftFits DEF LotInv, TypeOK
<1> SUFFICES ASSUME NEW i \in Item \ drifted
             PROVE  TotalOver(Column(Left(w), i), u) <= Charge[i]
  <2>1. \A j \in Item : Total([q \in u |-> Left(w)[q][j]]) = TotalOver(Column(Left(w), j), u)
    BY <1>1, ItemTotal
  <2> QED
    BY <1>1, <2>1 DEF ItemCapped
<1> DEFINE f == Column(Left(w), i)
           g == Column(alloc, i)
<1>2. \A q \in u : f[q] \in Int /\ g[q] \in Int /\ f[q] <= g[q]
  <2>1. f \in [Receipt -> Nat] /\ g \in [Receipt -> Nat]
    BY <1>1, ColumnTotal
  <2>2. \A q \in Receipt : f[q] <= g[q]
    BY <1>1 DEF Column
  <2> QED
    BY <2>1, <2>2
<1>3. /\ TotalOver(g, s) <= Charge[i]
      /\ TotalOver(g, u) <= TotalOver(g, s)
      /\ TotalOver(g, s) \in Nat /\ TotalOver(g, u) \in Nat /\ TotalOver(f, u) \in Nat
  <2>1. Total([q \in s |-> alloc[q][i]]) <= Charge[i]
    BY DEF LotInv, ItemCapped
  <2> HIDE DEF s, u
  <2>2. s \in SUBSET Receipt /\ u \in SUBSET s
    BY <1>1 DEF s
  <2>3. u \in SUBSET Receipt
    BY <2>2
  <2> QED
    BY <1>1, <2>1, <2>2, <2>3, ItemTotal
<1>4. IsFiniteSet(u) /\ Charge[i] \in Nat
  BY LotAssumption, FS_Subset, ItemFacts
<1> HIDE DEF f, g, u, s
<1>5. TotalOver(f, u) <= TotalOver(g, u)
  BY <1>2, <1>4, TotalMonotone
<1> QED
  BY <1>3, <1>4, <1>5 DEF f

-----------------------------------------------------------------------------
\* What allocates a reversed receipt had looked before it was reversed.
LEMMA AllocateReversed ==
  ASSUME LotInv, NEW w \in Worker, Allocate(w)
  PROVE  ReversedPaysNothing'
<1> SUFFICES ASSUME NEW q \in Receipt, reversals[q] # {}, q \notin raced'
             PROVE  alloc'[q] = None[q]
  BY AllocateEffect DEF ReversedPaysNothing, Reversed, LotInv
<1>1. q # on[w] /\ q \notin raced
  BY AllocateEffect DEF LotInv
<1>2. alloc[q] = None[q]
  BY <1>1 DEF LotInv, ReversedPaysNothing, Reversed
<1> QED
  BY <1>1, <1>2, AllocateEffect DEF LotInv

\* A reversal takes all of the receipt's allocations away, and none come back.
LEMMA CommitReversed ==
  ASSUME LotInv, NEW w \in Worker, Commit(w)
  PROVE  ReversedPaysNothing'
<1> SUFFICES ASSUME NEW q \in Reversed', q \notin raced'
             PROVE  Left(w)[q] = None[q]
  BY CommitEffect DEF ReversedPaysNothing, LotInv
<1>1. q \in Receipt /\ q \notin raced
  BY CommitEffect DEF LotInv, Reversed
<1>2. alloc[q] = None[q] \/ alloc[q] = seenAlloc[w][q]
  BY <1>1, CommitEffect DEF LotInv, ReversedPaysNothing
<1>3. \A i \in Item : Left(w)[q][i] = 0
  BY <1>1, <1>2, LeftFits, NoneTotal, Floors DEF LotInv
<1>4. Left(w)[q] \in [Item -> Nat] /\ None[q] \in [Item -> Nat]
  BY <1>1, LeftFits, NoneTotal, RowTotal DEF LotInv
<1>5. \A i \in Item : Left(w)[q][i] = None[q][i]
  BY <1>1, <1>3, NoneTotal
<1> QED
  BY <1>4, <1>5

-----------------------------------------------------------------------------
\* What a ledger leaves unapplied, by receipt.
Spare(ledger) == [r \in Receipt |-> Minus(Amount[r], Total(ledger[r]))]

\* What receipts have unallocated is a natural number.
LEMMA SpareTotal ==
  ASSUME NEW ledger \in Ledgers
  PROVE  /\ Spare(ledger) \in [Receipt -> Nat]
         /\ \A s \in SUBSET Receipt :
              /\ Total([r \in s |-> Minus(Amount[r], Total(ledger[r]))]) = TotalOver(Spare(ledger), s)
              /\ TotalOver(Spare(ledger), s) \in Nat
<1>1. Spare(ledger) \in [Receipt -> Nat]
  <2>1. \A r \in Receipt : Total(ledger[r]) \in Nat /\ Amount[r] \in Nat
    BY RowTotal, LotAssumption
  <2> QED
    BY <2>1, Floors DEF Spare
<1>2. ASSUME NEW s \in SUBSET Receipt
      PROVE  Total([r \in s |-> Minus(Amount[r], Total(ledger[r]))]) = TotalOver(Spare(ledger), s)
  <2>1. [r \in s |-> Minus(Amount[r], Total(ledger[r]))] = [r \in s |-> Spare(ledger)[r]]
    BY DEF Spare
  <2> QED
    BY <2>1 DEF Total, TotalOver
<1>3. \A s \in SUBSET Receipt : TotalOver(Spare(ledger), s) \in Nat
  BY <1>1, LotAssumption, TotalNat
<1> QED
  BY <1>1, <1>2, <1>3

\* The surplus of a receipt goes to the credit when it is placed; allocating it again
\* leaves less of it unapplied.
LEMMA AllocateSurplus ==
  ASSUME LotInv, NEW w \in Worker, Allocate(w)
  PROVE  SurplusIsCredited'
<1> DEFINE later == alloc'
           r == on[w]
           s == Placed \ Reversed
           u == Placed' \ Reversed
           f == Spare(alloc)
           g == Spare(later)
<1>1. /\ r \in Receipt /\ later \in Ledgers /\ alloc \in Ledgers
      /\ \A i \in Item : later[r][i] = alloc[r][i] + Portion(w)[i]
      /\ \A q \in Receipt \ {r} : later[q] = alloc[q]
      /\ Placed' = Placed \cup {r} /\ credit' = credit + Surplus(w) /\ Reversed' = Reversed
  BY AllocateEffect DEF LotInv, TypeOK, Reversed
<1>2. s \in SUBSET Receipt /\ u \in SUBSET Receipt /\ IsFiniteSet(s) /\ IsFiniteSet(u)
  BY <1>1, LotAssumption, FS_Subset DEF LotInv, TypeOK, Placed
<1>3. credit >= TotalOver(f, s) /\ credit \in Nat /\ Surplus(w) \in Nat
  <2>1. Total([q \in s |-> Minus(Amount[q], Total(alloc[q]))]) = TotalOver(f, s)
    BY <1>1, <1>2, SpareTotal
  <2> QED
    BY <2>1, PortionFits DEF LotInv, TypeOK, SurplusIsCredited, Unapplied
<1> SUFFICES credit + Surplus(w) >= TotalOver(g, u)
  <2>1. Total([q \in u |-> Minus(Amount[q], Total(later[q]))]) = TotalOver(g, u)
    BY <1>1, <1>2, SpareTotal
  <2> QED
    BY <1>1, <2>1 DEF SurplusIsCredited, Unapplied
<1>4. f \in [Receipt -> Nat] /\ g \in [Receipt -> Nat]
  BY <1>1, SpareTotal
<1>5. \A q \in Receipt \ {r} : g[q] = f[q]
  BY <1>1 DEF Spare
<1>6. TotalOver(g, s) \in Nat /\ TotalOver(f, s) \in Nat
  BY <1>1, <1>2, SpareTotal
<1>7. Total(later[r]) = Total(alloc[r]) + Total(Portion(w)) /\ Total(alloc[r]) \in Nat
  BY AllocateTotal DEF LotInv
<1>8. /\ f[r] = Minus(Amount[r], Total(alloc[r]))
      /\ g[r] = Minus(Amount[r], Total(later[r]))
      /\ Amount[r] \in Nat /\ Total(Portion(w)) \in Nat
  BY <1>1, LotAssumption, PortionFits DEF Spare, LotInv
<1>9. CASE u = s
  <2>1. g[r] <= f[r]
    BY <1>7, <1>8 DEF Minus
  <2>2. \A q \in s : f[q] \in Int /\ g[q] \in Int /\ g[q] <= f[q]
    BY <1>2, <1>4, <1>5, <2>1
  <2> HIDE DEF f, g, s, u
  <2>3. TotalOver(g, s) <= TotalOver(f, s)
    BY <1>2, <2>2, TotalMonotone
  <2> QED
    BY <1>3, <1>6, <1>9, <2>3
<1>10. CASE u # s
  <2>1. r \in u /\ r \notin Placed /\ u \ {r} = s
    BY <1>1, <1>10
  <2>2. alloc[r] = None[r] /\ seenAlloc[w][r] = None[r]
    BY <1>1, <2>1 DEF LotInv, NothingUnplaced
  <2>3. Rest(w) = Amount[r]
    <3>1. Total(seenAlloc[w][r]) = 0
      BY <1>1, <2>2, NoneTotal
    <3> QED
      BY <1>8, <3>1, Floors DEF Rest
  <2>4. g[r] = Surplus(w)
    <3>1. Total(alloc[r]) = 0
      BY <1>1, <2>2, NoneTotal
    <3>2. Surplus(w) = Minus(Amount[r], Total(Portion(w)))
      BY <2>3 DEF Surplus
    <3> QED
      BY <1>7, <1>8, <3>1, <3>2
  <2>5. TotalOver(g, u) = g[r] + TotalOver(g, s)
    <3>1. \A q \in u : g[q] \in Int
      BY <1>2, <1>4
    <3> HIDE DEF g, u, s, r
    <3>2. TotalOver(g, u) = g[r] + TotalOver(g, u \ {r})
      BY <1>2, <2>1, <3>1, TotalPick
    <3> QED
      BY <2>1, <3>2
  <2>6. TotalOver(g, s) = TotalOver(f, s)
    <3>1. \A q \in s : g[q] = f[q]
      BY <1>2, <1>5, <2>1
    <3> QED
      BY <3>1, TotalSame
  <2> HIDE DEF f, g, s, u, r
  <2> QED
    BY <1>3, <1>6, <2>4, <2>5, <2>6
<1> QED
  BY <1>9, <1>10

\* What is reversed counts no more, and of the others nothing is taken away.
LEMMA CommitSurplus ==
  ASSUME LotInv, NEW w \in Worker, Commit(w)
  PROVE  SurplusIsCredited'
<1> DEFINE s == Placed \ Reversed
           u == Placed \ Reversed'
           f == Spare(alloc)
           g == Spare(Left(w))
<1>1. /\ Left(w) \in Ledgers /\ alloc \in Ledgers
      /\ alloc' = Left(w) /\ Placed' = Placed /\ credit' = credit /\ u \in SUBSET s
  BY CommitEffect, LeftFits DEF LotInv, TypeOK
<1>2. s \in SUBSET Receipt /\ IsFiniteSet(s)
  BY LotAssumption, FS_Subset DEF LotInv, TypeOK, Placed
<1>3. credit >= TotalOver(f, s) /\ credit \in Nat
  <2>1. Total([q \in s |-> Minus(Amount[q], Total(alloc[q]))]) = TotalOver(f, s)
    BY <1>1, <1>2, SpareTotal
  <2> QED
    BY <2>1 DEF LotInv, TypeOK, SurplusIsCredited, Unapplied
<1> SUFFICES credit >= TotalOver(g, u)
  <2>1. u \in SUBSET Receipt
    BY <1>1, <1>2
  <2>2. Total([q \in u |-> Minus(Amount[q], Total(Left(w)[q]))]) = TotalOver(g, u)
    BY <1>1, <2>1, SpareTotal
  <2> QED
    BY <1>1, <2>2 DEF SurplusIsCredited, Unapplied
<1>4. ASSUME NEW q \in u PROVE Left(w)[q] = alloc[q]
  <2>1. q \in Receipt /\ q \notin Reversed /\ q \notin Reversed'
    BY <1>1, <1>2
  <2>2. seenAlloc[w][q] = None[q]
    <3>1. CASE pc[w] = "reverse"
      BY <2>1, <3>1, CommitEffect DEF LotInv, CopiesBelong
    <3>2. CASE pc[w] # "reverse"
      BY <2>1, <3>2, CommitEffect DEF LotInv, CopiesBelong
    <3> QED
      BY <3>1, <3>2
  <2>3. \A i \in Item : Left(w)[q][i] = alloc[q][i]
    BY <2>1, <2>2, LeftFits, NoneTotal, Floors DEF LotInv
  <2>4. Left(w)[q] \in [Item -> Nat] /\ alloc[q] \in [Item -> Nat]
    BY <1>1, <2>1, RowTotal
  <2> QED
    BY <2>3, <2>4
<1>5. f \in [Receipt -> Nat]
  BY <1>1, SpareTotal
<1>6. \A q \in u : g[q] = f[q]
  BY <1>1, <1>2, <1>4 DEF Spare
<1>7. TotalOver(g, u) = TotalOver(f, u)
  <2> HIDE DEF f, g, u
  <2> QED
    BY <1>6, TotalSame
<1>8. TotalOver(f, u) <= TotalOver(f, s)
  <2>1. \A q \in s : f[q] \in Nat
    BY <1>2, <1>5
  <2> HIDE DEF f, u, s
  <2> QED
    BY <1>1, <1>2, <2>1, TotalWithin
<1>9. TotalOver(f, s) \in Nat /\ TotalOver(f, u) \in Nat
  <2>1. u \in SUBSET Receipt
    BY <1>1, <1>2
  <2> QED
    BY <1>1, <1>2, <2>1, SpareTotal
<1> HIDE DEF f, g, u, s
<1> QED
  BY <1>3, <1>7, <1>8, <1>9

-----------------------------------------------------------------------------
\* A call leaves the copies of the others alone.
LEMMA OthersKept ==
  ASSUME TypeOK, NEW w \in Worker, Step(w), NEW v \in Worker, v # w
  PROVE  /\ pc'[v] = pc[v] /\ on'[v] = on[v]
         /\ seenAlloc'[v] = seenAlloc[v] /\ seenOpen'[v] = seenOpen[v]
<1>1. CASE End(w)
  BY <1>1 DEF TypeOK, End, GoTo
<1>2. CASE ~ End(w)
  BY <1>2 DEF TypeOK, Step, GoTo, Record, AllocateAgain, ReadOpen, ReadTotal, PostBare,
     Allocate, RecordRefused, Reverse, FindStale, Repair, Survey, CommitReversal,
     CommitRepair, Unwind, ReverseRefused, RejectRefused, Adjust, Decrement, AdjustRefused, Abort
<1> QED
  BY <1>1, <1>2

\* A receipt stays posted and placed, and a reversed one reversed.
LEMMA LedgerGrows ==
  ASSUME TypeOK, NEW w \in Worker, Step(w)
  PROVE  /\ posted \subseteq posted' /\ Reversed \subseteq Reversed'
         /\ Placed \subseteq Placed'
<1>1. CASE ReadsOnly
  BY <1>1 DEF ReadsOnly, Reversed, Placed
<1>2. CASE Allocate(w)
  BY <1>2 DEF Allocate, Reversed, Placed
<1>3. CASE Commit(w)
  BY <1>3, CommitEffect
<1>4. CASE \E a \in Adjustment : Decrement(w, a)
  BY <1>4 DEF Decrement, Reversed, Placed
<1>5. CASE PostBare(w)
  BY <1>5, PostBareEffect DEF Reversed
<1> QED
  BY <1>1, <1>2, <1>3, <1>4, <1>5, StepKinds DEF Commit

\* What a call has as its copy of a receipt is the old copy, the ledger's row, or nothing.
LEMMA OwnCopy ==
  ASSUME TypeOK, NEW w \in Worker, Step(w), NEW r \in Receipt
  PROVE  \/ seenAlloc'[w][r] = seenAlloc[w][r]
         \/ seenAlloc'[w][r] = alloc[r]
         \/ seenAlloc'[w][r] = None[r]
<1>1. CASE End(w)
  BY <1>1 DEF TypeOK, End
<1>2. CASE UNCHANGED seenAlloc
  BY <1>2
<1>3. CASE seenAlloc' = [seenAlloc EXCEPT ![w][on[w]] = alloc[on[w]]]
  BY <1>3 DEF TypeOK, Ledgers
<1>4. CASE Repair(w)
  BY <1>4 DEF TypeOK, Repair
<1> QED
  BY <1>1, <1>2, <1>3, <1>4 DEF Step, Record, AllocateAgain, ReadOpen, ReadTotal, PostBare,
     Allocate, RecordRefused, Reverse, FindStale, Survey, CommitReversal, CommitRepair, Unwind,
     ReverseRefused, RejectRefused, Adjust, Decrement, AdjustRefused, Abort

\* Allocations of a receipt begin with its placing, and so do the copies of them.
LEMMA NothingStep ==
  ASSUME LotInv, NEW w \in Worker, Step(w)
  PROVE  NothingUnplaced'
<1> SUFFICES ASSUME NEW r \in Receipt \ Placed'
             PROVE  /\ alloc'[r] = None[r]
                    /\ \A v \in Worker : seenAlloc'[v][r] = None[r]
  BY DEF NothingUnplaced
<1>1. /\ r \notin Placed
      /\ alloc[r] = None[r]
      /\ \A v \in Worker : seenAlloc[v][r] = None[r]
  BY LedgerGrows DEF LotInv, NothingUnplaced
<1>2. alloc'[r] = None[r]
  <2>1. CASE ReadsOnly
    BY <1>1, <2>1 DEF ReadsOnly
  <2>2. CASE Allocate(w)
    <3>1. r # on[w]
      BY <2>2, AllocateEffect DEF LotInv
    <3> QED
      BY <1>1, <2>2, <3>1, AllocateEffect DEF LotInv
  <2>3. CASE Commit(w)
    <3>1. \A i \in Item : Left(w)[r][i] = None[r][i]
      BY <1>1, LeftFits, NoneTotal, Floors DEF LotInv
    <3>2. Left(w)[r] \in [Item -> Nat] /\ None[r] \in [Item -> Nat]
      BY LeftFits, NoneTotal, RowTotal DEF LotInv
    <3> QED
      BY <2>3, <3>1, <3>2, CommitEffect DEF LotInv
  <2>4. CASE \E a \in Adjustment : Decrement(w, a)
    BY <1>1, <2>4 DEF Decrement
  <2>5. CASE PostBare(w)
    BY <1>1, <2>5, PostBareEffect
  <2> QED
    BY <2>1, <2>2, <2>3, <2>4, <2>5, StepKinds DEF Commit
<1>3. seenAlloc'[w][r] = None[r]
  BY <1>1, OwnCopy DEF LotInv
<1>4. \A v \in Worker \ {w} : seenAlloc'[v][r] = None[r]
  BY <1>1, OthersKept DEF LotInv
<1> QED
  BY <1>2, <1>3, <1>4

\* What CopiesBelong says of one call.
CopyBelongs(w) ==
  /\ pc[w] \in {"idle", "open", "total", "adjust"} => seenAlloc[w] = None
  /\ pc[w] \in {"find", "survey", "reverse"} =>
       on[w] \in posted /\ \A r \in Receipt \ {on[w]} : seenAlloc[w][r] = None[r]
  /\ pc[w] \in {"scan", "repair"} =>
       \A r \in Receipt \ Reversed : seenAlloc[w][r] = None[r]
  /\ pc[w] \in {"reverse", "repair"} =>
       \A i \in Item \ seenOpen[w] : \A r \in Receipt : seenAlloc[w][r][i] = 0

\* A call's step keeps what is said of its own copies.
LEMMA OwnCopyBelongs ==
  ASSUME LotInv, NEW w \in Worker, Step(w)
  PROVE  CopyBelongs(w)'
<1> USE DEF GoTo
<1>0. TypeOK /\ CopyBelongs(w)
  BY DEF LotInv, CopiesBelong, CopyBelongs
<1>1. CASE End(w)
  BY <1>0, <1>1 DEF TypeOK, End, CopyBelongs
<1>2. ASSUME NEW r \in Receipt, Record(w, r) \/ AllocateAgain(w, r)
      PROVE  CopyBelongs(w)'
  <2>1. pc[w] = "idle" /\ pc' = [pc EXCEPT ![w] = "open"] /\ seenAlloc' = seenAlloc
    BY <1>2 DEF Record, AllocateAgain
  <2> QED
    BY <1>0, <2>1 DEF TypeOK, CopyBelongs
<1>3. CASE ReadOpen(w)
  BY <1>0, <1>3 DEF TypeOK, ReadOpen, CopyBelongs
<1>4. CASE ReadTotal(w)
  <2>1. pc'[w] = "allocate"
    BY <1>0, <1>4 DEF TypeOK, ReadTotal
  <2> QED
    BY <2>1 DEF CopyBelongs
<1>5. ASSUME NEW r \in Receipt, NEW k \in Key, Reverse(w, r, k)
      PROVE  CopyBelongs(w)'
  <2>1. pc[w] = "idle" /\ pc'[w] = "find" /\ on'[w] = r /\ r \in posted'
        /\ seenAlloc'[w] = None
    BY <1>0, <1>5 DEF TypeOK, Reverse, ledgerVars, CopyBelongs
  <2> QED
    BY <2>1 DEF CopyBelongs
<1>6. CASE FindStale(w)
  <2>1. /\ pc[w] = "find" /\ on'[w] = on[w] /\ posted' = posted
        /\ pc'[w] = IF alloc[on[w]] = None[on[w]] THEN "reverse" ELSE "survey"
        /\ seenAlloc' = [seenAlloc EXCEPT ![w][on[w]] = alloc[on[w]]]
    BY <1>0, <1>6 DEF TypeOK, FindStale, ledgerVars
  <2>2. on[w] \in posted /\ \A r \in Receipt \ {on[w]} : seenAlloc[w][r] = None[r]
    BY <1>0, <2>1 DEF CopyBelongs
  <2>3. \A r \in Receipt \ {on[w]} : seenAlloc'[w][r] = None[r]
    BY <1>0, <2>1, <2>2 DEF TypeOK, Ledgers
  <2>4. seenAlloc'[w][on[w]] = alloc[on[w]]
    BY <1>0, <2>1 DEF TypeOK, Ledgers
  <2>5. pc'[w] = "reverse" => \A i \in Item : \A r \in Receipt : seenAlloc'[w][r][i] = 0
    BY <2>1, <2>3, <2>4, NoneTotal
  <2> QED
    BY <2>1, <2>2, <2>3, <2>5 DEF CopyBelongs
<1>7. CASE Repair(w)
  <2>1. /\ pc'[w] = "scan" /\ reversals' = reversals
        /\ seenAlloc'[w] = [r \in Receipt |-> IF r \in Reversed THEN alloc[r] ELSE None[r]]
    BY <1>0, <1>7 DEF TypeOK, Repair, ledgerVars
  <2>2. Reversed' = Reversed
    BY <2>1 DEF Reversed
  <2> QED
    BY <2>1, <2>2 DEF CopyBelongs
<1>8. CASE Survey(w)
  <2>1. /\ pc[w] \in {"survey", "scan"}
        /\ pc'[w] = IF pc[w] = "survey" THEN "reverse" ELSE "repair"
        /\ seenOpen'[w] = Affected(w)
        /\ seenAlloc' = seenAlloc /\ on' = on /\ posted' = posted /\ reversals' = reversals
    BY <1>0, <1>8 DEF TypeOK, Survey, ledgerVars
  <2>2. Reversed' = Reversed
    BY <2>1 DEF Reversed
  <2>3. \A i \in Item \ Affected(w) : \A r \in Receipt : seenAlloc[w][r][i] = 0
    BY <1>0, LeftFits DEF Affected
  <2> QED
    BY <1>0, <2>1, <2>2, <2>3 DEF CopyBelongs
<1>9. CASE Adjust(w)
  BY <1>0, <1>9 DEF TypeOK, Adjust, CopyBelongs
<1> QED
  BY <1>1, <1>2, <1>3, <1>4, <1>5, <1>6, <1>7, <1>8, <1>9 DEF Step, PostBare, Allocate,
     RecordRefused, CommitReversal, CommitRepair, Unwind, ReverseRefused, RejectRefused,
     Decrement, AdjustRefused, Abort

\* A call's step keeps what is said of every call's copies.
LEMMA CopiesStep ==
  ASSUME LotInv, NEW w \in Worker, Step(w)
  PROVE  CopiesBelong'
<1>1. ASSUME NEW v \in Worker PROVE CopyBelongs(v)'
  <2>1. CASE v = w
    BY <2>1, OwnCopyBelongs
  <2>2. CASE v # w
    <3>1. /\ pc'[v] = pc[v] /\ on'[v] = on[v]
          /\ seenAlloc'[v] = seenAlloc[v] /\ seenOpen'[v] = seenOpen[v]
          /\ posted \subseteq posted' /\ Reversed \subseteq Reversed'
      BY <2>2, OthersKept, LedgerGrows DEF LotInv
    <3>2. CopyBelongs(v)
      BY DEF LotInv, CopiesBelong, CopyBelongs
    <3> QED
      BY <3>1, <3>2 DEF CopyBelongs
  <2> QED
    BY <2>1, <2>2
<1> QED
  BY <1>1 DEF CopiesBelong, CopyBelongs

-----------------------------------------------------------------------------
\* Steps that write neither payments nor allocations.
LEMMA Untouched ==
  ASSUME LotInv, Placed' = Placed, UNCHANGED <<paid, alloc, reversals, credit, drifted, raced>>
  PROVE  /\ PaidIsAllocated' /\ RowCapped' /\ ItemCapped'
         /\ ReversedPaysNothing' /\ SurplusIsCredited'
<1>1. Reversed' = Reversed
  BY DEF Reversed
<1>2. PaidIsAllocated' /\ RowCapped'
  BY DEF LotInv, PaidIsAllocated, RowCapped
<1>3. ItemCapped'
  BY DEF LotInv, ItemCapped
<1>4. ReversedPaysNothing'
  BY <1>1 DEF LotInv, ReversedPaysNothing
<1>5. SurplusIsCredited'
  BY <1>1 DEF LotInv, SurplusIsCredited, Unapplied
<1> QED
  BY <1>2, <1>3, <1>4, <1>5

\* An adjustment counts the items it takes from as drifted.
LEMMA DecrementStep ==
  ASSUME LotInv, NEW w \in Worker, NEW a \in Adjustment, Decrement(w, a)
  PROVE  /\ PaidIsAllocated' /\ RowCapped' /\ ItemCapped'
         /\ ReversedPaysNothing' /\ SurplusIsCredited'
<1>1. /\ drifted \subseteq drifted'
      /\ \A i \in Item \ drifted' : paid'[i] = paid[i]
      /\ Placed' = Placed
      /\ UNCHANGED <<alloc, reversals, credit, raced>>
  BY DecrementEffect DEF LotInv
<1>2. Reversed' = Reversed
  BY <1>1 DEF Reversed
<1>3. PaidIsAllocated' /\ RowCapped'
  BY <1>1 DEF LotInv, PaidIsAllocated, RowCapped
<1>4. ItemCapped'
  BY <1>1 DEF LotInv, ItemCapped
<1>5. ReversedPaysNothing'
  BY <1>1, <1>2 DEF LotInv, ReversedPaysNothing
<1>6. SurplusIsCredited'
  BY <1>1, <1>2 DEF LotInv, SurplusIsCredited, Unapplied
<1> QED
  BY <1>3, <1>4, <1>5, <1>6

\* An empty ledger holds nothing for an item.
LEMMA NoneColumn ==
  ASSUME NEW i \in Item, NEW s \in SUBSET Receipt
  PROVE  Total([r \in s |-> None[r][i]]) = 0 /\ Allocated(None, i) = 0
<1> DEFINE f == Column(None, i)
<1>1. /\ f \in [Receipt -> Nat]
      /\ Allocated(None, i) = TotalOver(f, Receipt)
      /\ Total([r \in s |-> None[r][i]]) = TotalOver(f, s)
      /\ \A r \in Receipt : f[r] = 0
  BY NoneTotal, ColumnTotal DEF Column
<1>2. IsFiniteSet(Receipt) /\ IsFiniteSet(s)
  BY LotAssumption, FS_Subset
<1> HIDE DEF f
<1>3. \A u \in SUBSET Receipt : TotalOver(f, u) = TotalOver(f, {})
  <2> SUFFICES ASSUME NEW u \in SUBSET Receipt PROVE TotalOver(f, u) = TotalOver(f, {})
    OBVIOUS
  <2>1. IsFiniteSet(u) /\ \A x \in u : f[x] \in Nat /\ f[x] = 0
    BY <1>1, <1>2, FS_Subset
  <2> QED
    BY <2>1, TotalWithin
<1>4. TotalOver(f, {}) = 0
  <2>1. \A x \in Receipt : f[x] \in Int
    BY <1>1
  <2> QED
    BY <1>2, <2>1, TotalPick
<1> QED
  BY <1>1, <1>3, <1>4

\* The invariant holds before the first charge.
LEMMA LotInit == Init => LotInv
<1> SUFFICES ASSUME Init PROVE LotInv
  OBVIOUS
<1>1. TypeOK
  BY TypeInit
<1>2. alloc = None /\ Placed = {} /\ Reversed = {} /\ credit = 0 /\ drifted = {} /\ raced = {}
      /\ \A i \in Item : paid[i] = 0
  BY DEF Init, Reversed, Placed
<1>3. PaidIsAllocated
  <2>1. \A i \in Item : Allocated(None, i) = 0
    BY NoneColumn
  <2> QED
    BY <1>2, <2>1 DEF PaidIsAllocated
<1>4. RowCapped
  <2>1. \A r \in Receipt : Total(None[r]) = 0 /\ Amount[r] \in Nat
    BY NoneTotal, LotAssumption
  <2> QED
    BY <1>2, <2>1 DEF RowCapped
<1>5. ReversedPaysNothing
  BY <1>2 DEF ReversedPaysNothing
<1>6. SurplusIsCredited
  <2>1. TotalOver(Spare(alloc), {}) = 0
    <3>1. IsFiniteSet({})
      BY FS_EmptySet
    <3> QED
      BY <3>1, TotalPick
  <2>2. Total([r \in {} |-> Minus(Amount[r], Total(alloc[r]))]) = TotalOver(Spare(alloc), {})
    BY <1>1, SpareTotal DEF TypeOK
  <2>3. Placed \ Reversed = {}
    BY <1>2
  <2> QED
    BY <1>2, <2>1, <2>2, <2>3 DEF SurplusIsCredited, Unapplied
<1>7. NothingUnplaced
  BY <1>2 DEF Init, NothingUnplaced
<1>8. CopiesBelong
  BY DEF Init, CopiesBelong
<1>9. ItemCapped
  <2> SUFFICES ASSUME NEW i \in Item
               PROVE  Total([r \in Receipt \ {} |-> None[r][i]]) <= Charge[i]
    BY <1>2 DEF ItemCapped
  <2>1. Receipt \ {} \in SUBSET Receipt
    OBVIOUS
  <2>2. Total([r \in Receipt \ {} |-> None[r][i]]) = 0
    BY <2>1, NoneColumn
  <2> QED
    BY <2>2, ItemFacts
<1> QED
  BY <1>1, <1>3, <1>4, <1>5, <1>6, <1>7, <1>8, <1>9 DEF LotInv

\* Every step keeps the invariant: one step of the proof for each call that writes.
LEMMA LotStep ==
  ASSUME LotInv, [Next]_vars
  PROVE  LotInv'
<1>1. TypeOK'
  BY TypeStep DEF LotInv
<1>2. ASSUME UNCHANGED vars \/ RaiseLevy
      PROVE  LotInv'
  <2>1. /\ Placed' = Placed
        /\ UNCHANGED <<paid, alloc, reversals, credit, drifted, raced>>
        /\ UNCHANGED <<posted, pc, on, seenOpen, seenAlloc>>
    BY <1>2 DEF vars, ledgerVars, callVars, RaiseLevy, Placed
  <2>2. NothingUnplaced' /\ CopiesBelong'
    BY <2>1 DEF LotInv, NothingUnplaced, CopiesBelong, Reversed
  <2> QED
    BY <1>1, <2>1, <2>2, Untouched DEF LotInv
<1>3. ASSUME NEW w \in Worker, Step(w)
      PROVE  LotInv'
  <2>1. NothingUnplaced' /\ CopiesBelong'
    BY <1>3, NothingStep, CopiesStep
  <2>2. /\ PaidIsAllocated' /\ RowCapped' /\ ItemCapped'
        /\ ReversedPaysNothing' /\ SurplusIsCredited'
    <3>1. CASE ReadsOnly
      BY <3>1, Untouched DEF ReadsOnly, Placed
    <3>2. CASE Allocate(w)
      BY <3>2, AllocatePaid, AllocateRow, AllocateItem, AllocateReversed, AllocateSurplus
    <3>3. CASE Commit(w)
      BY <3>3, CommitPaid, CommitRow, CommitItem, CommitReversed, CommitSurplus
    <3>4. ASSUME NEW a \in Adjustment, Decrement(w, a)
          PROVE  /\ PaidIsAllocated' /\ RowCapped' /\ ItemCapped'
                 /\ ReversedPaysNothing' /\ SurplusIsCredited'
      BY <3>4, DecrementStep
    <3>5. CASE PostBare(w)
      BY <3>5, PostBareEffect, Untouched
    <3> QED
      BY <1>3, <3>1, <3>2, <3>3, <3>4, <3>5, StepKinds DEF Commit
  <2> QED
    BY <1>1, <2>1, <2>2 DEF LotInv
<1> QED
  BY <1>2, <1>3 DEF Next

\* An item paid beyond its charge is one a raced receipt pays for.
LEMMA OverpaidIsRaced ==
  ASSUME LotInv
  PROVE  NeverOverAllocated
<1> SUFFICES ASSUME NEW i \in Item \ drifted, \A r \in raced : ~ (alloc[r][i] > 0)
             PROVE  paid[i] <= Charge[i]
  BY DEF LotInv, RowCapped, NeverOverAllocated
<1> DEFINE f == Column(alloc, i)
           s == Receipt \ raced
<1>1. /\ f \in [Receipt -> Nat]
      /\ Allocated(alloc, i) = TotalOver(f, Receipt)
      /\ Total([r \in s |-> alloc[r][i]]) = TotalOver(f, s)
  <2>1. alloc \in Ledgers /\ s \in SUBSET Receipt
    BY DEF LotInv, TypeOK
  <2> HIDE DEF s
  <2> QED
    BY <2>1, ColumnTotal
<1>2. \A r \in Receipt \ s : f[r] = 0
  <2>1. \A r \in Receipt : f[r] = alloc[r][i] /\ f[r] \in Nat
    BY <1>1 DEF Column
  <2> QED
    BY <2>1
<1>3. paid[i] = Allocated(alloc, i) /\ Total([r \in s |-> alloc[r][i]]) <= Charge[i]
  BY DEF LotInv, PaidIsAllocated, ItemCapped
<1>4. IsFiniteSet(Receipt) /\ s \in SUBSET Receipt
  BY LotAssumption
<1> HIDE DEF f, s
<1>5. TotalOver(f, s) = TotalOver(f, Receipt)
  BY <1>1, <1>2, <1>4, TotalWithin
<1> QED
  BY <1>1, <1>3, <1>5

-----------------------------------------------------------------------------
\* The invariant the five theorems rest on.
THEOREM LotCorrect == Spec => []LotInv
<1>1. LotInv /\ [Next]_vars => LotInv'
  BY LotStep
<1> QED
  BY LotInit, <1>1, PTL DEF Spec

\* Every number of the ledger and of the copies the calls hold is a natural one: nothing
\* record_payment(), reverse_entry() or record_adjustment() subtracts goes below zero.
THEOREM TypeCorrect == Spec => []TypeOK
<1>1. LotInv => TypeOK
  BY DEF LotInv
<1> QED
  BY LotCorrect, <1>1, PTL

\* Calls that overlap lose no payment: an item counts as paid what is allocated to it,
\* unless an adjustment took from it or a recompute overwrote what it had not seen.
THEOREM PaidAllocated == Spec => []PaidIsAllocated
<1>1. LotInv => PaidIsAllocated
  BY DEF LotInv
<1> QED
  BY LotCorrect, <1>1, PTL

\* Repeating allocate_payment(), or reversing and allocating anew, never allocates a
\* receipt beyond its amount or pays an item beyond its charge; calls that overlap may.
THEOREM NeverOver == Spec => []NeverOverAllocated
<1>1. LotInv => NeverOverAllocated
  BY OverpaidIsRaced
<1> QED
  BY LotCorrect, <1>1, PTL

\* reverse_entry()'s cascade leaves nothing of a reversed receipt allocated, unless a call
\* that had read it before allocated it.
THEOREM ReversedPayNothing == Spec => []ReversedPaysNothing
<1>1. LotInv => ReversedPaysNothing
  BY DEF LotInv
<1> QED
  BY LotCorrect, <1>1, PTL

\* The lot's credit holds at least what the receipts that went through allocate_payment()
\* leave unapplied: two surpluses recorded at the same time are both in it
\* (upsert_owner_credit()).
THEOREM SurplusCredited == Spec => []SurplusIsCredited
<1>1. LotInv => SurplusIsCredited
  BY DEF LotInv
<1> QED
  BY LotCorrect, <1>1, PTL

-----------------------------------------------------------------------------
\* Which step it is that ends a call with a surplus, a placed receipt or an adjustment.
LEMMA WhoWrites ==
  ASSUME LotInv, [Next]_vars
  PROVE  /\ Placed' # Placed \/ credit' # credit => \E w \in Worker : Allocate(w)
         /\ adjusted' # adjusted =>
              \E w \in Worker, a \in Adjustment : Decrement(w, a) /\ adjusted' = adjusted \cup {a}
<1>1. CASE UNCHANGED vars \/ RaiseLevy
  BY <1>1 DEF vars, ledgerVars, RaiseLevy, Placed
<1>2. ASSUME NEW w \in Worker, Step(w)
      PROVE  /\ Placed' # Placed \/ credit' # credit => Allocate(w)
             /\ adjusted' # adjusted =>
                  \E a \in Adjustment : Decrement(w, a) /\ adjusted' = adjusted \cup {a}
  <2>1. CASE ReadsOnly
    BY <2>1 DEF ReadsOnly, Placed
  <2>2. CASE Allocate(w)
    BY <2>2 DEF Allocate
  <2>3. CASE Commit(w)
    BY <2>3 DEF Commit, CommitReversal, CommitRepair, Unwind, Placed
  <2>4. ASSUME NEW a \in Adjustment, Decrement(w, a)
        PROVE  Placed' = Placed /\ credit' = credit /\ adjusted' = adjusted \cup {a}
    BY <2>4 DEF Decrement, Placed
  <2>5. CASE PostBare(w)
    BY <2>5, PostBareEffect
  <2> QED
    BY <1>2, <2>1, <2>2, <2>3, <2>4, <2>5, StepKinds DEF Commit
<1> QED
  BY <1>1, <1>2 DEF Next

\* A worker whose call just ended is the one that made the step.
LEMMA WhoEnds ==
  ASSUME TypeOK, NEW v \in Worker, Step(v), NEW w \in Worker, pc'[w] # pc[w]
  PROVE  v = w
BY OthersKept

\* PlacedInFull, of one step.
LEMMA PlacedStep ==
  ASSUME LotInv, [Next]_vars, NEW r \in Placed' \ Placed
  PROVE  Total(alloc'[r]) + (credit' - credit) = Amount[r]
<1>1. PICK w \in Worker : Allocate(w)
  BY WhoWrites
<1>2. r = on[w] /\ r \in Receipt /\ r \notin Placed /\ credit' = credit + Surplus(w)
  BY <1>1, AllocateEffect DEF LotInv
<1>3. Total(alloc[r]) = 0 /\ Total(seenAlloc[w][r]) = 0
  BY <1>2, NoneTotal DEF LotInv, NothingUnplaced
<1>4. Total(alloc'[r]) = Total(Portion(w))
  <2>1. Total(alloc'[r]) = Total(alloc[r]) + Total(Portion(w))
    BY <1>1, <1>2, AllocateTotal DEF LotInv
  <2> QED
    BY <1>3, <2>1, PortionFits DEF LotInv
<1>5. Rest(w) = Amount[r] /\ Amount[r] \in Nat
  BY <1>2, <1>3, LotAssumption, Floors DEF Rest
<1>6. Total(Portion(w)) \in Nat /\ Total(Portion(w)) <= Rest(w) /\ credit \in Nat
  BY PortionFits DEF LotInv, TypeOK
<1>7. Surplus(w) = Amount[r] - Total(Portion(w))
  BY <1>5, <1>6 DEF Surplus, Minus
<1> QED
  BY <1>2, <1>4, <1>5, <1>6, <1>7

\* The first allocate_payment() of a payment places it to the cent: it credits what the
\* levy items do not take of it.
THEOREM PlacedWhole == Spec => PlacedInFull
<1>1. LotInv /\ [Next]_vars =>
        [\A r \in Placed' \ Placed : Total(alloc'[r]) + (credit' - credit) = Amount[r]]_vars
  BY PlacedStep
<1> QED
  BY <1>1, LotCorrect, PTL DEF Spec, PlacedInFull

\* CreditIsLeftover, of one step.
LEMMA LeftoverStep ==
  ASSUME LotInv, [Next]_vars, NEW w \in Worker,
         pc[w] = "allocate", pc'[w] = "idle", credit' > credit,
         \A i \in seenOpen[w] : paid[i] = seenPaid[w][i]
  PROVE  \A i \in seenOpen[w] : paid'[i] >= Charge[i]
<1>1. PICK v \in Worker : Allocate(v)
  <2>1. credit' # credit
    <3>1. credit \in Nat
      BY DEF LotInv, TypeOK
    <3> QED
      BY <3>1
  <2> QED
    BY <2>1, WhoWrites
<1>2. v = w
  <2>1. Step(v)
    BY <1>1 DEF Step
  <2> QED
    BY <2>1, WhoEnds DEF LotInv
<1>3. Surplus(w) > 0
  <2>1. credit' = credit + Surplus(w) /\ credit \in Nat /\ Surplus(w) \in Nat
    BY <1>1, <1>2, AllocateEffect, PortionFits DEF LotInv, TypeOK
  <2> QED
    BY <2>1
<1>4. ASSUME NEW i \in seenOpen[w]
      PROVE  paid'[i] >= Charge[i]
  <2>1. i \in Item /\ Charge[i] \in Nat /\ paid[i] \in Nat
    BY ItemFacts DEF LotInv, TypeOK
  <2>2. Portion(w)[i] = Minus(Charge[i], paid[i])
    BY <1>3, <1>4, <2>1, PortionFits DEF LotInv, Outstanding
  <2>3. paid'[i] = paid[i] + Portion(w)[i]
    BY <1>1, <1>2, <2>1, AllocateEffect DEF LotInv
  <2> QED
    BY <2>1, <2>2, <2>3 DEF Minus
<1> QED
  BY <1>4

\* allocate_payment() credits a surplus only when every item it read as open is paid.
THEOREM CreditLeftover == Spec => CreditIsLeftover
<1>1. LotInv /\ [Next]_vars =>
        [\A w \in Worker :
           /\ pc[w] = "allocate" /\ pc'[w] = "idle" /\ credit' > credit
           /\ \A i \in seenOpen[w] : paid[i] = seenPaid[w][i]
           => \A i \in seenOpen[w] : paid'[i] >= Charge[i]]_vars
  BY LeftoverStep
<1> QED
  BY <1>1, LotCorrect, PTL DEF Spec, CreditIsLeftover

\* AdjustedInFull, of one step.
LEMMA AdjustedStep ==
  ASSUME LotInv, [Next]_vars, NEW w \in Worker, NEW a \in adjusted' \ adjusted,
         pc[w] = "adjust", pc'[w] = "idle", seenPaid[w] = paid
  PROVE  Total(paid') = Total(paid) - Cents[a]
<1>1. PICK v \in Worker : Decrement(v, a)
  BY WhoWrites
<1>2. a \in Adjustment /\ v = w
  <2>1. a \in Adjustment
    BY WhoWrites
  <2>2. Step(v)
    BY <1>1, <2>1 DEF Step
  <2> QED
    BY <2>1, <2>2, WhoEnds DEF LotInv
<1> DEFINE p == Take(w, a)
           f == paid
           g == paid'
<1>3. p \in [Item -> Nat] /\ (\A i \in Item : p[i] <= f[i]) /\ Total(p) = Cents[a]
  <2>1. Total(seenPaid[w]) >= Cents[a]
    BY <1>1, <1>2 DEF Decrement
  <2> QED
    BY <1>2, <2>1, TakeFits DEF LotInv
<1>4. f \in [Item -> Nat]
  BY DEF LotInv, TypeOK
<1>5. g = [i \in Item |-> IF i \in {j \in Item : p[j] > 0} THEN f[i] - p[i] ELSE f[i]]
  BY <1>1, <1>2 DEF Decrement
<1> HIDE DEF p, f, g
<1>6. \A i \in Item : g[i] \in Nat /\ f[i] = g[i] + p[i]
  BY <1>3, <1>4, <1>5
<1>7. g \in [Item -> Nat]
  BY <1>5, <1>6
<1>8. /\ Total(f) = TotalOver(f, Item)
      /\ Total(g) = TotalOver(g, Item) /\ Total(g) \in Nat
      /\ Total(p) = TotalOver(p, Item) /\ Total(p) \in Nat
  BY <1>3, <1>4, <1>7, ItemFacts, TotalOfFunction
<1>9. TotalOver(f, Item) = TotalOver(g, Item) + TotalOver(p, Item)
  <2>1. \A i \in Item : g[i] \in Int /\ p[i] \in Int /\ f[i] = g[i] + p[i]
    BY <1>3, <1>6
  <2> QED
    BY <2>1, ItemFacts, TotalSum
<1>10. Total(g) = Total(f) - Cents[a]
  BY <1>3, <1>8, <1>9
<1> QED
  BY <1>10 DEF f, g

\* record_adjustment() takes what it records from the items, all of it, or refuses.
THEOREM AdjustedWhole == Spec => AdjustedInFull
<1>1. LotInv /\ [Next]_vars =>
        [\A w \in Worker, a \in adjusted' \ adjusted :
           pc[w] = "adjust" /\ pc'[w] = "idle" /\ seenPaid[w] = paid
           => Total(paid') = Total(paid) - Cents[a]]_vars
  BY AdjustedStep
<1> QED
  BY <1>1, LotCorrect, PTL DEF Spec, AdjustedInFull
=============================================================================
