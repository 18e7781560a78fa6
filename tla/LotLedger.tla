----------------------------- MODULE LotLedger -----------------------------
(***************************************************************************)
(* The payments of one lot in the PostgreSQL ledger: receipts, their       *)
(* allocation to levy items, the lot's unapplied credit, reversals and     *)
(* adjustments (services/financial_core).  Each call is one READ COMMITTED *)
(* transaction that takes no lock before it writes, so what it read may be *)
(* old when it commits.  A write waits for the rows another transaction    *)
(* has written: the writes and the commit of a call are one step.          *)
(***************************************************************************)
EXTENDS Integers, Sequences, FiniteSets, Functions

CONSTANTS
  Worker,     \* API processes and repair scripts; each makes one call at a time
  Receipt,    \* payments, each named by its idempotency key
  Amount,     \* their amounts
  Linked,     \* the receipts with a bank_transaction_id
  Charge,     \* the lot's levy items in the order they are raised: their charges
  Adjustment, \* evidenced corrections, each named by its idempotency key
  Cents,      \* their amounts
  Key,        \* the idempotency keys a reversal of a receipt is posted under
  RejectKey,  \* the one reject_receipt() uses
  MaxCredit,  \* bound on the credit
  MayFail     \* whether the database may abort a transaction

Item == 1 .. Len(Charge)

ASSUME LotAssumption ==
  /\ IsFiniteSet(Receipt) /\ Receipt # {}
  /\ Amount \in [Receipt -> Nat \ {0}]
  /\ Linked \subseteq Receipt
  /\ Charge \in Seq(Nat \ {0})
  /\ Cents \in [Adjustment -> Nat \ {0}]
  /\ RejectKey \in Key
  /\ MaxCredit \in Nat
  /\ MayFail \in BOOLEAN

VARIABLES
  raised,     \* number of levy items raised so far
  paid,       \* paid_cents of each
  settled,    \* the items whose status is "paid"
  posted,     \* receipts with a posted journal entry
  bare,       \* those of them for which allocate_payment() has not gone through
  alloc,      \* cents of a receipt allocated to an item: receipt_allocations
  reversals,  \* keys of the posted reversals of a receipt's entry
  adjusted,   \* the adjustments posted
  credit,     \* available_cents of the lot in owner_credit_balances
  pc,         \* what each worker does next
  on,         \* the receipt its call is about
  key,        \* the key of its reversal
  fresh,      \* whether it inserts the receipt itself
  seenPaid,   \* paid_cents as it read them, by item
  seenOpen,   \* the items it read as open
  seenAlloc,  \* the allocations it read
  drifted,    \* history: items whose paid_cents an adjustment or a recompute
              \* overtaken by another transaction made differ from their allocations
  raced       \* history: receipts allocated or reversed on allocations read
              \* before another transaction changed them
ledgerVars == <<raised, paid, settled, posted, bare, alloc, reversals, adjusted, credit>>
callVars   == <<on, key, fresh, seenPaid, seenOpen, seenAlloc>>
vars == <<ledgerVars, pc, callVars, drifted, raced>>

PC == {"idle", "open", "total", "allocate", "find", "survey", "scan", "reverse",
       "repair", "adjust"}
Ledgers == [Receipt -> [Item -> Nat]]

TypeOK ==
  /\ raised \in 0 .. Len(Charge)
  /\ paid \in [Item -> Nat]
  /\ settled \subseteq Item
  /\ posted \subseteq Receipt
  /\ bare \subseteq posted
  /\ alloc \in Ledgers
  /\ reversals \in [Receipt -> SUBSET Key]
  /\ adjusted \subseteq Adjustment
  /\ credit \in Nat
  /\ pc \in [Worker -> PC]
  /\ on \in [Worker -> Receipt]
  /\ key \in [Worker -> Key]
  /\ fresh \in [Worker -> BOOLEAN]
  /\ seenPaid \in [Worker -> [Item -> Nat]]
  /\ seenOpen \in [Worker -> SUBSET Item]
  /\ seenAlloc \in [Worker -> Ledgers]
  /\ drifted \subseteq Item
  /\ raced \subseteq Receipt

None == [r \in Receipt |-> [i \in Item |-> 0]]

Init ==
  /\ raised = 0
  /\ paid = [i \in Item |-> 0]
  /\ settled = {}
  /\ posted = {}
  /\ bare = {}
  /\ alloc = None
  /\ reversals = [r \in Receipt |-> {}]
  /\ adjusted = {}
  /\ credit = 0
  /\ pc = [w \in Worker |-> "idle"]
  /\ on = [w \in Worker |-> CHOOSE r \in Receipt : TRUE]
  /\ key = [w \in Worker |-> RejectKey]
  /\ fresh = [w \in Worker |-> FALSE]
  /\ seenPaid = [w \in Worker |-> [i \in Item |-> 0]]
  /\ seenOpen = [w \in Worker |-> {}]
  /\ seenAlloc = [w \in Worker |-> None]
  /\ drifted = {}
  /\ raced = {}

Total(f) == FoldFunction(+, 0, f)
Allocated(ledger, i) == Total([r \in Receipt |-> ledger[r][i]])
Least(a, b) == IF a < b THEN a ELSE b
Minus(a, b) == IF a < b THEN 0 ELSE a - b

GoTo(w, step) == pc' = [pc EXCEPT ![w] = step]

\* The call of w ends and leaves no local state behind.
End(w) ==
  /\ GoTo(w, "idle")
  /\ fresh' = [fresh EXCEPT ![w] = FALSE]
  /\ seenPaid' = [seenPaid EXCEPT ![w] = [i \in Item |-> 0]]
  /\ seenOpen' = [seenOpen EXCEPT ![w] = {}]
  /\ seenAlloc' = [seenAlloc EXCEPT ![w] = None]
  /\ on' = [on EXCEPT ![w] = CHOOSE r \in Receipt : TRUE]
  /\ key' = [key EXCEPT ![w] = RejectKey]

-----------------------------------------------------------------------------
\* create_levy() inserts the next item, unpaid and "issued".
RaiseLevy ==
  /\ raised < Len(Charge)
  /\ raised' = raised + 1
  /\ UNCHANGED <<paid, settled, posted, bare, alloc, reversals, adjusted, credit, pc,
                 callVars, drifted, raced>>

\* record_payment() of a receipt not there yet; most callers go on to allocate it in the
\* same transaction.
Record(w, r) ==
  /\ pc[w] = "idle"
  /\ r \notin posted
  /\ on' = [on EXCEPT ![w] = r]
  /\ fresh' = [fresh EXCEPT ![w] = TRUE]
  /\ GoTo(w, "open")
  /\ UNCHANGED <<ledgerVars, key, seenPaid, seenOpen, seenAlloc, drifted, raced>>

\* record_payment() finds an active receipt of the same bank transaction and returns
\* it, and the caller allocates that one; or a repair script allocates what is left
\* of a receipt.
AllocateAgain(w, r) ==
  /\ pc[w] = "idle"
  /\ r \in posted
  /\ reversals[r] = {}
  /\ r \in Linked \/ Total(alloc[r]) < Amount[r]
  /\ on' = [on EXCEPT ![w] = r]
  /\ GoTo(w, "open")
  /\ UNCHANGED <<ledgerVars, key, fresh, seenPaid, seenOpen, seenAlloc, drifted, raced>>

\* The receipt is committed alone: the script that posts it does not allocate, or the
\* caller swallows what allocate_payment() raised before its first write or in a
\* savepoint.  (Its reads leave nothing behind.)
PostBare(w) ==
  /\ pc[w] = "open"
  /\ fresh[w]
  /\ on[w] \notin posted
  /\ posted' = posted \cup {on[w]}
  /\ bare' = bare \cup {on[w]}
  /\ End(w)
  /\ UNCHANGED <<raised, paid, settled, alloc, reversals, adjusted, credit, drifted, raced>>

\* get_open_levy_items().
ReadOpen(w) ==
  /\ pc[w] = "open"
  /\ seenPaid' = [seenPaid EXCEPT ![w] = paid]
  /\ seenOpen' = [seenOpen EXCEPT ![w] = (1 .. raised) \ settled]
  /\ GoTo(w, "total")
  /\ UNCHANGED <<ledgerVars, on, key, fresh, seenAlloc, drifted, raced>>

\* get_allocated_total_for_receipt().
ReadTotal(w) ==
  /\ pc[w] = "total"
  /\ seenAlloc' = [seenAlloc EXCEPT ![w][on[w]] = alloc[on[w]]]
  /\ GoTo(w, "allocate")
  /\ UNCHANGED <<ledgerVars, on, key, fresh, seenPaid, seenOpen, drifted, raced>>

\* Mutated form: without the floor of Levy.outstanding_cents.
OutstandingUnfloored(w, i) == IF i \in seenOpen[w] THEN Charge[i] - seenPaid[w][i] ELSE 0

\* Mutated form: what is allocated already does not count.
RestInFull(w) == Amount[on[w]]

\* What the loop of allocate_payment() puts on each open item, oldest first, of the
\* rest of the receipt.
Outstanding(w, i) == IF i \in seenOpen[w] THEN Minus(Charge[i], seenPaid[w][i]) ELSE 0
Rest(w) == Minus(Amount[on[w]], Total(seenAlloc[w][on[w]]))

\* Mutated form: an item's own charge counts among those before it.
BeforeOwn(w, i) == Total([j \in 1 .. i |-> Outstanding(w, j)])

Before(w, i) == Total([j \in 1 .. i - 1 |-> Outstanding(w, j)])

\* Mutated form: the loop does not stop when the rest is used up.
PortionUnbounded(w) == [i \in Item |-> Outstanding(w, i)]

Portion(w) == [i \in Item |-> Least(Outstanding(w, i), Minus(Rest(w), Before(w, i)))]
Surplus(w) == Minus(Rest(w), Total(Portion(w)))

\* Mutated form: paid_cents is written from the copy read before.
AllocateFromCopy(w) ==
  LET r == on[w] IN
  /\ pc[w] = "allocate"
  /\ fresh[w] => r \notin posted
  /\ credit + Surplus(w) <= MaxCredit
  /\ posted' = posted \cup {r}
  /\ bare' = bare \ {r}
  /\ alloc' = [alloc EXCEPT ![r] = [i \in Item |-> @[i] + Portion(w)[i]]]
  /\ paid' = [i \in Item |-> seenPaid[w][i] + Portion(w)[i]]
  /\ credit' = credit + Surplus(w)
  /\ raced' = IF reversals[r] # {} \/ alloc[r] # seenAlloc[w][r]
                 \/ \E i \in Item : Portion(w)[i] > 0 /\ paid[i] # seenPaid[w][i]
              THEN raced \cup {r}
              ELSE raced
  /\ End(w)
  /\ UNCHANGED <<raised, settled, reversals, adjusted, drifted>>

\* Mutated form: the upsert overwrites the credit.
AllocateOverCredit(w) ==
  LET r == on[w] IN
  /\ pc[w] = "allocate"
  /\ fresh[w] => r \notin posted
  /\ credit + Surplus(w) <= MaxCredit
  /\ posted' = posted \cup {r}
  /\ bare' = bare \ {r}
  /\ alloc' = [alloc EXCEPT ![r] = [i \in Item |-> @[i] + Portion(w)[i]]]
  /\ paid' = [i \in Item |-> paid[i] + Portion(w)[i]]
  /\ credit' = IF Surplus(w) > 0 THEN Surplus(w) ELSE credit
  /\ raced' = IF reversals[r] # {} \/ alloc[r] # seenAlloc[w][r]
                 \/ \E i \in Item : Portion(w)[i] > 0 /\ paid[i] # seenPaid[w][i]
              THEN raced \cup {r}
              ELSE raced
  /\ End(w)
  /\ UNCHANGED <<raised, settled, reversals, adjusted, drifted>>

\* save_journal_entry(), save_receipt(), save_allocations(), upsert_owner_credit().
\* paid_cents and the credit are incremented in the statement; status is not touched.
Allocate(w) ==
  LET r == on[w] IN
  /\ pc[w] = "allocate"
  /\ fresh[w] => r \notin posted
  /\ credit + Surplus(w) <= MaxCredit
  /\ posted' = posted \cup {r}
  /\ bare' = bare \ {r}
  /\ alloc' = [alloc EXCEPT ![r] = [i \in Item |-> @[i] + Portion(w)[i]]]
  /\ paid' = [i \in Item |-> paid[i] + Portion(w)[i]]
  /\ credit' = credit + Surplus(w)
  /\ raced' = IF reversals[r] # {} \/ alloc[r] # seenAlloc[w][r]
                 \/ \E i \in Item : Portion(w)[i] > 0 /\ paid[i] # seenPaid[w][i]
              THEN raced \cup {r}
              ELSE raced
  /\ End(w)
  /\ UNCHANGED <<raised, settled, reversals, adjusted, drifted>>

\* The unique index on the idempotency key has the receipt already.
RecordRefused(w) ==
  /\ pc[w] = "allocate"
  /\ fresh[w]
  /\ on[w] \in posted
  /\ End(w)
  /\ UNCHANGED <<ledgerVars, drifted, raced>>

-----------------------------------------------------------------------------
\* reverse_entry() posts the mirrored entry, reject_receipt() by way of it.
Reverse(w, r, k) ==
  /\ pc[w] = "idle"
  /\ r \in posted
  /\ on' = [on EXCEPT ![w] = r]
  /\ key' = [key EXCEPT ![w] = k]
  /\ GoTo(w, "find")
  /\ UNCHANGED <<ledgerVars, fresh, seenPaid, seenOpen, seenAlloc, drifted, raced>>

\* get_allocations_for_reversed_receipts(): those of the receipt just reversed...
FindStale(w) ==
  /\ pc[w] = "find"
  /\ seenAlloc' = [seenAlloc EXCEPT ![w][on[w]] = alloc[on[w]]]
  /\ GoTo(w, IF alloc[on[w]] = None[on[w]] THEN "reverse" ELSE "survey")
  /\ UNCHANGED <<ledgerVars, on, key, fresh, seenPaid, seenOpen, drifted, raced>>

\* ... or, when a repair calls reverse_allocations(), of every reversed receipt.
Reversed == {r \in Receipt : reversals[r] # {}}
Repair(w) ==
  /\ pc[w] = "idle"
  /\ \E r \in Reversed : alloc[r] # None[r]
  /\ seenAlloc' = [seenAlloc EXCEPT ![w] =
                     [r \in Receipt |-> IF r \in Reversed THEN alloc[r] ELSE None[r]]]
  /\ GoTo(w, "scan")
  /\ UNCHANGED <<ledgerVars, on, key, fresh, seenPaid, seenOpen, drifted, raced>>

\* Mutated form: nothing is deleted.
LeftAlone(w) == alloc

\* What delete_allocations() leaves.
Left(w) == [r \in Receipt |-> [i \in Item |-> Minus(alloc[r][i], seenAlloc[w][r][i])]]
Affected(w) == {i \in Item : \E r \in Receipt : seenAlloc[w][r][i] > 0}

\* delete_allocations(), which waits for another call's delete of the same rows, and
\* the reads of recompute_paid_cents(): what the surviving allocations sum up to.
Survey(w) ==
  /\ pc[w] \in {"survey", "scan"}
  /\ \A v \in Worker \ {w} : pc[v] \in {"reverse", "repair"} =>
        \A r \in Receipt : seenAlloc[v][r] = None[r] \/ seenAlloc[w][r] = None[r]
  /\ seenOpen' = [seenOpen EXCEPT ![w] = Affected(w)]
  /\ seenPaid' = [seenPaid EXCEPT ![w] = [i \in Item |-> Allocated(Left(w), i)]]
  /\ GoTo(w, IF pc[w] = "survey" THEN "reverse" ELSE "repair")
  /\ UNCHANGED <<ledgerVars, on, key, fresh, seenAlloc, drifted, raced>>

\* The updates of recompute_paid_cents() write the sums read before, and the status.
Unwind(w) ==
  LET Affects == seenOpen[w] IN
  /\ alloc' = Left(w)
  /\ paid' = [i \in Item |-> IF i \in Affects THEN seenPaid[w][i] ELSE paid[i]]
  /\ settled' = (settled \ Affects) \cup {i \in Affects : seenPaid[w][i] >= Charge[i]}
  /\ drifted' = drifted \cup {i \in Affects : seenPaid[w][i] # Allocated(Left(w), i)}
  /\ End(w)
  /\ UNCHANGED <<raised, posted, bare, adjusted, credit>>

CommitReversal(w) ==
  LET r == on[w] IN
  /\ pc[w] = "reverse"
  /\ key[w] # RejectKey
  /\ key[w] \notin reversals[r]
  /\ reversals' = [reversals EXCEPT ![r] = @ \cup {key[w]}]
  /\ raced' = IF alloc[r] # seenAlloc[w][r] THEN raced \cup {r} ELSE raced
  /\ Unwind(w)

CommitRepair(w) ==
  /\ pc[w] = "repair"
  /\ Unwind(w)
  /\ UNCHANGED <<reversals, raced>>

\* The unique index on the idempotency key has the reversal already.
ReverseRefused(w) ==
  /\ pc[w] = "reverse"
  /\ key[w] \in reversals[on[w]]
  /\ End(w)
  /\ UNCHANGED <<ledgerVars, drifted, raced>>

\* After reverse_entry() reject_receipt() marks the original with a statement that is
\* not valid SQL (SET status = 'reversed', WHERE ...): the transaction is rolled back.
RejectRefused(w) ==
  /\ pc[w] = "reverse"
  /\ key[w] = RejectKey
  /\ End(w)
  /\ UNCHANGED <<ledgerVars, drifted, raced>>

-----------------------------------------------------------------------------
\* record_adjustment(): decrement_paid_for_year() reads the items...
Adjust(w) ==
  /\ pc[w] = "idle"
  /\ adjusted # Adjustment
  /\ seenPaid' = [seenPaid EXCEPT ![w] = [i \in Item |-> IF i <= raised THEN paid[i] ELSE 0]]
  /\ GoTo(w, "adjust")
  /\ UNCHANGED <<ledgerVars, on, key, fresh, seenOpen, seenAlloc, drifted, raced>>

\* ... plans what to take from each, the latest first, and writes what it leaves, if
\* they have enough; the key admits the adjustment once.

\* Mutated form: what an item has itself counts as taken after it.
AfterOwn(w, i) == Total([j \in i .. Len(Charge) |-> seenPaid[w][j]])

After(w, i) == Total([j \in i + 1 .. Len(Charge) |-> seenPaid[w][j]])
Take(w, a) == [i \in Item |-> Least(seenPaid[w][i], Minus(Cents[a], After(w, i)))]
Decrement(w, a) ==
  LET Touched == {i \in Item : Take(w, a)[i] > 0} IN
  /\ pc[w] = "adjust"
  /\ a \notin adjusted
  /\ Total(seenPaid[w]) >= Cents[a]
  /\ adjusted' = adjusted \cup {a}
  /\ paid' = [i \in Item |-> IF i \in Touched THEN seenPaid[w][i] - Take(w, a)[i] ELSE paid[i]]
  /\ drifted' = drifted \cup Touched
  /\ End(w)
  /\ UNCHANGED <<raised, settled, posted, bare, alloc, reversals, credit, raced>>

AdjustRefused(w, a) ==
  /\ pc[w] = "adjust"
  /\ a \in adjusted \/ Total(seenPaid[w]) < Cents[a]
  /\ End(w)
  /\ UNCHANGED <<ledgerVars, drifted, raced>>

\* A crash, a lost connection, or a deadlock the database breaks.
Abort(w) ==
  /\ MayFail
  /\ pc[w] # "idle"
  /\ End(w)
  /\ UNCHANGED <<ledgerVars, drifted, raced>>

Step(w) ==
  \/ \E r \in Receipt : Record(w, r) \/ AllocateAgain(w, r)
  \/ PostBare(w) \/ ReadOpen(w) \/ ReadTotal(w) \/ Allocate(w) \/ RecordRefused(w)
  \/ \E r \in Receipt, k \in Key : Reverse(w, r, k)
  \/ FindStale(w) \/ Repair(w) \/ Survey(w)
  \/ CommitReversal(w) \/ CommitRepair(w) \/ ReverseRefused(w) \/ RejectRefused(w)
  \/ Adjust(w)
  \/ \E a \in Adjustment : Decrement(w, a) \/ AdjustRefused(w, a)
  \/ Abort(w)

Next == RaiseLevy \/ \E w \in Worker : Step(w)

Spec == Init /\ [][Next]_vars

-----------------------------------------------------------------------------
\* What an item counts as paid is what is allocated to it: calls that overlap lose no
\* payment, unless a recompute overwrote what it had not seen (save_allocations()
\* increments in the statement, recompute_paid_cents() does not).
PaidIsAllocated == \A i \in Item \ drifted : paid[i] = Allocated(alloc, i)

\* A receipt is not allocated beyond its amount, nor an item paid beyond its charge,
\* except by calls that overlapped on them: repeating allocate_payment() or reversing
\* and allocating anew tops up the remainder only.
NeverOverAllocated ==
  /\ \A r \in Receipt \ raced : Total(alloc[r]) <= Amount[r]
  /\ \A i \in Item \ drifted :
        paid[i] <= Charge[i] \/ \E r \in raced : alloc[r][i] > 0

\* A reversed receipt pays for nothing (reverse_entry()'s cascade), unless a call that
\* had read it before allocated it.
ReversedPaysNothing == \A r \in Reversed \ raced : alloc[r] = None[r]

\* Money of a receipt that went through allocate_payment() and that no levy item has is
\* in the lot's credit: no two surpluses recorded at the same time lose one
\* (upsert_owner_credit()).  The money of a bare receipt is neither allocated nor credited.
Placed == posted \ bare
Unapplied(r) == Minus(Amount[r], Total(alloc[r]))
SurplusIsCredited ==
  credit >= Total([r \in Placed \ Reversed |-> Unapplied(r)])

\* The first allocation of a receipt, when it is posted or much later, places it to the
\* cent: what the levy items do not take is credited, whatever other calls do meanwhile
\* (allocate_payment(): "the surplus used to be dropped here").
PlacedInFull ==
  [][\A r \in Placed' \ Placed : Total(alloc'[r]) + (credit' - credit) = Amount[r]]_vars

\* Nothing is credited while an item the call read as open lacks a cent, unless the item
\* was paid or recomputed in between.
CreditIsLeftover ==
  [][\A w \in Worker :
       /\ pc[w] = "allocate" /\ pc'[w] = "idle" /\ credit' > credit
       /\ \A i \in seenOpen[w] : paid[i] = seenPaid[w][i]
       => \A i \in seenOpen[w] : paid'[i] >= Charge[i]]_vars

\* An adjustment that is recorded takes all of its cents and no more, unless the items
\* changed since they were read (record_adjustment(): "raises rather than partially
\* applying").
AdjustedInFull ==
  [][\A w \in Worker, a \in adjusted' \ adjusted :
       pc[w] = "adjust" /\ pc'[w] = "idle" /\ seenPaid[w] = paid
       => Total(paid') = Total(paid) - Cents[a]]_vars

-----------------------------------------------------------------------------
\* "Recording it makes the credit a stored fact with a source journal entry behind it,
\* rather than an inference" that "drifts the moment a receipt is reversed"
\* (allocate_payment()): no credit without money behind it.
CreditIsBacked ==
  credit <= Total([r \in posted \ Reversed |-> Unapplied(r)])
=============================================================================
