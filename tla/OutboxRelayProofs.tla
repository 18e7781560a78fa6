------------------------- MODULE OutboxRelayProofs -------------------------
(***************************************************************************)
(* For any number of polling processes, any batch size and any retry       *)
(* budget: a published row is archived, none is archived twice, and a      *)
(* settled row is never touched again.                                     *)
(***************************************************************************)
EXTENDS OutboxRelay, TLAPS

\* What an open batch knows about its rows: they belong to no other poller, they
\* are neither published nor dead, another failure stays within the budget, and
\* the delivered ones are in the archive whatever happens to the transaction.
BatchInv ==
  /\ \A p, q \in Poller : p # q => Held(p) \cap Held(q) = {}
  /\ \A p \in Poller : Held(p) \cap (published \cup dead) = {}
  /\ \A p \in Poller : \A e \in Held(p) : attempts[e] < MaxRetries
  /\ \A p \in Poller : \A e \in delivered[p] : archive[e] > 0

Inv == TypeOK /\ BatchInv /\ PublishedIsArchived /\ ArchivedOnce

-----------------------------------------------------------------------------
\* insert_one() on an _id: the row is there afterwards, once, and no other
\* document changes.
LEMMA ArchivedOnlyAdds ==
  ASSUME archive \in [Event -> Nat], ArchivedOnce, NEW e \in Event
  PROVE  /\ Archived(e) \in [Event -> Nat]
         /\ Archived(e)[e] > 0
         /\ \A f \in Event : Archived(e)[f] >= archive[f] /\ Archived(e)[f] <= 1
BY DEF Archived, ArchivedOnce

\* A poll takes only rows that nobody holds and that are still open.
LEMMA PolledRows ==
  ASSUME TypeOK, NEW p \in Poller, Poll(p), NEW e \in batch'[p]
  PROVE  /\ e \in written /\ e \notin published \cup dead
         /\ attempts[e] < MaxRetries
         /\ \A q \in Poller : e \notin Held(q)
BY DEF TypeOK, Poll, Oldest, Due, Locked

-----------------------------------------------------------------------------
LEMMA InitialStates == Init => Inv
BY RelayAssumption
DEF Init, Inv, TypeOK, BatchInv, Held, PublishedIsArchived, ArchivedOnce, Event

LEMMA TypeStep ==
  ASSUME Inv, [Next]_vars
  PROVE  TypeOK'
<1> USE DEF Inv, TypeOK, rowVars, pollerVars
<1>1. ASSUME NEW e \in Event, Append(e) PROVE TypeOK'
  BY <1>1 DEF Append
<1>2. ASSUME NEW e \in Event, BackoffElapses(e) PROVE TypeOK'
  BY <1>2 DEF BackoffElapses
<1>3. ASSUME NEW p \in Poller, Poll(p) PROVE TypeOK'
  <2>1. batch'[p] \subseteq written
    BY <1>3, PolledRows
  <2>2. QED
    BY <1>3, <2>1 DEF Poll
<1>4. ASSUME NEW p \in Poller, NEW e \in Event, Deliver(p, e) PROVE TypeOK'
  <2>1. archive' \in [Event -> Nat]
    BY <1>4, ArchivedOnlyAdds DEF Deliver
  <2>2. QED
    BY <1>4, <2>1 DEF Deliver, IsNext
<1>5. ASSUME NEW p \in Poller, NEW e \in Event, Fail(p, e) PROVE TypeOK'
  <2>1. archive' \in [Event -> Nat]
    BY <1>5, ArchivedOnlyAdds DEF Fail
  <2>2. QED
    BY <1>5, <2>1 DEF Fail, IsNext
<1>6. ASSUME NEW p \in Poller, Commit(p) PROVE TypeOK'
  <2>1. \A e \in failed[p] : attempts[e] < MaxRetries
    BY DEF BatchInv, Held
  <2>2. attempts' \in [Event -> 0..MaxRetries]
    BY <1>6, <2>1, RelayAssumption DEF Commit
  <2>3. QED
    BY <1>6, <2>2 DEF Commit, Release
<1>7. ASSUME NEW p \in Poller, Abort(p) PROVE TypeOK'
  BY <1>7 DEF Abort, Release
<1>8. CASE UNCHANGED vars
  BY <1>8 DEF vars
<1>9. QED
  BY <1>1, <1>2, <1>3, <1>4, <1>5, <1>6, <1>7, <1>8 DEF Next, Step

\* A step that only moves a row of one batch from "to do" to delivered or failed
\* changes nobody's holdings.
LEMMA HoldingsKept ==
  ASSUME NEW p \in Poller, NEW e \in Event, Inv, Deliver(p, e) \/ Fail(p, e)
  PROVE  /\ \A q \in Poller : Held(q)' = Held(q)
         /\ UNCHANGED <<published, dead, attempts>>
BY DEF Inv, TypeOK, Deliver, Fail, IsNext, Held, rowVars

\* SKIP LOCKED keeps batches apart, the WHERE clause keeps settled rows out, and
\* nobody settles a row that another poller holds.
LEMMA BatchStep ==
  ASSUME Inv, [Next]_vars
  PROVE  BatchInv'
<1> USE DEF Inv, TypeOK, BatchInv, rowVars, pollerVars
<1>1. ASSUME NEW e \in Event, Append(e) \/ BackoffElapses(e) PROVE BatchInv'
  BY <1>1 DEF Append, BackoffElapses, Held
<1>2. ASSUME NEW p \in Poller, Poll(p) PROVE BatchInv'
  <2>1. Held(p) = {} /\ Held(p)' = batch'[p]
    BY <1>2 DEF Poll, Held
  <2>2. \A q \in Poller \ {p} : Held(q)' = Held(q)
    BY <1>2 DEF Poll, Held
  <2>3. \A e \in batch'[p] : /\ e \notin published \cup dead
                             /\ attempts[e] < MaxRetries
                             /\ \A q \in Poller : e \notin Held(q)
    BY <1>2, PolledRows
  <2>4. UNCHANGED <<published, dead, attempts, archive, delivered>>
    BY <1>2 DEF Poll
  <2>5. QED
    BY <2>1, <2>2, <2>3, <2>4
<1>3. ASSUME NEW p \in Poller, NEW e \in Event, Deliver(p, e) PROVE BatchInv'
  <2>1. \A f \in Event : archive'[f] >= archive[f]
    BY <1>3, ArchivedOnlyAdds DEF Deliver
  <2>2. archive'[e] > 0 /\ archive' \in [Event -> Nat]
    BY <1>3, ArchivedOnlyAdds DEF Deliver
  <2>3. \A q \in Poller : \A f \in delivered'[q] : f = e \/ f \in delivered[q]
    BY <1>3 DEF Deliver
  <2>4. \A q \in Poller : \A f \in delivered'[q] : archive'[f] > 0
    BY <2>1, <2>2, <2>3
  <2>5. QED
    BY <1>3, <2>4, HoldingsKept
<1>4. ASSUME NEW p \in Poller, NEW e \in Event, Fail(p, e) PROVE BatchInv'
  <2>1. \A f \in Event : archive'[f] >= archive[f]
    BY <1>4, ArchivedOnlyAdds DEF Fail
  <2>2. archive' \in [Event -> Nat]
    BY <1>4, ArchivedOnlyAdds DEF Fail
  <2>3. \A q \in Poller : \A f \in delivered'[q] : archive'[f] > 0
    BY <1>4, <2>1, <2>2 DEF Fail
  <2>4. QED
    BY <1>4, <2>3, HoldingsKept
<1>5. ASSUME NEW p \in Poller, Commit(p) PROVE BatchInv'
  <2>1. Held(p)' = {} /\ \A q \in Poller \ {p} : Held(q)' = Held(q)
    BY <1>5 DEF Commit, Release, Held
  <2>2. \A q \in Poller \ {p} : Held(q) \cap Held(p) = {}
    OBVIOUS
  <2>3. published' \cup dead' \subseteq published \cup dead \cup Held(p)
    BY <1>5 DEF Commit, Held
  <2>4. \A e \in Event \ Held(p) : attempts'[e] = attempts[e]
    BY <1>5 DEF Commit, Held
  <2>5. \A q \in Poller : delivered'[q] \subseteq delivered[q]
    BY <1>5 DEF Commit, Release
  <2>6. \A q \in Poller : Held(q) \subseteq Event
    BY DEF Held
  <2>7. \A q \in Poller : \A e \in Held(q)' : attempts'[e] < MaxRetries
    BY <2>1, <2>2, <2>4, <2>6
  <2>8. \A q, r \in Poller : q # r => Held(q)' \cap Held(r)' = {}
    BY <2>1
  <2>9. \A q \in Poller : Held(q)' \cap (published' \cup dead') = {}
    BY <2>1, <2>2, <2>3
  <2>10. \A q \in Poller : \A e \in delivered'[q] : archive'[e] > 0
    BY <1>5, <2>5 DEF Commit
  <2>11. QED
    BY <2>7, <2>8, <2>9, <2>10
<1>6. ASSUME NEW p \in Poller, Abort(p) PROVE BatchInv'
  <2>1. Held(p)' = {} /\ \A q \in Poller \ {p} : Held(q)' = Held(q)
    BY <1>6 DEF Abort, Release, Held
  <2>2. \A q \in Poller : delivered'[q] \subseteq delivered[q]
    BY <1>6 DEF Abort, Release
  <2>3. UNCHANGED <<published, dead, attempts, archive>>
    BY <1>6 DEF Abort
  <2>4. QED
    BY <2>1, <2>2, <2>3
<1>7. CASE UNCHANGED vars
  BY <1>7 DEF vars, Held
<1>8. QED
  BY <1>1, <1>2, <1>3, <1>4, <1>5, <1>6, <1>7 DEF Next, Step

\* Only Commit publishes, and what it publishes was delivered; only Archived()
\* changes the archive.
LEMMA ArchiveStep ==
  ASSUME Inv, [Next]_vars
  PROVE  PublishedIsArchived' /\ ArchivedOnce'
<1> USE DEF Inv, TypeOK, PublishedIsArchived, ArchivedOnce, rowVars, pollerVars
<1>1. ASSUME NEW p \in Poller, NEW e \in Event, Deliver(p, e) \/ Fail(p, e)
      PROVE  PublishedIsArchived' /\ ArchivedOnce'
  <2>1. archive' = archive \/ archive' = Archived(e)
    BY <1>1 DEF Deliver, Fail
  <2>2. \A f \in Event : archive'[f] >= archive[f] /\ archive'[f] <= 1
    BY <2>1, ArchivedOnlyAdds
  <2>3. archive' \in [Event -> Nat]
    BY <2>1, ArchivedOnlyAdds
  <2>4. QED
    BY <2>2, <2>3, HoldingsKept, <1>1
<1>2. ASSUME NEW p \in Poller, Commit(p) PROVE PublishedIsArchived' /\ ArchivedOnce'
  BY <1>2 DEF Commit, BatchInv
<1>3. CASE \/ \E e \in Event : Append(e) \/ BackoffElapses(e)
           \/ \E p \in Poller : Poll(p) \/ Abort(p)
  BY <1>3 DEF Append, BackoffElapses, Poll, Abort
<1>4. CASE UNCHANGED vars
  BY <1>4 DEF vars
<1>5. QED
  BY <1>1, <1>2, <1>3, <1>4 DEF Next, Step

LEMMA Invariant == Spec => []Inv
<1>1. Inv /\ [Next]_vars => Inv'
  BY TypeStep, BatchStep, ArchiveStep DEF Inv
<1>2. QED
  BY <1>1, InitialStates, PTL DEF Spec

\* The types hold for any number of pollers; in particular no row is counted
\* beyond the retry budget.
THEOREM TypeCorrect == Spec => []TypeOK
BY Invariant, PTL DEF Inv

\* GAP-FIN-061, for every interleaving of deliveries, rollbacks and commits: a row
\* that is marked published is in the archive.
THEOREM PublishedArchived == Spec => []PublishedIsArchived
BY Invariant, PTL DEF Inv

\* However often a crash makes the relay deliver an event again, the archive holds
\* it at most once.
THEOREM NeverTwice == Spec => []ArchivedOnce
BY Invariant, PTL DEF Inv

\* No process changes a row after it was published or became a dead letter.
THEOREM SettledStay == Spec => SettledRowsStay
<1> DEFINE Kept == \A e \in published \cup dead :
                     /\ attempts'[e] = attempts[e]
                     /\ e \in published <=> e \in published'
                     /\ e \in dead <=> e \in dead'
<1>1. ASSUME Inv, [Next]_vars PROVE Kept \/ UNCHANGED vars
  <2> USE DEF rowVars, pollerVars
  <2>1. ASSUME NEW p \in Poller, Commit(p) PROVE Kept
    <3>1. Held(p) \cap (published \cup dead) = {}
      BY <1>1 DEF Inv, BatchInv
    <3>2. \A e \in published \cup dead : e \notin delivered[p] /\ e \notin failed[p]
      BY <3>1 DEF Held
    <3>3. \A e \in published \cup dead : e \in Event /\ attempts[e] \in Int
      BY <1>1 DEF Inv, TypeOK
    <3>4. QED
      BY <2>1, <3>2, <3>3 DEF Commit
  <2>2. ASSUME NEW p \in Poller, Poll(p) \/ Abort(p) PROVE Kept
    BY <2>2 DEF Poll, Abort
  <2>3. ASSUME NEW p \in Poller, NEW e \in Event, Deliver(p, e) \/ Fail(p, e) PROVE Kept
    BY <2>3 DEF Deliver, Fail
  <2>4. ASSUME NEW e \in Event, Append(e) \/ BackoffElapses(e) PROVE Kept
    BY <2>4 DEF Append, BackoffElapses
  <2>5. QED
    BY <1>1, <2>1, <2>2, <2>3, <2>4 DEF Next, Step
<1>2. Inv /\ [Next]_vars => [Kept]_vars
  BY <1>1
<1>3. QED
  BY <1>2, Invariant, PTL DEF Spec, SettledRowsStay
=============================================================================
