---------------------------- MODULE OutboxRelay ----------------------------
(***************************************************************************)
(* The transactional outbox relay (workers/outbox_relay.py).  Services     *)
(* commit rows to core.outbox; one polling loop per backend process        *)
(* (db_postgres/engine.py: four uvicorn workers) copies them to the Mongo  *)
(* collection events_archive and marks them published.                     *)
(*                                                                         *)
(* A poll is one PostgreSQL transaction: FOR UPDATE SKIP LOCKED, a Mongo   *)
(* insert and an uncommitted mark per row, one commit for the batch.  The  *)
(* Mongo inserts are not part of it and survive a rollback.                *)
(***************************************************************************)
EXTENDS Integers, FiniteSets

CONSTANTS
  MaxEvent,    \* bound on the rows ever written
  Poller,      \* processes running run_relay_loop()
  BatchSize,   \* BATCH_SIZE
  MaxRetries   \* MAX_RETRIES

\* Rows of core.outbox, numbered in the order of created_at.
Event == 1..MaxEvent

ASSUME RelayAssumption ==
  /\ MaxEvent \in Nat
  /\ BatchSize \in Nat \ {0}
  /\ MaxRetries \in Nat \ {0}

VARIABLES
  written,    \* rows committed by services
  published,  \* rows whose published_at is set
  attempts,   \* attempts of each row
  dead,       \* rows whose last_error carries the dead-letter prefix
  backingOff, \* rows whose next retry is not due yet
  archive,    \* documents in events_archive for each row
  batch,      \* rows each poller has locked and not handled yet
  delivered,  \* rows it marked published, uncommitted
  failed      \* rows it marked failed, uncommitted

rowVars    == <<written, published, attempts, dead, backingOff>>
pollerVars == <<batch, delivered, failed>>
vars       == <<rowVars, archive, pollerVars>>

TypeOK ==
  /\ written \subseteq Event
  /\ published \subseteq written
  /\ attempts \in [Event -> 0..MaxRetries]
  /\ dead \subseteq written
  /\ backingOff \subseteq written
  /\ archive \in [Event -> Nat]
  /\ batch \in [Poller -> SUBSET written]
  /\ delivered \in [Poller -> SUBSET written]
  /\ failed \in [Poller -> SUBSET written]

Init ==
  /\ written = {}
  /\ published = {}
  /\ attempts = [e \in Event |-> 0]
  /\ dead = {}
  /\ backingOff = {}
  /\ archive = [e \in Event |-> 0]
  /\ batch = [p \in Poller |-> {}]
  /\ delivered = [p \in Poller |-> {}]
  /\ failed = [p \in Poller |-> {}]

\* A row is locked from the poll that selected it to the end of its transaction.
Held(p) == batch[p] \cup delivered[p] \cup failed[p]
Locked  == UNION {Held(p) : p \in Poller}

-----------------------------------------------------------------------------
\* A service's transaction commits its outbox row; created_at was set before, so
\* rows need not appear in its order.
Append(e) ==
  /\ e \notin written
  /\ written' = written \cup {e}
  /\ UNCHANGED <<published, attempts, dead, backingOff, archive, pollerVars>>

\* The delay of the row's attempt count has passed since last_attempt_at.
BackoffElapses(e) ==
  /\ e \in backingOff
  /\ backingOff' = backingOff \ {e}
  /\ UNCHANGED <<written, published, attempts, dead, archive, pollerVars>>

\* Mutated form: dead letters are left to the loop to skip.
DueOrDead(e) == e \in written \ (published \cup backingOff)

\* The WHERE clause of the poll.
Due(e) ==
  /\ e \in written \ (published \cup backingOff)
  /\ attempts[e] < MaxRetries
  /\ e \notin dead

\* ORDER BY created_at LIMIT n.
Oldest(n, S) == {e \in S : Cardinality({f \in S : f < e}) < n}

IsDeadLetter(e) == attempts[e] >= MaxRetries \/ e \in dead

\* Mutated form: no FOR UPDATE SKIP LOCKED.
PollUnlocked(p) ==
  LET due == {e \in Event : Due(e)} IN
  /\ Held(p) = {}
  /\ batch' = [batch EXCEPT ![p] =
                 {e \in Oldest(BatchSize, due) : ~ IsDeadLetter(e)}]
  /\ UNCHANGED <<rowVars, archive, delivered, failed>>

\* SELECT ... FOR UPDATE SKIP LOCKED.  The loop passes over a dead letter that was
\* selected all the same.  A poll that finds nothing changes nothing.
Poll(p) ==
  LET due == {e \in Event : Due(e)} \ Locked IN
  /\ Held(p) = {}
  /\ batch' = [batch EXCEPT ![p] =
                 {e \in Oldest(BatchSize, due) : ~ IsDeadLetter(e)}]
  /\ UNCHANGED <<rowVars, archive, delivered, failed>>

\* The loop takes the rows in order.
IsNext(p, e) == e \in batch[p] /\ \A f \in batch[p] : e <= f

\* Mutated form: a document without the event's id is always inserted.
ArchivedAnew(e) == [archive EXCEPT ![e] = @ + 1]

\* insert_one() with _id = event_id: a duplicate key means it is there already.
Archived(e) == [archive EXCEPT ![e] = IF @ = 0 THEN 1 ELSE @]

\* _dispatch_event() returns: the document is in the archive.
Deliver(p, e) ==
  /\ IsNext(p, e)
  /\ archive' = Archived(e)
  /\ batch' = [batch EXCEPT ![p] = @ \ {e}]
  /\ delivered' = [delivered EXCEPT ![p] = @ \cup {e}]
  /\ UNCHANGED <<rowVars, failed>>

\* Mutated form: the failure is swallowed and the row marked published.
FailSilently(p, e) ==
  /\ IsNext(p, e)
  /\ batch' = [batch EXCEPT ![p] = @ \ {e}]
  /\ delivered' = [delivered EXCEPT ![p] = @ \cup {e}]
  /\ UNCHANGED <<rowVars, archive, failed>>

\* _dispatch_event() raises: no building for the scheme, Mongo unreachable, or an
\* insert that was applied and reported as an error.
Fail(p, e) ==
  /\ IsNext(p, e)
  /\ archive' \in {archive, Archived(e)}
  /\ batch' = [batch EXCEPT ![p] = @ \ {e}]
  /\ failed' = [failed EXCEPT ![p] = @ \cup {e}]
  /\ UNCHANGED <<rowVars, delivered>>

Release(p) ==
  /\ batch' = [batch EXCEPT ![p] = {}]
  /\ delivered' = [delivered EXCEPT ![p] = {}]
  /\ failed' = [failed EXCEPT ![p] = {}]

\* session.commit() at the end of the batch: published_at for the delivered rows;
\* attempts, last_attempt_at and perhaps the dead-letter prefix for the others.
Commit(p) ==
  LET counted == [e \in Event |-> attempts[e] + IF e \in failed[p] THEN 1 ELSE 0] IN
  /\ Held(p) # {} /\ batch[p] = {}
  /\ published' = published \cup delivered[p]
  /\ attempts' = counted
  /\ dead' = dead \cup {e \in failed[p] : counted[e] >= MaxRetries}
  /\ backingOff' = backingOff \cup failed[p]
  /\ Release(p)
  /\ UNCHANGED <<written, archive>>

\* The process dies, or an UPDATE or the commit raises: rollback of every mark.
Abort(p) ==
  /\ Held(p) # {}
  /\ Release(p)
  /\ UNCHANGED <<rowVars, archive>>

-----------------------------------------------------------------------------
Step(p) ==
  \/ Poll(p)
  \/ \E e \in Event : Deliver(p, e) \/ Fail(p, e)
  \/ Commit(p)

Next ==
  \/ \E e \in Event : Append(e) \/ BackoffElapses(e)
  \/ \E p \in Poller : Step(p) \/ Abort(p)

Spec == Init /\ [][Next]_vars

\* The loops poll for ever and delays pass; from some time on no batch is rolled
\* back.  Nothing is assumed of the deliveries.
FairSpec ==
  /\ Spec
  /\ \A p \in Poller : WF_vars(Step(p))
  /\ \A e \in Event : WF_vars(BackoffElapses(e))
  /\ <>[][\A p \in Poller : ~ Abort(p)]_vars

-----------------------------------------------------------------------------
(***************************************************************************)
(* Properties.                                                             *)
(***************************************************************************)

\* A row marked published, by whichever poller and after whatever rollbacks, is
\* in the archive (GAP-FIN-061).
PublishedIsArchived == \A e \in published : archive[e] > 0

\* Each event is archived at most once, although a crash between the insert and
\* the commit delivers it again.
ArchivedOnce == \A e \in Event : archive[e] <= 1

\* A published or dead row is never touched again: no poller counts a failure
\* against a row another poller has published meanwhile.
SettledRowsStay ==
  [][\A e \in published \cup dead :
       /\ attempts'[e] = attempts[e]
       /\ e \in published <=> e \in published'
       /\ e \in dead <=> e \in dead']_vars

\* A poison event fails into the dead letters and keeps nobody else from being
\* published: no row waits for ever behind it.
EveryEventSettles == \A e \in Event : e \in written ~> e \in published \cup dead
=============================================================================
