# StrataOS: formal models of the core protocols

StrataOS is the management platform of a strata company: a FastAPI backend
(`src/backend`) over two stores, MongoDB (documents, queues, dashboards) and
PostgreSQL (ledger, workflows, outbox), with timers, polling loops and Temporal
workers around it. Most of its source is forms, reports and data repair. What is
hard to get right, and hard to test, is the handful of protocols that move money and
mail between two stores, several processes and people who press a button twice.
This directory models those: TLA+ modules translated from the source, TLC
configurations that check them on small instances, and TLAPS proofs that hold for
every size.

Paths below are relative to `src/backend`.

## Contents

| Module | Models | Checked by | Proved in |
| --- | --- | --- | --- |
| `OutboundQueue` | outbound mail queue, worker tick, operators | `MCOutboundQueue`, 3 configurations | `OutboundQueueProofs` |
| `OutboundPromise` | what the queue promises of one message (abstract) | as `KeepsPromise` | `OutboundRefinementProofs` |
| `CommandUnitOfWork` | idempotent command transaction, workflow definition commands | `MCCommandUnitOfWork`, 2 configurations | `CommandUnitOfWorkProofs` |
| `IdempotentCommands` | what a key promises a caller (abstract) | as `AppliesOnce` | `CommandUnitOfWorkProofs` |
| `OutboxRelay` | transactional outbox relay of several processes | `MCOutboxRelay`, 1 configuration | `OutboxRelayProofs` |
| `MatchDecision` | decision of a bank match item: queue, ledger, mirror, event log | `MCMatchDecision`, 2 configurations | `MatchDecisionProofs` |
| `LotLedger` | payments of a lot: receipts, allocation, credit, reversal, adjustment | `MCLotLedger`, 2 configurations | `LotLedgerProofs`, with `TotalLemmas` |
| `CutoverControl` | control plane: which store serves a domain, moved by operators | with `RoutedStores` | `RoutedStoresProofs` |
| `RoutedStores` | the two kinds of writers routed by it: uploads and levy payments | `MCRoutedStores`, 2 configurations | `RoutedStoresProofs` |

`PROJECT.json` lists the runs, the source lines of every definition, the mutated form
of a definition that each property catches, the hazards and the theorems.
A definition commented "Mutated form" is such a form; nothing else uses it.

## Inventory

### Outbound message queue
*Source* `services/outbound_queue_service.py`, `cron/cron_outbound_queue.py`,
`models/outbound_message.py`, `routers/outbound_messages.py`, `utils/email.py`,
`utils/email_suppression.py`.
*State*: rows of `outbound_messages` (status, attempts, hold and expiry times, body),
the building's controls in `settings`, the send policy. *Operations*: enqueue, cancel,
release, change controls, and the timer's tick (expire, read, claim, transmit, record).
*Interaction*: every mail of the backend enters through `send_email_async`; the tick
calls the same function back to transmit. *Hard*: ticks may overlap, rows and clock are
copied before several awaits, a tick may be killed anywhere, the provider is not
transactional, and a write whose answer is lost raises although it was applied. *Correct*
means: one worker per message, a confirmed cancel stops the mail, no tick mails before the
hold, bodies stripped from exactly the expired rows, every message settles.

### Command unit of work and workflow definitions
*Source* `services/powerhouse_command_foundation.py`,
`services/powerhouse_workflow_command_service.py`, `db_postgres/session.py`.
*State*: idempotency records, audit events, outbox rows, workflow versions.
*Operations*: `execute()` claims a key, runs a mutation, writes audit and outbox,
finalises. *Interaction*: the outbox rows feed the relay; callers live in
`services/powerhouse_conversation_service.py` and pass the client's key or a fresh one.
The two definition commands have no router in front of them today, and are the
most intricate mutations. *Hard*: retries racing their first attempt, rollbacks between any two
statements, READ COMMITTED reads of rows that change under the reader.
*Correct* means: all or nothing, one effect per key, consecutive versions with one active.

### Transactional outbox relay
*Source* `workers/outbox_relay.py`, `db_postgres/engine.py`. *State*: `core.outbox` rows
(published, attempts, error), the Mongo archive. *Operations*: poll a batch, deliver,
count failures, dead-letter. *Interaction*: producers commit rows, one loop per backend
process (four uvicorn processes) reads them. *Hard*: the archive is outside the
transaction; four pollers on one table. *Correct* means: published implies archived, once,
and no event is starved.

### Bank match review
*Source* `routers/financial_matching.py`, `integrations/matching/engine.py`,
`routers/bank_feeds.py`. *State*: a Mongo item with a status, its receipt in the ledger,
a copy of the payment for the Mongo dashboards, the event log. *Operations*: decide, bulk
decide, automatic allocation, promotion. *Interaction*: posts through the financial core.
*Hard*: one decision is a sequence of steps in two databases with no common transaction,
and four kinds of callers compete. *Correct* means: what the item, the dashboards and
the event log say was paid is the one receipt in the ledger.

### Financial core ledger
*Source* `services/financial_core/*`, `services/finance_postgres_write_service.py`.
*State*: journal entries with a hash chain per fund, receipts, levy items with
`paid_cents` and a status, allocations of receipts to items, the unapplied credit of a lot.
*Operations*: raise a levy, record and allocate a payment, reverse an entry, unwind stale
allocations, adjust. *Interaction*: called by the match review, the payment routes and many
repair scripts. *Hard*: a call reads without a lock and writes later; some writes are
increments, others sums read before; calls are repeated by retries and repairs.
*Correct* means: `paid_cents` is what is allocated, nothing is allocated twice, a
reversed receipt pays for nothing, money received is allocated or in the credit.

### Dual-store routing and cutover
*Source* `services/cutover_status_service.py`, `routers/cutover_admin.py`,
`services/domain_source_guard.py`, `services/store_router.py`,
`services/documents_store.py`, `services/finance_write_cutover_service.py`.
*State*: one row per building and domain (mode, readiness, evidence), the audit log, and
the two stores. *Operations*: promote, roll back, record readiness; route a
read or a write. *Interaction*: every routed request reads the row, some twice. *Hard*: the row
is checked in one session and overwritten in another, while writers that read it earlier
are under way; a row that cannot be read counts as MongoDB. *Correct* means: mode and
readiness fit together, an endpoint ends in the mode it announces, MongoDB can take over
whatever was uploaded, a promoted payment route does not fall back to MongoDB.

### Workflow instances, steps and automation; communications (not modelled yet)
Same unit of work, other mutations: transitions read `from_status` without a lock.

### Invoice, period and reconciliation lifecycles; Temporal workflows (not modelled yet)
Transition tables under `domain/` and activities with retries around the finance services.

### Left out
Ledger sealing, notification and analytics jobs (periodic work over data owned by
others; sealing is a candidate once the ledger is there), identity and authorisation
(request-scoped checks of nearly static data), demo bank and bank feeds (conversion of data),
frontend, migrations, seeds and scripts (no protocol of their own; the constraints the
models rely on are mapped where they are used).

## Modelling conventions

- One action is what happens between two points where another process can be seen: one
  Mongo document update, one SQL statement, or one whole transaction where nothing
  of it is visible before its commit. Local computation joins the action after it.
- A value read before an await is a variable of the process (`seenNow`, `todo`,
  `prior`, `target`), so that it can be stale.
- A process may stop at every step (`Crash`, `Fail`, `Abort`); its locals are lost, the
  stores keep what was committed.
- History variables are marked as such; they never appear in a guard.
- Message texts, names and identifiers are model values; amounts are, too, except in
  `LotLedger`, which adds them up.

## OutboundQueue

One building; buildings share nothing but the loop over them, and `Crash` covers a loop
that another building's failure ended. `enabled` stands for "queue enabled and category
not muted", `emailToggle` for the live send policy of `utils/email_suppression.py`. The
deployment switch `OUTBOUND_QUEUE_ENABLED` (off unless set) is assumed on: without it
there is no queue and every mail leaves inline.

| Code | Model |
| --- | --- |
| `enqueue`, called by `send_email_async` | `Enqueue(m, requested, settings)`; the controls' read joins it, so `earliest` is about the hold enqueue read |
| the same call when `enqueue` raises | `EnqueueFails`: the insert applied, its answer lost, or not applied; either way the caller is in `fallen` and goes on to `SendInline`, which mails at once |
| `cancel`, `release_now`, `update_queue_controls` | `Cancel`, `ReleaseNow`, `UpdateQueueControls`, conditional updates as in the code |
| `expire_stale` | `ExpireStale`: HELD and SENDING rows whose window closed |
| `process_building` | `ReadControls`, `ReadPending`, `Claim`, `ClaimLost`, ..., `EndTick` with the copies `seenEnabled`, `seenNow`, `todo`, `seenAttempts` |
| `send_email_async(_from_worker=True)` | `Suppress` or `Clear`, then `Transmit`, whose outcomes are success (`accepted`), no success (`unsent`) and an exception (`caught`), the last two with the mail accepted or not |
| `mark_sent`, `return_to_held`, `mark_attempt_failed` | same names; two of them by id alone, as in the code |
| how such a write comes back | `Returns`: answered, or applied and raised; `Caught`: raised and not applied |
| the `except` branch: `mark_attempt_failed` once more | `MarkAttemptFailed` at `caught`; what raises there ends the tick (`Crash`, after the write or without it) |

With `Faults`, a database call of the `try` block may raise, applied or not, and unreadable
settings or toggles take their fail-open defaults. A write that was applied and raised puts
its message into the history variable `unheard`: the tick then believes something else than
the row says, and `mark_attempt_failed`, by id alone, makes a SENT, CANCELLED or already
reclaimed row HELD again. The message leaves `unheard` when no tick is on it any more
(`LetGo`).

*Runs.* `QueueTwoWorkers` (one message, two overlapping ticks, faults, lost answers and
crashes, two attempts, 434,428 states): `TypeOK`, `ClaimsExclusive`, `SettledIsFinal`,
`HoldIsAFloor` and, under fairness, `EveryMessageSettles`. `ClaimsExclusive` excepts exactly
the messages in `unheard`; `SettledIsFinal` does too, and lets a caller whose `enqueue` raised
mail what it was about to mail (`fallen`). The list under Findings says why the code keeps no
more. `HoldIsAFloor` has no exception for lost answers or stale copies, but is about ticks: the
caller that falls through mails before any hold, by design when there is no row, and also
when there is one. `QueueTwoMessages` (two messages, one tick at a time, no faults,
1,289,454 states): `RedactedIffExpired`, `DisabledQueueHolds` and `KeepsPromise`, the
refinement of `OutboundPromise`: pending once, accepted at most MaxAttempts times and
only while pending, SENT only if accepted, settled for good. It is stated for one worker
and calls that do not fail, since with two workers the expiry and the lost attempt below
break it, and so does a lost answer. `QueueExpiredRevived` reaches a disagreement listed
under Findings.

*Bounds.* Two workers are the interesting number: every property is about a pair or a
single one. `MAX_ATTEMPTS` is 3 in the code and 2 in the runs: first attempt, last attempt.
The clock runs to 3 and no message is submitted whose window ends later, so hold, release,
expiry and the tick after it all happen; holds of 1, 2 or 3 (a caller asks for less or more
than the building's 2) and windows of 2 or 3 give messages that expire held and messages that
expire claimed. In `QueueTwoWorkers` the queue stays enabled (`EnabledChoices`), which keeps
the graph of states small enough for liveness; operators switch it in `QueueTwoMessages`,
and the theorems hold for any switching. In a disabled queue a message has only its window to
wait for, as one the send policy refuses for ever has, which is in the run. Two messages are
needed only for what a sweep does to several rows.

*Fairness.* `WF(AdvanceClock)` and `WF(Tick(w))`: cron starts ticks for ever and a tick
that is not killed takes its steps. Callers, operators and crashes are unfair.

## CommandUnitOfWork

| Code | Model |
| --- | --- |
| `_claim_idempotency` (INSERT ... ON CONFLICT DO UPDATE ... RETURNING, which takes the row's lock) | `Claim`, waiting while another transaction holds the key's row (`Locked`) |
| `create_workflow_definition_command` | `SelectAny`, `Insert`, refusal `conflict` |
| `publish_workflow_definition_version_command` | `SelectActive` (unlocked read), `StartUpdate`, `Retire` (re-evaluated under the row lock), `Insert`, refusal `not_found` |
| unique index on (template, version) | `Insert` waits for, `UniqueViolation` fails on, another's row |
| `_write_audit_event`, `_write_outbox_event`, `_finalise_idempotency` | same names |
| `async_session_context` | `Commit`, or `Fail` (rollback; after the commit, the lost answer) |

*Runs.* `CommandSafety` (two sessions, two create keys and two publish keys, each sent
any number of times, 18,964 states): `TypeOK`, `AllOrNothing`, `NewestIsActive`,
`EveryRequestEnds` (no deadlock and no endless wait between the key's row, the
version's row and the unique index) and `AppliesOnce`, the refinement of
`IdempotentCommands`. `CommandReplayedRefusal`: see Findings.

*Bounds.* Two transactions are what a lock or an index sets against each other; two keys
of each kind give create against create, create against publish, publish against publish
and a retry against its first attempt. Four versions are as many as the keys can insert.

*Fairness.* `SF(Step(s))`: PostgreSQL grants a lock that becomes free again and again to
its waiters in order. Callers and failures are unfair.

## OutboxRelay

| Code | Model |
| --- | --- |
| producers' INSERT into `core.outbox` | `Append`, in any order: `created_at` is set before the commit |
| SELECT ... FOR UPDATE SKIP LOCKED ... LIMIT | `Poll`, `Due`, `Oldest`, `Locked` |
| the loop's skip of dead letters | `IsDeadLetter` |
| `_publish_to_mongo` and the mark | `Deliver`, with `Archived` for insert_one on `_id` |
| the `except` branch of a row | `Fail` |
| commit of the batch; rollback | `Commit`; `Abort` |
| `_is_retry_due` | `backingOff`, `BackoffElapses` |

*Run.* `RelayTwoPollers` (two pollers, three events, batches of two, two attempts, 30,025
states): `TypeOK`, `PublishedIsArchived`, `ArchivedOnce`, `SettledRowsStay` and
`EveryEventSettles`. *Bounds.* A batch of two of three rows has a first, a last and one
left behind; two attempts separate a retry from the last failure; a row
is locked by one poller or by none, so a third adds no new conflict (the theorems hold
for any number).

*Fairness.* `WF` of the loops and of the backoff delays: `run_relay_loop` polls for ever.
From some time on no batch is rolled back; without that assumption a database that fails
every commit starves everything. Deliveries themselves may fail for ever: such events
end as dead letters.

## MatchDecision

One item: items share no state, because the ledger's idempotency key names the item and
`match_review_queue` has one item per inbox event (unique index). Each `Request` is one
call, made at most once, so the number of requests bounds retries.

| Code | Model |
| --- | --- |
| `decide_queue_item` up to the claim | `ReviewAllocate`, `ReviewClose` (the 409s are the missing disjuncts) |
| `bulk_decide_queue_items`, one item of its list | `BulkClose`, then `Close` |
| `_dispatch_to_matching_engine`, then `auto_allocate_queue_item` | `Dispatch`, `EngineRead` |
| `promote_high_confidence_reconstruction` | `Promote` |
| the three claims, finalising and restoring updates | `Claim`, `Finalise`, `Restore` with `prior` |
| `_post_payment_to_ledger`, the transaction | `Look` (finder of an existing receipt), then `Post`, `PostFails`, `PostUnheard` (commit without an answer), `PostUndone` (see below) |
| copy to `levy_payments`; `event_log.insert_one` | `Mirror`; `Announce` |

The transaction from insert to commit is one step: nothing of it is visible before, and a
concurrent insert under the same key waits for it. `PostUndone` is an allocation whose
failed statement aborted the transaction: the exception is swallowed, PostgreSQL answers
COMMIT with a rollback and no error, and the code goes on with an id that no row has.
`linked` says whether the item's bank transaction is found, which decides whether a
retry finds the receipt or fails on the unique key; it does not change. Reversals of
receipts, and the allocation of the receipt to levies, are `LotLedger`'s.

*Run.* `MatchRaces` (three requests of any kind, two payloads, the engine and the
promotion disagreeing on the payload, 174,557 states): `TypeOK`; `AllocatedIsPosted` and
`ReportedIsPosted`, which except exactly the calls in `rolledBack`; `MirroredOnce`, for
unlinked items; `DecidedIsFinal`. The system may stop when no more calls come, so
deadlock is not checked. *Bounds.* A first call, one that races or retries it and one that
decides on what they left; with two payloads a retry is the same decision or another one.
No fairness is assumed and no liveness claimed: a claimed item whose call died waits until
somebody sends the same decision again, and nothing in the code does that by itself.

## LotLedger

One lot and one owner: lots share nothing but the journal. Amounts are cents and are added
up in the model as in the code, since the properties are about sums.

| Code | Model |
| --- | --- |
| `create_levy` | `RaiseLevy` |
| `record_payment`, then `allocate_payment` in the same transaction (`_post_payment_to_ledger`) | `Record`, `ReadOpen`, `ReadTotal`, `Allocate`; `RecordRefused` on the idempotency key |
| `record_payment` committed and no allocation with it | `PostBare`: the receipt is in `bare` |
| a receipt found by its bank transaction and allocated again; a bare one allocated at last; scripts that allocate a remainder | `AllocateAgain`, then the same steps |
| the loop over open items | `Portion`, `Surplus`, from the copies `seenPaid`, `seenOpen`, `seenAlloc` |
| `reverse_entry` with its cascade | `Reverse`, `FindStale`, `Survey`, `CommitReversal`; `ReverseRefused` |
| `reject_receipt` | the same, ending in `RejectRefused`: its own UPDATE is not valid SQL |
| `reverse_allocations` called by a repair | `Repair`, `Survey`, `CommitRepair` |
| `record_adjustment`, `decrement_paid_for_year` | `Adjust`, `Decrement` or `AdjustRefused` |
| an aborted transaction | `Abort` |

Each call is a READ COMMITTED transaction without locks before its writes: every read is a
step, what it saw is kept, and the writes and the commit are one step, because another
writer of the same rows waits for it.

`PostBare` is code that posts and commits without allocating
(`scripts/east_gate_2026_levy_payment_backfill.py`), or goes on after `allocate_payment()`
raised: `_post_payment_to_ledger` swallows its error and commits
(`routers/financial_matching.py:943-958`), and
`scripts/gap_fin_031_post_fy2026_derived_receipts.py` confines it to a savepoint.
(`FinancialCoreAdapter._record_payment_postgres` would post without allocating too; nothing
calls it, and it passes no `posted_by`, which `record_payment()` requires.) The money of a
bare receipt is on no item and in no credit until somebody allocates it, which takes it out
of `bare`.

Two history variables name what the code does not promise and the properties except.
`raced` has the receipts allocated or reversed on reads another transaction had overtaken:
two overlapping allocations do pay an item twice. `drifted` has the items whose
`paid_cents` a person adjusted, or a recompute overwrote with a sum it had read before a
concurrent increment. Both are set only by steps that find such an overlap, so the properties
say everything of calls that do not overlap on the same rows, however often they are
repeated, reversed and aborted, and of overlapping calls all that the code can keep.
`SurplusIsCredited`, over the receipts an allocation of which went through, needs neither.

*Runs.* `LedgerTwoCalls` (two workers, two receipts of 1 and 2 cents, two items of 1 cent, one
adjustment, two reversal keys, 3,315,674 states): `TypeOK`, `PaidIsAllocated`,
`NeverOverAllocated`, `ReversedPaysNothing`, `SurplusIsCredited`; and of single steps:
`PlacedInFull` (the first allocation of a receipt, with its posting or later, credits to the
cent what the items do not take, however old the copies), `CreditIsLeftover` (nothing is
credited while an item the call read lacks a cent) and `AdjustedInFull` (an adjustment takes
its cents, neither fewer nor more). The last two except copies that another call has
overtaken, where the code does otherwise. `LedgerCreditTwice`: see Findings. *Bounds.* The
amounts are the smallest with a receipt that fits an item, one that spans two and one that
leaves a surplus. Two reversal keys let an entry be reversed twice. `MaxCredit` stops
allocations once the credit is 2. Deadlock is not checked: the system may stop when no call
comes. No liveness is claimed.

## CutoverControl and RoutedStores

`CutoverControl` is the row of one domain, `documents` or `finance_ledger`, chosen at the
start; `RoutedStores` extends it with that domain's writers.

| Code | Model |
| --- | --- |
| `enter_shadow_mode`, `promote_to_read`, `promote_to_write`: the look at the mode | `AskPromotion(o, target)`; a script asks with `Unannounced` |
| `promote_domain`, `rollback_domain` | `ReadRow`, `PassGates`, then `Promote` or `Rollback` |
| `_upsert_status_row` | `Overwrite`, whatever the row has become |
| a 409, the P0 check, a failing database | `Refused` |
| `record_financial_foundation_readiness`, `record_domain_foundation_readiness` | `RecordReadiness`: the row becomes `mongo_primary` |
| `get_cutover_status`, which swallows exceptions | `Readable`: the row, or the default |
| `write_document` | `ResolveStore`, `CreateDocument` or `CreateDocumentFails`, `WriteMongo` or `WriteMongoFails`, `Die` |
| `read_documents` | `Listed` |
| `delete_document` (MongoDB only) | `Delete` |
| `record_levy_payment` | `ReadStatus` (the row), `Decide` (the row again, and everything else as `open`), `Record` |

The audit log `core.cutover_audit_log` is not modelled: it is only appended to and no decision
reads it. Nor does it follow the row: the source guard logs blocked requests in it with
to_mode `mongo` (`services/domain_source_guard.py:285,361`), and entries are ordered by the
start of their transaction.

The readiness values that no code writes (`shadow_clean`, `not_started`, ...) are left out,
as is the mode `disabled`. `misled` is a history variable: the operators whose endpoint could
not read the row or whose row another call changed since they came. `LandsAsAnnounced`
excepts them, and only them: a double click on promote-read may end in `postgres_write`.

*Runs.* `CutoverRouting` (two operators, one document, one payment, unreadable rows,
2,205,049 states): `TypeOK`, `PairConsistent`, `LandsAsAnnounced`, `MongoListsAll`.
`CutoverArchived`: see Findings. *Bounds.* Two
operators are what overwrites each other, readiness records come on top at any time; a
document and a payment meet only through the row, so that one of each is enough. Deadlock is
not checked (everything may be done) and no fairness is assumed. That a payment route refuses
to fall back in `postgres_write` is one guard of `Decide` and no property; what it does not
refuse is `CutoverArchived`.

## Proofs

TLAPS checks the following for all sets of messages, workers, keys, sessions, events, pollers,
requests, payloads, receipts, levy items, adjustments, operators and documents and all values
of the bounds, under the named assumptions at the head of each module (sets do not contain the
"none" value, budgets are positive, and the like).

- `OutboundQueueProofs`: `TypeCorrect`, `ClaimsAreExclusive`, `SettledFinal`, `HoldFloor`,
  `DisabledHolds`, `RedactedExactly`. Inductive invariant
  `TypeOK /\ ClaimsExclusive /\ HoldInv`. Exclusive claims are needed for types too (`mark_attempt_failed` uses the copy of
  the row that was claimed) and for settled rows: the unconditional writes are harmless
  because a claimed row is SENDING or was expired, and they stop being so for a message whose
  answer was lost (`unheard`), which both properties except until no worker has the message
  (`LetGoIsFree`). `HoldInv` has no exception and says why stale copies and lost answers do
  not matter to the hold: a copied clock is never ahead, a row's hold never shrinks unless
  waived, and a worker carries only rows whose floor has passed. `DisabledHolds` (if the
  database does not fail) rests on `OpenInv`: whatever a worker carries to send, it read after
  the queue was open. `RedactedExactly` is for one worker, lost answers included: the row it
  holds is then never expired (`HeldRowIntact`), since expiry is a step of its own tick; two
  workers break it, as `QueueExpiredRevived` shows.
- `CommandUnitOfWorkProofs`: `TypeCorrect`, `WholeOrNothing`, `NewestActive`. The invariant
  ties each statement of a transaction to what it has written so far (`Stage`), keeps open
  transactions of one key or one version number apart (`Apart`), and says that what is
  committed is whole. `NewestIsActive` needs `NumberInv` on top: what an unlocked read
  of the active version still means when the row lock is granted.
- `OutboundRefinementProofs` (`PromiseKept`) and the last part of `CommandUnitOfWorkProofs`
  (`EffectOnce`): the two abstract specifications are implemented, as step simulations. The
  queue keeps its promise with one worker and calls that do not fail (`OneWorker`,
  `~Faults`), for then no answer is lost (`NothingLost`), the held row is the claimed one
  (`ClaimStands`), the copy of the attempts is current (`CopiesCurrent`) and each counted
  attempt is at most one acceptance (`Counted`). A command's COMMIT appends to the history
  because of `NumberInv`: the number it committed is the next one; refusals need
  `Justified`, since the versions that refused a create are still there when the refusal commits.
- `OutboxRelayProofs`: `TypeCorrect`, `PublishedArchived`, `NeverTwice`, `SettledStay`.
  `BatchInv`: no two pollers hold a row, held rows are open and within budget, delivered
  ones are archived.
- `MatchDecisionProofs`: `TypeCorrect`, `AllocatedPosted`, `ReportedPosted`,
  `MirroredAtMostOnce`, `DecidedFinal`. `Ledger`: there is one receipt at most, it is that
  of every call that was given one, and without a bank transaction only the call that
  posted it was. `Traces`: a call not made has left nothing behind, and its choice is fixed
  once made.
- `LotLedgerProofs`: `TypeCorrect`, `PaidAllocated`, `NeverOver`, `ReversedPayNothing`,
  `SurplusCredited`, `PlacedWhole`, `CreditLeftover`, `AdjustedWhole`, for a lot with any
  charges, any finite number of receipts and any number of calls. The inductive invariant
  `LotInv` has the run's state invariants and four parts they rest on. `ItemCapped` is the form of
  `NeverOverAllocated` that a step preserves: the receipts that were not raced hold no more
  than the charge of an item together, since a deletion by another call may free an
  item that a raced receipt had overpaid. `RowCapped` is the same for receipts. `CopiesBelong`
  says that a reversal deletes its own receipt's allocations only, a repair those of
  reversed receipts only, and that both recompute every item they delete from; without it
  a commit would leave `paid_cents` behind. `NothingUnposted`: no call has read, and no
  allocation is of, a receipt that was not posted, so a new receipt starts from nothing.
  The two loops are the lemmas `Cascade` (what allocate_payment() hands out in all is what the
  items lack, or the receipt) and `CascadeBack` (the adjustment, from the newest item down).
- `TotalLemmas`: what the sums above need. A sum is a fold, which the community modules define
  by a recursive function under a CHOOSE; the lemmas show that the function exists on the
  subsets of a finite set and that the order does not matter, by induction on their size
  (`LeastNatural`, from the library's well-founded minimum `WFMin`, since its induction
  theorems take an operator), and derive how a total splits, grows, adds and is bounded.
- `RoutedStoresProofs`: `TypeCorrect`, `PairsConsistent`, `EndpointsLand`, `MongoLists`. What
  an operator writes depends on a row read long ago: `Gated` says that it is a row there is a
  way from, so that the pair it writes fits whatever it overwrites, and `Follows` that an
  endpoint not misled acts on the mode before the one it announces. `Copied`: a successful
  upload left its document in MongoDB, unless it was deleted or the failed mirror was
  reported.

Only model-checked: the liveness properties (`EveryMessageSettles`, `EveryRequestEnds`,
`EveryEventSettles`), since TLAPS does not prove liveness under fairness. Every other property
of a passing run is a theorem.

## Findings

Runs that end in a violation show where the code does not do what a comment, a message or
a test of the repository says.

- `QueueExpiredRevived`: `mark_attempt_failed` writes by id alone and revives a message
  that another tick expired and stripped, although EXPIRED is documented as terminal.
- `CommandReplayedRefusal`: a refused definition command sent again is answered as a
  success; the other commands have the check that these two lack.
- `MatchRejectedPosted`: an exception in the posting is taken for "not recorded", a lost
  answer to COMMIT included; the item is pending again and can be rejected with its
  receipt in the ledger.
- `LedgerCreditTwice`: the surplus of a receipt is credited again when the receipt is
  allocated again, and stays when it is reversed.
- `CutoverArchived`: once the ledger is promoted on to `mongo_archive`, payments go to MongoDB
  without an error, although promoted routes are documented to fail closed.

More is seen in the models and not claimed as a violation by a run:

- With two workers a mail attempt may be counted once where two were made (`seenAttempts`
  is a copy), so the budget is a bound for one worker only.
- An exception of the `try` block is taken for "not sent", the lost answer of a write that was
  applied included. A tick returns a suppressed message to HELD and does not hear so; an
  operator cancels it and is told so; `mark_attempt_failed` sets it to HELD again, although a
  cancel that lands first is documented to win
  (`services/outbound_queue_service.py:188-190`).
- In the same way a lost answer of `mark_sent` sets a SENT row to HELD
  (`cron/cron_outbound_queue.py:143-144`), and the message is mailed again.
- When the insert of `enqueue` is applied and raises, the mail leaves inline although its row is
  HELD (`utils/email.py:341-364`): before its hold, unreviewed, and once more when the row
  is due. The comment at line 329 says that no message reaches a provider un-reviewed.
- A rollback decides on a row read earlier and overwrites what a promotion has made of it
  since: it then goes two modes back, while documented is the previous one only
  (`services/cutover_status_service.py:20,1402`).
- A receipt posted without its allocation is on no levy item and in no credit until somebody
  allocates it; nothing in the code does that by itself.
- A message whose worker died after the provider accepted it is later recorded as
  "expired unsent" (`services/outbound_queue_service.py:286`).
- A rejection that lost the race to an allocation is recorded and answered as done: the
  update's result is not looked at (`routers/financial_matching.py:343`).
- An allocation error can undo a receipt silently (`PostUndone`).
- `reject_receipt` never takes effect: its UPDATE has a comma before WHERE.
- Recording readiness sets a promoted domain back to `mongo_primary`; the docstring says it
  never transitions the mode.
- Once PostgreSQL has one document of a building, its list hides those only MongoDB has,
  and goes on showing deleted ones.

## Plan

Done, in this order: OutboundQueue with its promise; CommandUnitOfWork with
IdempotentCommands; OutboxRelay; MatchDecision; the invariants of each proved; LotLedger;
CutoverControl and RoutedStores, proved; the two refinements proved; LotLedger proved, with
three more properties of its steps.

What would add most next:

1. The journal: entries with their hash chain per fund, and `seal_period` over them. Property:
   one successor per hash, a seal covers what it counts.
2. `CommandPipeline`, composing CommandUnitOfWork and OutboxRelay over the shared outbox:
   every accepted command reaches the archive exactly once, and no refused one does.
3. `WorkflowInstances`: transitions, steps and automation runs as further mutations.
4. The invoice and period lifecycles as transition relations checked against their users,
   then the Temporal workflows as retried activities over LotLedger.
