--------------------------- MODULE MatchDecision ---------------------------
(***************************************************************************)
(* One item of the bank match review queue, and the calls that decide it   *)
(* (routers/financial_matching.py).  The item is a Mongo document; a       *)
(* decision to allocate posts a receipt to the PostgreSQL ledger, copies   *)
(* the payment to Mongo and then closes the item: three stores' worth of   *)
(* steps that no transaction covers.  Items share no state, since the      *)
(* ledger's idempotency key names the item.                                *)
(***************************************************************************)
EXTENDS FiniteSets

CONSTANTS
  Request,        \* the calls made about the item; each is made once at most
  Payload,        \* lot and amount of a decision to allocate
  EnginePayload,  \* the payload the matching engine decides on
  KnownPayload,   \* the payload the Demo Bank row of the item names
  NoPayload       \* not a payload: a decision to reject or leave unidentified

Closing == {"rejected", "unidentified"}
Status  == {"pending", "auto_allocated", "posting", "allocated"} \cup Closing
Kind    == {"reviewer", "bulk", "engine", "promotion"}

ASSUME MatchAssumption ==
  /\ {EnginePayload, KnownPayload} \subseteq Payload
  /\ NoPayload \notin Payload
  /\ Payload \cap Closing = {}

VARIABLES
  status,     \* status of the item
  decision,   \* payload of its decision, NoPayload for a closing one
  postingBy,  \* who claimed it last: posting_by
  linked,     \* its bank transaction is found in finance.bank_transactions
  receipts,   \* payloads of the receipts committed under the item's key
  pc,         \* the step each call makes next
  kind,       \* what kind of call it is
  choice,     \* the payload or closing status it decides
  prior,      \* the status its claim expects and its failure restores
  mirrored,   \* calls that copied the payment to levy_payments
  announced,  \* calls that recorded MatchDecisionRecorded
  rolledBack  \* history: calls whose failed allocation undid their receipt

itemVars == <<status, decision, postingBy>>
callVars == <<kind, choice, prior>>
vars == <<itemVars, linked, receipts, pc, callVars, mirrored, announced, rolledBack>>

PC == {"new", "read", "claim", "look", "post", "mirror", "finalise",
       "restore", "close", "announce", "done"}

TypeOK ==
  /\ status \in Status
  /\ decision \in Payload \cup {NoPayload}
  /\ postingBy \in Kind
  /\ linked \in BOOLEAN
  /\ receipts \subseteq Payload
  /\ pc \in [Request -> PC]
  /\ kind \in [Request -> Kind]
  /\ choice \in [Request -> Payload \cup Closing]
  /\ prior \in [Request -> {"pending", "auto_allocated", "unidentified"}]
  /\ mirrored \subseteq Request
  /\ announced \subseteq Request
  /\ rolledBack \subseteq Request
  /\ \A r \in Request :
        pc[r] \in {"read", "claim", "look", "post", "mirror", "finalise", "restore"}
        => choice[r] \in Payload

\* match() inserts the item, undecided; it claims nothing.  (No code sets the status
\* "review" that the promotion would accept too.)
Init ==
  /\ status \in {"pending", "auto_allocated"}
  /\ decision = NoPayload
  /\ postingBy = "reviewer"
  /\ linked \in BOOLEAN
  /\ receipts = {}
  /\ pc = [r \in Request |-> "new"]
  /\ kind = [r \in Request |-> "reviewer"]
  /\ choice = [r \in Request |-> EnginePayload]
  /\ prior = [r \in Request |-> "pending"]
  /\ mirrored = {}
  /\ announced = {}
  /\ rolledBack = {}

GoTo(r, step) == pc' = [pc EXCEPT ![r] = step]

\* Call r of kind k was found admissible: it decides c and goes on with step.
Admit(r, k, c, from, step) ==
  /\ kind' = [kind EXCEPT ![r] = k]
  /\ choice' = [choice EXCEPT ![r] = c]
  /\ prior' = [prior EXCEPT ![r] = from]
  /\ GoTo(r, step)
  /\ UNCHANGED <<itemVars, linked, receipts, mirrored, announced, rolledBack>>

-----------------------------------------------------------------------------
\* decide_queue_item(allocate).  An item that is posting the same payload counts as
\* the retry of a crashed call and needs no claim.
ReviewAllocate(r, p) ==
  /\ pc[r] = "new"
  /\ \/ /\ status = "pending"
        /\ Admit(r, "reviewer", p, "pending", "claim")
     \/ /\ status = "posting"
        /\ decision = p
        /\ Admit(r, "reviewer", p, "pending", "look")

\* decide_queue_item(reject or unidentified).
ReviewClose(r, c) ==
  /\ pc[r] = "new"
  /\ status = "pending"
  /\ Admit(r, "reviewer", c, "pending", "close")

\* bulk_decide_queue_items(), for this item of the list it read.
BulkClose(r, c) ==
  /\ pc[r] = "new"
  /\ status = "pending"
  /\ Admit(r, "bulk", c, "pending", "close")

\* match() classified the item, or its replay found it auto-allocated: the caller
\* goes on to auto_allocate_queue_item().
Dispatch(r) ==
  /\ pc[r] = "new"
  /\ status = "auto_allocated"
  /\ Admit(r, "engine", EnginePayload, "auto_allocated", "read")

\* auto_allocate_queue_item() reads the item again.
EngineRead(r) ==
  /\ pc[r] = "read"
  /\ \/ status = "auto_allocated" /\ GoTo(r, "claim")
     \/ status = "posting" /\ postingBy = "engine" /\ GoTo(r, "look")
     \/ /\ status # "auto_allocated"
        /\ ~ (status = "posting" /\ postingBy = "engine")
        /\ GoTo(r, "done")
  /\ UNCHANGED <<itemVars, linked, receipts, callVars, mirrored, announced, rolledBack>>

\* promote_high_confidence_reconstruction().
Promote(r) ==
  /\ pc[r] = "new"
  /\ status \in {"pending", "unidentified"}
  /\ Admit(r, "promotion", KnownPayload, status, "claim")

\* The claim, an update of the item in the status the call read.
Claim(r) ==
  /\ pc[r] = "claim"
  /\ IF status = prior[r]
     THEN /\ status' = "posting"
          /\ decision' = choice[r]
          /\ postingBy' = kind[r]
          /\ GoTo(r, "look")
     ELSE /\ GoTo(r, "done")
          /\ UNCHANGED itemVars
  /\ UNCHANGED <<linked, receipts, callVars, mirrored, announced, rolledBack>>

-----------------------------------------------------------------------------
\* Mutated form: the receipt is recognised by its bank transaction alone.
LookByTransaction(r) ==
  /\ pc[r] = "look"
  /\ GoTo(r, IF linked /\ receipts # {} THEN "mirror" ELSE "post")
  /\ UNCHANGED <<itemVars, linked, receipts, callVars, mirrored, announced, rolledBack>>

\* record_payment() first looks for a receipt of the same bank transaction, lot and
\* amount, if the item has a bank transaction.  The found one is returned as is.
Look(r) ==
  /\ pc[r] = "look"
  /\ GoTo(r, IF linked /\ choice[r] \in receipts THEN "mirror" ELSE "post")
  /\ UNCHANGED <<itemVars, linked, receipts, callVars, mirrored, announced, rolledBack>>

\* Mutated form: no unique index on the idempotency key.
PostUnkeyed(r) ==
  /\ pc[r] = "post"
  /\ receipts' = receipts \cup {choice[r]}
  /\ GoTo(r, "mirror")
  /\ UNCHANGED <<itemVars, linked, callVars, mirrored, announced, rolledBack>>

\* The transaction inserts the entry and the receipt and commits.  Nothing of it is
\* seen before, and an insert under the same key waits for it: it is one step.
Post(r) ==
  /\ pc[r] = "post"
  /\ receipts = {}
  /\ receipts' = {choice[r]}
  /\ GoTo(r, "mirror")
  /\ UNCHANGED <<itemVars, linked, callVars, mirrored, announced, rolledBack>>

\* The key exists already, or the scheme, lot, owner or period is not found, or the
\* database rejects a statement: the exception is turned into None.
PostFails(r) ==
  /\ pc[r] \in {"look", "post"}
  /\ GoTo(r, "restore")
  /\ UNCHANGED <<itemVars, linked, receipts, callVars, mirrored, announced, rolledBack>>

\* The transaction commits, the connection is lost before the answer arrives.
PostUnheard(r) ==
  /\ pc[r] = "post"
  /\ receipts = {}
  /\ receipts' = {choice[r]}
  /\ GoTo(r, "restore")
  /\ UNCHANGED <<itemVars, linked, callVars, mirrored, announced, rolledBack>>

\* A statement of allocate_payment() fails.  The exception is swallowed, but it has
\* aborted the transaction, whose COMMIT rolls back without an error: the
\* receipt's id is returned, its row is gone.
PostUndone(r) ==
  /\ pc[r] = "post"
  /\ receipts = {}
  /\ rolledBack' = rolledBack \cup {r}
  /\ GoTo(r, "mirror")
  /\ UNCHANGED <<itemVars, linked, receipts, callVars, mirrored, announced>>

\* The copy for the Mongo dashboards; its failure is logged only.
Mirror(r) ==
  /\ pc[r] = "mirror"
  /\ mirrored' \in {mirrored, mirrored \cup {r}}
  /\ GoTo(r, "finalise")
  /\ UNCHANGED <<itemVars, linked, receipts, callVars, announced, rolledBack>>

\* Mutated form: the item is closed under the decision it carries.
FinaliseAsClaimed(r) ==
  /\ pc[r] = "finalise"
  /\ status' = IF status = "posting" THEN "allocated" ELSE status
  /\ GoTo(r, "announce")
  /\ UNCHANGED <<decision, postingBy, linked, receipts, callVars, mirrored, announced,
                 rolledBack>>

\* The item leaves "posting"; whether the update matched it is not looked at.
Finalise(r) ==
  /\ pc[r] = "finalise"
  /\ IF status = "posting"
     THEN status' = "allocated" /\ decision' = choice[r]
     ELSE UNCHANGED <<status, decision>>
  /\ GoTo(r, "announce")
  /\ UNCHANGED <<postingBy, linked, receipts, callVars, mirrored, announced, rolledBack>>

\* Mutated form: the failed call does not ask whether the item is still posting.
RestoreById(r) ==
  /\ pc[r] = "restore"
  /\ status' = prior[r]
  /\ GoTo(r, "done")
  /\ UNCHANGED <<decision, postingBy, linked, receipts, callVars, mirrored, announced,
                 rolledBack>>

\* No receipt id came back: the item returns to where it was.
Restore(r) ==
  /\ pc[r] = "restore"
  /\ status' = IF status = "posting" THEN prior[r] ELSE status
  /\ GoTo(r, "done")
  /\ UNCHANGED <<decision, postingBy, linked, receipts, callVars, mirrored, announced,
                 rolledBack>>

-----------------------------------------------------------------------------
\* Mutated form: the action's name is written for its status.
CloseUnmapped(r) ==
  /\ pc[r] = "close"
  /\ IF status = "pending"
     THEN /\ status' = IF choice[r] = "rejected" THEN "reject" ELSE choice[r]
          /\ decision' = NoPayload
          /\ GoTo(r, "announce")
     ELSE /\ GoTo(r, IF kind[r] = "bulk" THEN "done" ELSE "announce")
          /\ UNCHANGED <<status, decision>>
  /\ UNCHANGED <<postingBy, linked, receipts, callVars, mirrored, announced, rolledBack>>

\* The closing update, on a pending item only.  The bulk call passes over an item it
\* did not match; the single one does not look.
Close(r) ==
  /\ pc[r] = "close"
  /\ IF status = "pending"
     THEN /\ status' = choice[r]
          /\ decision' = NoPayload
          /\ GoTo(r, "announce")
     ELSE /\ GoTo(r, IF kind[r] = "bulk" THEN "done" ELSE "announce")
          /\ UNCHANGED <<status, decision>>
  /\ UNCHANGED <<postingBy, linked, receipts, callVars, mirrored, announced, rolledBack>>

\* event_log.insert_one(MatchDecisionRecorded).
Announce(r) ==
  /\ pc[r] = "announce"
  /\ announced' = announced \cup {r}
  /\ GoTo(r, "done")
  /\ UNCHANGED <<itemVars, linked, receipts, callVars, mirrored, rolledBack>>

\* The process dies, the caller hangs up, or a Mongo call raises out of the handler.
Crash(r) ==
  /\ pc[r] \notin {"new", "done"}
  /\ GoTo(r, "done")
  /\ UNCHANGED <<itemVars, linked, receipts, callVars, mirrored, announced, rolledBack>>

Posting(r) ==
  \/ Claim(r)
  \/ Look(r)
  \/ Post(r) \/ PostFails(r) \/ PostUnheard(r) \/ PostUndone(r)
  \/ Mirror(r)
  \/ Finalise(r)
  \/ Restore(r)

Step(r) ==
  \/ \E p \in Payload : ReviewAllocate(r, p)
  \/ \E c \in Closing : ReviewClose(r, c) \/ BulkClose(r, c)
  \/ Dispatch(r) \/ EngineRead(r)
  \/ Promote(r)
  \/ Posting(r)
  \/ Close(r)
  \/ Announce(r)
  \/ Crash(r)

Next == \E r \in Request : Step(r)

Spec == Init /\ [][Next]_vars

-----------------------------------------------------------------------------
\* An allocated item has exactly one receipt, for the lot and amount it was decided
\* on, whatever retries and races led there; only a decision whose allocation undid
\* the posting may lack it (_post_payment_to_ledger's contract).
AllocatedIsPosted ==
  status = "allocated" =>
    \/ receipts = {decision}
    \/ \E r \in rolledBack : choice[r] = decision

\* An allocation in the event log or on the dashboards is the one in the ledger: no
\* call reports a payment that another one's receipt contradicts.
ReportedIsPosted ==
  \A r \in (announced \cup mirrored) \ rolledBack :
    choice[r] \in Payload => receipts = {choice[r]}

\* Without a bank transaction to recognise it by, a payment is copied to the
\* dashboards at most once: a retry fails on the key instead.
MirroredOnce ==
  ~ linked =>
    \A r, s \in mirrored \ rolledBack : r = s

\* An allocated or rejected item stays so, with the decision it has: no failure of
\* another call reopens it.  An unidentified one may only be promoted.
DecidedIsFinal ==
  [][/\ status \in {"allocated", "rejected"} => UNCHANGED <<status, decision>>
     /\ status = "unidentified" => status' \in {"unidentified", "posting"}]_vars

-----------------------------------------------------------------------------
\* "Each review item can only be decided once": a rejected item was not posted
\* (detail of decide_queue_item's 409, which the claim before posting is to ensure).
RejectedIsUnposted == status = "rejected" => receipts = {}
=============================================================================
