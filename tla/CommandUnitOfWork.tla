------------------------- MODULE CommandUnitOfWork -------------------------
(***************************************************************************)
(* PowerhouseCommandUnitOfWork.execute()                                   *)
(* (services/powerhouse_command_foundation.py): one PostgreSQL transaction *)
(* around an idempotency record, a domain mutation, an audit event and an  *)
(* outbox event.  The mutations are the two commands on the versions of    *)
(* one workflow definition (services/powerhouse_workflow_command_service.py *)
(* create_workflow_definition_command and                                  *)
(* publish_workflow_definition_version_command).                           *)
(*                                                                         *)
(* Every SQL statement is one action.  A transaction reads what others     *)
(* committed before the statement (READ COMMITTED), its own writes stay in *)
(* the session until Commit, and it holds the row and index locks of those *)
(* writes until it ends.                                                   *)
(***************************************************************************)
EXTENDS Integers, FiniteSets

CONSTANTS
  CreateKey,   \* idempotency keys sent with workflow.create_definition
  PublishKey,  \* idempotency keys sent with workflow.publish_definition_version
  Session,     \* request handlers that may run at the same time
  None,        \* "no key"
  MaxVersion   \* bound on version numbers; larger than the number of keys

Key == CreateKey \cup PublishKey

ASSUME UnitOfWorkAssumption ==
  /\ CreateKey \cap PublishKey = {}
  /\ None \notin Key
  /\ MaxVersion \in Nat

Version == 1..MaxVersion

VARIABLES
  record,    \* core.command_idempotency_records: result_status of each key
  audits,    \* core.audit_events: rows written for each key
  events,    \* core.outbox: rows written for each key
  template,  \* workflow.workflow_templates: state of each version's row
  author,    \* history: key whose command inserted each version
  pc,        \* the statement each session executes next
  key,       \* the request it serves
  result,    \* the CommandResult execute() is about to return
  next,      \* the version it will insert
  target,    \* rows its UPDATE found active
  retired,   \* rows it deactivated, uncommitted
  inserted,  \* version it inserted, uncommitted; 0 if none
  rows       \* the other rows it wrote, uncommitted

tables   == <<record, audits, events, template, author>>
locals   == <<key, result, next, target, retired, inserted, rows>>
vars     == <<tables, pc, locals>>

Refusal == {"conflict", "not_found"}
Result  == {"started", "created", "replay"} \cup Refusal

\* Statements between the first lock and COMMIT.
InTransaction == {"mutate", "update", "retire", "insert", "audit", "outbox",
                  "finalise", "commit"}

TypeOK ==
  /\ record \in [Key -> {"none", "created"} \cup Refusal]
  /\ audits \in [Key -> Nat]
  /\ events \in [Key -> Nat]
  /\ template \in [Version -> {"absent", "active", "inactive"}]
  /\ author \in [Version -> Key \cup {None}]
  /\ pc \in [Session -> InTransaction \cup {"idle", "claim", "answer"}]
  /\ key \in [Session -> Key \cup {None}]
  /\ result \in [Session -> Result]
  /\ next \in [Session -> Nat]
  /\ target \in [Session -> SUBSET Version]
  /\ retired \in [Session -> SUBSET Version]
  /\ inserted \in [Session -> Version \cup {0}]
  /\ rows \in [Session -> SUBSET {"audit", "outbox", "record"}]

Init ==
  /\ record = [k \in Key |-> "none"]
  /\ audits = [k \in Key |-> 0]
  /\ events = [k \in Key |-> 0]
  /\ template = [v \in Version |-> "absent"]
  /\ author = [v \in Version |-> None]
  /\ pc = [s \in Session |-> "idle"]
  /\ key = [s \in Session |-> None]
  /\ result = [s \in Session |-> "started"]
  /\ next = [s \in Session |-> 0]
  /\ target = [s \in Session |-> {}]
  /\ retired = [s \in Session |-> {}]
  /\ inserted = [s \in Session |-> 0]
  /\ rows = [s \in Session |-> {}]

Goto(s, label) == pc' = [pc EXCEPT ![s] = label]

Active == {v \in Version : template[v] = "active"}

-----------------------------------------------------------------------------
\* A request arrives.  A caller that got no answer may send its key again, also
\* while the first request is still running.
Receive(s, k) ==
  /\ pc[s] = "idle"
  /\ key' = [key EXCEPT ![s] = k]
  /\ Goto(s, "claim")
  /\ UNCHANGED <<tables, result, next, target, retired, inserted, rows>>

\* The row of key k is locked by the transaction that inserted or touched it.
Locked(k) == \E s \in Session : pc[s] \in InTransaction /\ key[s] = k

\* Mutated form: no unique constraint, so nothing to wait for.
ClaimUnlocked(s) ==
  /\ pc[s] = "claim"
  /\ IF record[key[s]] = "none"
     THEN Goto(s, "mutate") /\ UNCHANGED result
     ELSE Goto(s, "commit") /\ result' = [result EXCEPT ![s] = "replay"]
  /\ UNCHANGED <<tables, key, next, target, retired, inserted, rows>>

\* Mutated form: the key is first read under a shared lock, and both holders
\* then wait for the other to upgrade.
ClaimShared(s) ==
  /\ pc[s] = "claim"
  /\ \A t \in Session \ {s} : key[t] # key[s]
  /\ IF record[key[s]] = "none"
     THEN Goto(s, "mutate") /\ UNCHANGED result
     ELSE Goto(s, "commit") /\ result' = [result EXCEPT ![s] = "replay"]
  /\ UNCHANGED <<tables, key, next, target, retired, inserted, rows>>

\* Mutated form: a replay is finalised like any other outcome.
ClaimThenFinalise(s) ==
  /\ pc[s] = "claim"
  /\ ~ Locked(key[s])
  /\ IF record[key[s]] = "none"
     THEN Goto(s, "mutate") /\ UNCHANGED result
     ELSE Goto(s, "finalise") /\ result' = [result EXCEPT ![s] = "replay"]
  /\ UNCHANGED <<tables, key, next, target, retired, inserted, rows>>

\* _claim_idempotency(): INSERT ... ON CONFLICT DO UPDATE waits for the row's
\* lock, takes it, and returns a completed record as a replay.
Claim(s) ==
  /\ pc[s] = "claim"
  /\ ~ Locked(key[s])
  /\ IF record[key[s]] = "none"
     THEN Goto(s, "mutate") /\ UNCHANGED result
     ELSE Goto(s, "commit") /\ result' = [result EXCEPT ![s] = "replay"]
  /\ UNCHANGED <<tables, key, next, target, retired, inserted, rows>>

Refuse(s, why) ==
  /\ result' = [result EXCEPT ![s] = why]
  /\ Goto(s, "finalise")
  /\ UNCHANGED next

\* _mutate() of create: SELECT 1 ... LIMIT 1, any version refuses.
SelectAny(s) ==
  /\ pc[s] = "mutate" /\ key[s] \in CreateKey
  /\ IF \E v \in Version : template[v] # "absent"
     THEN Refuse(s, "conflict")
     ELSE /\ next' = [next EXCEPT ![s] = 1]
          /\ Goto(s, "insert")
          /\ UNCHANGED result
  /\ UNCHANGED <<tables, key, target, retired, inserted, rows>>

\* _mutate() of publish: SELECT the newest active version.
SelectActive(s) ==
  /\ pc[s] = "mutate" /\ key[s] \in PublishKey
  /\ IF Active = {}
     THEN Refuse(s, "not_found")
     ELSE /\ \E v \in Active :
               /\ \A w \in Active : w <= v
               /\ next' = [next EXCEPT ![s] = v + 1]
          /\ Goto(s, "update")
          /\ UNCHANGED result
  /\ UNCHANGED <<tables, key, target, retired, inserted, rows>>

\* UPDATE ... WHERE is_active, first half: the rows its snapshot finds.
StartUpdate(s) ==
  /\ pc[s] = "update"
  /\ target' = [target EXCEPT ![s] = Active]
  /\ Goto(s, "retire")
  /\ UNCHANGED <<tables, key, result, next, retired, inserted, rows>>

\* Mutated form: older versions are left active.
RetireNothing(s) ==
  /\ pc[s] = "retire"
  /\ Goto(s, "insert")
  /\ UNCHANGED <<tables, locals>>

\* Second half: wait for their locks, then change those that are still active.
Retire(s) ==
  /\ pc[s] = "retire"
  /\ \A t \in Session \ {s} : retired[t] \cap target[s] = {}
  /\ retired' = [retired EXCEPT ![s] = target[s] \cap Active]
  /\ Goto(s, "insert")
  /\ UNCHANGED <<tables, key, result, next, target, inserted, rows>>

\* INSERT of the new version.  The unique index (tenant, template_key, version)
\* waits for a concurrent insert of the same version to end.
Insert(s) ==
  /\ pc[s] = "insert"
  /\ next[s] \in Version
  /\ \A t \in Session \ {s} : inserted[t] # next[s]
  /\ template[next[s]] = "absent"
  /\ inserted' = [inserted EXCEPT ![s] = next[s]]
  /\ Goto(s, "audit")
  /\ result' = [result EXCEPT ![s] = "created"]
  /\ UNCHANGED <<tables, key, next, target, retired, rows>>

Write(s, row, label) ==
  /\ rows' = [rows EXCEPT ![s] = @ \cup {row}]
  /\ Goto(s, label)

WriteAuditEvent(s) ==
  /\ pc[s] = "audit"
  /\ Write(s, "audit", "outbox")
  /\ UNCHANGED <<tables, key, result, next, target, retired, inserted>>

\* Mutated form: the event is inserted on a connection of its own.
WriteOutboxEventApart(s) ==
  /\ pc[s] = "outbox"
  /\ events' = [events EXCEPT ![key[s]] = @ + 1]
  /\ Goto(s, "finalise")
  /\ UNCHANGED <<record, audits, template, author, locals>>

WriteOutboxEvent(s) ==
  /\ pc[s] = "outbox"
  /\ Write(s, "outbox", "finalise")
  /\ UNCHANGED <<tables, key, result, next, target, retired, inserted>>

\* Refused outcomes are finalised too.
FinaliseIdempotency(s) ==
  /\ pc[s] = "finalise"
  /\ Write(s, "record", "commit")
  /\ UNCHANGED <<tables, key, result, next, target, retired, inserted>>

Count(written) == IF written THEN 1 ELSE 0

\* async_session_context(): commit on a normal exit.
Commit(s) ==
  LET k == key[s] IN
  /\ pc[s] = "commit"
  /\ record' = IF "record" \in rows[s]
               THEN [record EXCEPT ![k] = result[s]] ELSE record
  /\ audits' = [audits EXCEPT ![k] = @ + Count("audit" \in rows[s])]
  /\ events' = [events EXCEPT ![k] = @ + Count("outbox" \in rows[s])]
  /\ template' = [v \in Version |->
                    IF v = inserted[s] THEN "active"
                    ELSE IF v \in retired[s] THEN "inactive" ELSE template[v]]
  /\ author' = [v \in Version |-> IF v = inserted[s] THEN k ELSE author[v]]
  /\ Goto(s, "answer")
  /\ target' = [target EXCEPT ![s] = {}]
  /\ retired' = [retired EXCEPT ![s] = {}]
  /\ inserted' = [inserted EXCEPT ![s] = 0]
  /\ rows' = [rows EXCEPT ![s] = {}]
  /\ next' = [next EXCEPT ![s] = 0]
  /\ UNCHANGED <<key, result>>

End(s) ==
  /\ Goto(s, "idle")
  /\ key' = [key EXCEPT ![s] = None]
  /\ result' = [result EXCEPT ![s] = "started"]
  /\ next' = [next EXCEPT ![s] = 0]
  /\ target' = [target EXCEPT ![s] = {}]
  /\ retired' = [retired EXCEPT ![s] = {}]
  /\ inserted' = [inserted EXCEPT ![s] = 0]
  /\ rows' = [rows EXCEPT ![s] = {}]
  /\ UNCHANGED tables

\* The command function returns, or raises a 404 or a 409.
Answer(s) == pc[s] = "answer" /\ End(s)

\* INSERT meets a committed row of the same version: unique_violation.
UniqueViolation(s) ==
  /\ pc[s] = "insert"
  /\ next[s] \in Version
  /\ template[next[s]] # "absent"
  /\ End(s)

\* A statement raises, or the process or its connection dies: rollback.  After
\* COMMIT only the answer is lost.
Fail(s) == pc[s] # "idle" /\ End(s)

-----------------------------------------------------------------------------
Step(s) ==
  \/ Claim(s)
  \/ SelectAny(s)
  \/ SelectActive(s)
  \/ StartUpdate(s)
  \/ Retire(s)
  \/ Insert(s)
  \/ UniqueViolation(s)
  \/ WriteAuditEvent(s)
  \/ WriteOutboxEvent(s)
  \/ FinaliseIdempotency(s)
  \/ Commit(s)
  \/ Answer(s)

Next == \E s \in Session :
  \/ \E k \in Key : Receive(s, k)
  \/ Step(s)
  \/ Fail(s)

Spec == Init /\ [][Next]_vars

\* A session whose lock is granted again and again gets it: PostgreSQL queues
\* lock waiters.  Nothing is assumed of callers or failures.
FairSpec == Spec /\ \A s \in Session : SF_vars(Step(s))

-----------------------------------------------------------------------------
(***************************************************************************)
(* Properties.                                                             *)
(***************************************************************************)

\* One key, all or nothing: a command recorded as created has inserted one
\* version, one audit event and one outbox event, and any other key has left no
\* trace, whatever failed, was retried or ran twice at once.
AllOrNothing ==
  \A k \in Key :
    LET done == Count(record[k] = "created") IN
    /\ audits[k] = done
    /\ events[k] = done
    /\ Cardinality({v \in Version : author[v] = k}) = done

\* The committed versions are 1..n and the newest alone is active, although
\* publishers read the active version without locking it.
NewestIsActive ==
  \A v \in Version :
    /\ template[v] # "absent" => \A u \in 1..v : template[u] # "absent"
    /\ template[v] = "active" <=>
         template[v] # "absent" /\ \A u \in Version : u > v => template[u] = "absent"

\* A transaction never waits for ever: neither for the key's row, nor for the
\* active version's row, nor for the unique index.
EveryRequestEnds == \A s \in Session : pc[s] # "idle" ~> pc[s] = "idle"

\* tests/backend/test_powerhouse_workflow_command_service.py: each command must
\* turn a replayed refusal back into a refusal.  The two commands raise only when
\* result.status is CONFLICT or NOT_FOUND.
Succeeds(s) == result[s] \notin Refusal
SuccessIsTrue ==
  \A s \in Session : pc[s] = "answer" /\ Succeeds(s) => record[key[s]] = "created"

\* Each key has one outcome for good, and the created ones took effect one after
\* the other, each exactly once.
Once == INSTANCE IdempotentCommands WITH
  outcome <- record,
  history <- [v \in {w \in Version : author[w] # None} |-> author[v]]
AppliesOnce == Once!Spec
=============================================================================
