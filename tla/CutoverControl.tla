--------------------------- MODULE CutoverControl ---------------------------
(***************************************************************************)
(* The cutover control plane (services/cutover_status_service.py and the   *)
(* endpoints of routers/cutover_admin.py): the row that says which store   *)
(* serves one domain of one building, moved through the cutover modes by   *)
(* operators who act at the same time.  An endpoint looks at the row, then *)
(* promote_domain() or rollback_domain() reads it again, and a later       *)
(* transaction overwrites the whole row.  The audit log, which no decision  *)
(* reads, is left out.                                                     *)
(***************************************************************************)
EXTENDS Naturals

CONSTANTS
  Operator,    \* requests to the endpoints and runs of the activation scripts
  Unannounced, \* what a script announces: it promotes from wherever the row stands
  Faults       \* whether the row may be unreadable for a request

Domain == {"documents", "finance_ledger"}
Mode == {"mongo_primary", "postgres_shadow", "postgres_read", "postgres_write",
         "mongo_archive"}
Readiness == {"unknown", "ready_for_shadow", "blocked", "shadow_active",
              "shadow_passing", "promoted", "rolled_back"}
Row == [mode : Mode, readiness : Readiness, evidence : BOOLEAN]

ASSUME ControlAssumption ==
  /\ Unannounced \notin Mode
  /\ Faults \in BOOLEAN

VARIABLES
  domain,   \* the domain the row is about
  row,      \* its row; evidence: a passing financial_onboarding in p0_snapshot
  identity, \* whether identity_core is ready, a row of its own
  pc,       \* what each operator does next
  wants,    \* "promote" or "rollback"
  announced,\* the mode its endpoint is for
  seen,     \* the row as promote_domain() or rollback_domain() read it
  misled    \* history: operators whose endpoint could not read the row, or whose row
            \* another call changed since they came
controlVars == <<domain, row, identity, pc, wants, announced, seen, misled>>

\* No row yet: get_or_default_cutover_status().
DefaultRow == [mode |-> "mongo_primary", readiness |-> "unknown", evidence |-> FALSE]

ControlTypeOK ==
  /\ domain \in Domain
  /\ row \in Row
  /\ identity \in BOOLEAN
  /\ pc \in [Operator -> {"idle", "read", "gates", "commit"}]
  /\ wants \in [Operator -> {"promote", "rollback"}]
  /\ announced \in [Operator -> Mode \cup {Unannounced}]
  /\ seen \in [Operator -> Row]
  /\ misled \subseteq Operator

ControlInit ==
  /\ domain \in Domain
  /\ row = DefaultRow
  /\ identity = FALSE
  /\ pc = [o \in Operator |-> "idle"]
  /\ wants = [o \in Operator |-> "promote"]
  /\ announced = [o \in Operator |-> Unannounced]
  /\ seen = [o \in Operator |-> DefaultRow]
  /\ misled = {}

\* VALID_FORWARD_TRANSITIONS, VALID_ROLLBACK_TRANSITIONS.
Forward == [mongo_primary   |-> "postgres_shadow",
            postgres_shadow |-> "postgres_read",
            postgres_read   |-> "postgres_write",
            postgres_write  |-> "mongo_archive"]
Backward == [postgres_shadow |-> "mongo_primary",
             postgres_read   |-> "postgres_shadow",
             postgres_write  |-> "postgres_read",
             mongo_archive   |-> "postgres_write"]

\* _EXPECTED_READINESS_BY_MODE, the readinesses that are written anywhere.
Expected ==
  [mongo_primary   |-> {"unknown", "blocked", "ready_for_shadow", "rolled_back"},
   postgres_shadow |-> {"shadow_active", "shadow_passing", "rolled_back"},
   postgres_read   |-> {"shadow_passing", "promoted", "rolled_back"},
   postgres_write  |-> {"promoted", "rolled_back"},
   mongo_archive   |-> {"promoted"}]

ReadinessAfter == [postgres_shadow |-> "shadow_active",
                   postgres_read   |-> "shadow_passing",
                   postgres_write  |-> "promoted",
                   mongo_archive   |-> "promoted"]

\* What a request may read: get_cutover_status() swallows every exception.
Readable == {row} \cup (IF Faults THEN {DefaultRow} ELSE {})

Others(o) == {p \in Operator \ {o} : pc[p] # "idle"}

Leave(o) ==
  /\ pc' = [pc EXCEPT ![o] = "idle"]
  /\ wants' = [wants EXCEPT ![o] = "promote"]
  /\ announced' = [announced EXCEPT ![o] = Unannounced]
  /\ seen' = [seen EXCEPT ![o] = DefaultRow]

-----------------------------------------------------------------------------
\* enter_shadow_mode(), promote_to_read(), promote_to_write(): the endpoint looks at
\* the mode; or a script, which does not.
AskPromotion(o, target) ==
  /\ pc[o] = "idle"
  /\ pc' = [pc EXCEPT ![o] = "read"]
  /\ announced' = [announced EXCEPT ![o] = target]
  /\ \/ target = Unannounced /\ UNCHANGED misled
     \/ /\ target \in {"postgres_shadow", "postgres_read", "postgres_write"}
        /\ \E r \in Readable :
              /\ r.mode = Backward[target]
              /\ misled' = IF r = row THEN misled ELSE misled \cup {o}
  /\ UNCHANGED <<domain, row, identity, wants, seen>>

AskRollback(o) ==
  /\ pc[o] = "idle"
  /\ pc' = [pc EXCEPT ![o] = "read"]
  /\ wants' = [wants EXCEPT ![o] = "rollback"]
  /\ UNCHANGED <<domain, row, identity, announced, seen, misled>>

\* promote_domain() and rollback_domain() read the row for themselves.  (If they cannot,
\* they take the default row, which neither may move: as good as Refused.)
ReadRow(o) ==
  /\ pc[o] = "read"
  /\ seen' = [seen EXCEPT ![o] = row]
  /\ pc' = [pc EXCEPT ![o] = "gates"]
  /\ UNCHANGED <<domain, row, identity, wants, announced, misled>>

\* The gates of promote_domain(); a script may skip that of the identity.
MayPromote(o) ==
  LET from == seen[o].mode IN
  /\ from \in DOMAIN Forward
  /\ seen[o].readiness \in Expected[from]
  /\ from = "mongo_primary" => seen[o].readiness = "ready_for_shadow"
  /\ domain = "finance_ledger" /\ Forward[from] = "postgres_read" =>
        seen[o].evidence /\ (identity \/ announced[o] = Unannounced)

PassGates(o) ==
  /\ pc[o] = "gates"
  /\ IF wants[o] = "promote" THEN MayPromote(o) ELSE seen[o].mode \in DOMAIN Backward
  /\ pc' = [pc EXCEPT ![o] = "commit"]
  /\ UNCHANGED <<domain, row, identity, wants, announced, seen, misled>>

\* A gate does not hold, the P0 check fails, the database fails.
Refused(o) ==
  /\ pc[o] # "idle"
  /\ Leave(o)
  /\ misled' = misled \ {o}
  /\ UNCHANGED <<domain, row, identity>>

\* _upsert_status_row(), whatever the row has become.
Overwrite(o, new) ==
  /\ row' = new
  /\ misled' = (misled \cup Others(o)) \ {o}
  /\ Leave(o)
  /\ UNCHANGED <<domain, identity>>

\* Mutated form: shadow_passing takes the domain to PostgreSQL writes at once.
PromoteTwice(o) ==
  LET next == Forward[seen[o].mode]
      to == IF next = "postgres_read" THEN "postgres_write" ELSE next IN
  /\ pc[o] = "commit"
  /\ wants[o] = "promote"
  /\ Overwrite(o, [mode |-> to, readiness |-> ReadinessAfter[to],
                   evidence |-> seen[o].evidence])

\* promote_domain() keeps the snapshot it read.
Promote(o) ==
  LET to == Forward[seen[o].mode] IN
  /\ pc[o] = "commit"
  /\ wants[o] = "promote"
  /\ Overwrite(o, [mode |-> to, readiness |-> ReadinessAfter[to],
                   evidence |-> seen[o].evidence])

\* Mutated form: a readiness that does not exist.
RollbackMisspelt(o) ==
  /\ pc[o] = "commit"
  /\ wants[o] = "rollback"
  /\ Overwrite(o, [mode |-> Backward[seen[o].mode], readiness |-> "rollback",
                   evidence |-> FALSE])

\* rollback_domain() drops it.
Rollback(o) ==
  /\ pc[o] = "commit"
  /\ wants[o] = "rollback"
  /\ Overwrite(o, [mode |-> Backward[seen[o].mode], readiness |-> "rolled_back",
                   evidence |-> FALSE])

\* Mutated form: the mode is kept, the readiness is not.
RecordReadinessOnly(passed) ==
  /\ row' = [mode |-> row.mode,
             readiness |-> IF passed THEN "ready_for_shadow" ELSE "blocked",
             evidence |-> passed /\ domain = "finance_ledger"]
  /\ misled' = misled \cup {o \in Operator : pc[o] # "idle"}
  /\ UNCHANGED <<domain, identity, pc, wants, announced, seen>>

\* record_financial_foundation_readiness(), record_domain_foundation_readiness(): the
\* row becomes mongo_primary, whatever it was.
RecordReadiness(passed) ==
  /\ row' = [mode |-> "mongo_primary",
             readiness |-> IF passed THEN "ready_for_shadow" ELSE "blocked",
             evidence |-> passed /\ domain = "finance_ledger"]
  /\ misled' = misled \cup {o \in Operator : pc[o] # "idle"}
  /\ UNCHANGED <<domain, identity, pc, wants, announced, seen>>

\* The row of identity_core becomes ready, or is rolled back.
IdentityChanges ==
  /\ domain = "finance_ledger"
  /\ identity' = ~identity
  /\ UNCHANGED <<domain, row, pc, wants, announced, seen, misled>>

Operate(o) ==
  \/ \E target \in Mode \cup {Unannounced} : AskPromotion(o, target)
  \/ AskRollback(o) \/ ReadRow(o) \/ PassGates(o) \/ Refused(o)
  \/ Promote(o) \/ Rollback(o)

Control ==
  \/ \E o \in Operator : Operate(o)
  \/ \E passed \in BOOLEAN : RecordReadiness(passed)
  \/ IdentityChanges
=============================================================================
