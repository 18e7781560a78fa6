---------------------------- MODULE RoutedStores ----------------------------
(***************************************************************************)
(* The two writers that ask the control plane which store is theirs, while *)
(* operators move it: uploads of documents (services/documents_store.py by *)
(* way of services/store_router.py), written to PostgreSQL and mirrored to *)
(* MongoDB, and levy payments (routers/finance.py by way of                *)
(* services/finance_write_cutover_service.py), written to one of the two.  *)
(***************************************************************************)
EXTENDS CutoverControl

CONSTANTS
  Doc,     \* documents, each uploaded once
  Payment  \* levy payments, each posted once

VARIABLES
  upload,     \* how far the upload of a document has come
  pg,         \* documents in documents.documents
  mongo,      \* documents in the Mongo collection
  deleted,    \* documents whose deletion was confirmed
  unmirrored, \* documents whose upload was answered with mongo_mirror_failed
  payment,    \* how far a payment has come, at last where it was recorded
  seenRow     \* the first of the two rows a payment is decided from
storeVars == <<upload, pg, mongo, deleted, unmirrored, payment, seenRow>>
vars == <<controlVars, storeVars>>

TypeOK ==
  /\ ControlTypeOK
  /\ upload \in [Doc -> {"new", "mongo", "postgres", "mirror", "fallback", "done",
                         "failed", "dead"}]
  /\ pg \subseteq Doc
  /\ mongo \subseteq Doc
  /\ deleted \subseteq Doc
  /\ unmirrored \subseteq Doc
  /\ payment \in [Payment -> {"new", "decide", "mongo", "postgres", "refused",
                              "in mongo", "in postgres"}]
  /\ seenRow \in [Payment -> Row]

Init ==
  /\ ControlInit
  /\ upload = [d \in Doc |-> "new"]
  /\ pg = {}
  /\ mongo = {}
  /\ deleted = {}
  /\ unmirrored = {}
  /\ payment = [p \in Payment |-> "new"]
  /\ seenRow = [p \in Payment |-> DefaultRow]

\* require_domain_source(): PostgreSQL only when mode and readiness both allow it.
ReadyForPostgres(r) == r.readiness \in {"shadow_active", "shadow_passing", "promoted",
                                        "ready_for_shadow"}
ReadsPostgres(r) ==
  ReadyForPostgres(r) /\ r.mode \in {"postgres_read", "postgres_write", "mongo_archive"}
WritesPostgres(r) ==
  ReadyForPostgres(r) /\ r.mode \in {"postgres_write", "mongo_archive"}

-----------------------------------------------------------------------------
\* write_document(): resolve_store() first.
ResolveStore(d) ==
  /\ domain = "documents"
  /\ upload[d] = "new"
  /\ \E r \in Readable :
        upload' = [upload EXCEPT ![d] = IF WritesPostgres(r) THEN "postgres" ELSE "mongo"]
  /\ UNCHANGED <<controlVars, pg, mongo, deleted, unmirrored, payment, seenRow>>

\* Mutated form: no mirror once PostgreSQL has the document.
CreateDocumentOnly(d) ==
  /\ upload[d] = "postgres"
  /\ pg' = pg \cup {d}
  /\ upload' = [upload EXCEPT ![d] = "done"]
  /\ UNCHANGED <<controlVars, mongo, deleted, unmirrored, payment, seenRow>>

\* create_document() commits.
CreateDocument(d) ==
  /\ upload[d] = "postgres"
  /\ pg' = pg \cup {d}
  /\ upload' = [upload EXCEPT ![d] = "mirror"]
  /\ UNCHANGED <<controlVars, mongo, deleted, unmirrored, payment, seenRow>>

\* It raises, perhaps after the commit: MongoDB alone is to take the document.
CreateDocumentFails(d) ==
  /\ upload[d] = "postgres"
  /\ pg' \in {pg, pg \cup {d}}
  /\ upload' = [upload EXCEPT ![d] = "fallback"]
  /\ UNCHANGED <<controlVars, mongo, deleted, unmirrored, payment, seenRow>>

\* update_one(..., upsert=True).
WriteMongo(d) ==
  /\ upload[d] \in {"mongo", "mirror", "fallback"}
  /\ mongo' = mongo \cup {d}
  /\ upload' = [upload EXCEPT ![d] = "done"]
  /\ UNCHANGED <<controlVars, pg, deleted, unmirrored, payment, seenRow>>

\* It raises, perhaps after the write: an answer with mirror_error if PostgreSQL has the
\* document, an error otherwise.
WriteMongoFails(d) ==
  /\ upload[d] \in {"mongo", "mirror", "fallback"}
  /\ mongo' \in {mongo, mongo \cup {d}}
  /\ upload' = [upload EXCEPT ![d] = IF @ = "mirror" THEN "done" ELSE "failed"]
  /\ unmirrored' = IF upload[d] = "mirror" THEN unmirrored \cup {d} ELSE unmirrored
  /\ UNCHANGED <<controlVars, pg, deleted, payment, seenRow>>

\* The process ends in the middle of an upload.
Die(d) ==
  /\ upload[d] \in {"mongo", "postgres", "mirror", "fallback"}
  /\ upload' = [upload EXCEPT ![d] = "dead"]
  /\ UNCHANGED <<controlVars, pg, mongo, deleted, unmirrored, payment, seenRow>>

\* delete_document() knows MongoDB only.
Delete(d) ==
  /\ d \in mongo
  /\ mongo' = mongo \ {d}
  /\ deleted' = deleted \cup {d}
  /\ UNCHANGED <<controlVars, upload, pg, unmirrored, payment, seenRow>>

-----------------------------------------------------------------------------
\* get_finance_write_route_runtime_state(): the row...
ReadStatus(p) ==
  /\ domain = "finance_ledger"
  /\ payment[p] = "new"
  /\ \E r \in Readable : seenRow' = [seenRow EXCEPT ![p] = r]
  /\ payment' = [payment EXCEPT ![p] = "decide"]
  /\ UNCHANGED <<controlVars, upload, pg, mongo, deleted, unmirrored>>

\* ... the row again, in require_domain_source(), then feature toggles, the read
\* compatibility and the Idempotency-Key (open).
Eligible(p, r, open) ==
  /\ WritesPostgres(r)
  /\ seenRow[p].mode = "postgres_write"
  /\ seenRow[p].evidence /\ identity
  /\ open

\* record_levy_payment(): a payment that is not eligible goes to MongoDB, unless the
\* row said postgres_write.
Decide(p) ==
  /\ payment[p] = "decide"
  /\ \E r \in Readable, open \in BOOLEAN :
        payment' = [payment EXCEPT ![p] =
          IF Eligible(p, r, open) THEN "postgres"
          ELSE IF seenRow[p].mode = "postgres_write" THEN "refused" ELSE "mongo"]
  /\ UNCHANGED <<controlVars, upload, pg, mongo, deleted, unmirrored, seenRow>>

\* post_manual_levy_receipt() or _record_levy_payment_mongodb().
Record(p) ==
  /\ payment[p] \in {"mongo", "postgres"}
  /\ payment' = [payment EXCEPT ![p] = IF @ = "mongo" THEN "in mongo" ELSE "in postgres"]
  /\ UNCHANGED <<controlVars, upload, pg, mongo, deleted, unmirrored, seenRow>>

Uploading(d) ==
  \/ ResolveStore(d) \/ CreateDocument(d) \/ CreateDocumentFails(d)
  \/ WriteMongo(d) \/ WriteMongoFails(d) \/ Die(d) \/ Delete(d)

Paying(p) == ReadStatus(p) \/ Decide(p) \/ Record(p)

Next ==
  \/ Control /\ UNCHANGED storeVars
  \/ \E d \in Doc : Uploading(d)
  \/ \E p \in Payment : Paying(p)

Spec == Init /\ [][Next]_vars

-----------------------------------------------------------------------------
\* The row's mode and readiness fit together (validate_mode_readiness_pair()), however
\* promotions, rollbacks and readiness records overwrite one another.
PairConsistent == row.readiness \in Expected[row.mode]

\* An endpoint leaves the domain in the mode it is named for (promote-read in
\* postgres_read), unless its look at the row failed or another call has changed the
\* row since.
LandsAsAnnounced ==
  [][\A o \in Operator :
        pc[o] = "commit" /\ pc'[o] = "idle" /\ row' # row /\ announced[o] # Unannounced
        => row'.mode = announced[o] \/ o \in misled]_vars

\* What the list shows: PostgreSQL if it serves reads and has any document, or MongoDB.
Listed == IF ReadsPostgres(row) /\ pg # {} THEN pg ELSE mongo

\* Whenever MongoDB serves the list, at first, in the time PostgreSQL has no documents
\* yet, or back after any promotions and rollbacks, it shows every document whose upload
\* succeeded and that was not deleted ("MongoDB is what could rebuild Postgres"); those
\* whose mirror failed were reported.
MongoListsAll ==
  ~ReadsPostgres(row) \/ pg = {} =>
    {d \in Doc : upload[d] = "done"} \ (deleted \cup unmirrored) \subseteq Listed

-----------------------------------------------------------------------------
\* "Promoted routes fail closed. They must not silently fall back to MongoDB." (module
\* finance_write_cutover_service): so too in mongo_archive, whose write source is
\* PostgreSQL.
PromotedFailsClosed ==
  [][\A p \in Payment :
        payment[p] = "decide" /\ payment'[p] = "mongo"
        => seenRow[p].mode \notin {"postgres_write", "mongo_archive"}]_vars
=============================================================================
