---------------------- MODULE CommandUnitOfWorkProofs ----------------------
(***************************************************************************)
(* For any keys, any number of request handlers and any number of          *)
(* versions: a command leaves its version, its audit event, its outbox     *)
(* event and its record, each once, or nothing at all.  What the callers   *)
(* see is one of the histories of IdempotentCommands.                      *)
(***************************************************************************)
EXTENDS CommandUnitOfWork, FiniteSetTheorems, TLAPS

Open(s) == pc[s] \in InTransaction

\* What a session has written so far, by the statement it executes next.
Stage(s) ==
  \/ /\ pc[s] \in {"idle", "claim", "mutate", "update", "retire", "insert"}
     /\ result[s] = "started" /\ inserted[s] = 0 /\ rows[s] = {}
  \/ /\ pc[s] = "answer"
     /\ inserted[s] = 0 /\ rows[s] = {}
  \/ /\ pc[s] = "audit"
     /\ result[s] = "created" /\ inserted[s] # 0 /\ rows[s] = {}
  \/ /\ pc[s] = "outbox"
     /\ result[s] = "created" /\ inserted[s] # 0 /\ rows[s] = {"audit"}
  \/ /\ pc[s] = "finalise"
     /\ result[s] = "created" /\ inserted[s] # 0 /\ rows[s] = {"audit", "outbox"}
  \/ /\ pc[s] = "finalise"
     /\ result[s] \in Refusal /\ inserted[s] = 0 /\ rows[s] = {}
  \/ /\ pc[s] = "commit"
     /\ result[s] = "created" /\ inserted[s] # 0
     /\ rows[s] = {"audit", "outbox", "record"}
  \/ /\ pc[s] = "commit"
     /\ result[s] \in Refusal /\ inserted[s] = 0 /\ rows[s] = {"record"}
  \/ /\ pc[s] = "commit"
     /\ result[s] = "replay" /\ inserted[s] = 0 /\ rows[s] = {}

\* A transaction decides a key that is still undecided, inserts a version that
\* does not exist, and retires versions that do.
SessionInv(s) ==
  /\ Stage(s)
  /\ pc[s] # "idle" => key[s] \in Key
  /\ Open(s) => \/ record[key[s]] = "none"
                \/ pc[s] = "commit" /\ result[s] = "replay"
  /\ inserted[s] # 0 => template[inserted[s]] = "absent"
  /\ \A v \in retired[s] : template[v] # "absent"

\* The key's row and the unique index keep two transactions apart.
Apart(s, t) ==
  /\ Open(s) /\ Open(t) => key[s] # key[t]
  /\ inserted[s] # 0 => inserted[s] # inserted[t]

Versions(k) == {v \in Version : author[v] = k}

\* What is committed for a key: everything, or nothing.
Whole(k) ==
  IF record[k] = "created"
  THEN audits[k] = 1 /\ events[k] = 1 /\ \E v \in Version : Versions(k) = {v}
  ELSE audits[k] = 0 /\ events[k] = 0 /\ Versions(k) = {}

TableInv ==
  /\ \A v \in Version : author[v] = None <=> template[v] = "absent"
  /\ \A k \in Key : Whole(k)

TransactionInv ==
  /\ \A s \in Session : SessionInv(s)
  /\ \A s, t \in Session : s # t => Apart(s, t)
  /\ TableInv

Inv == TypeOK /\ TransactionInv

-----------------------------------------------------------------------------
\* The counts of AllOrNothing, from the sets they count.
LEMMA WholeCounts == TableInv => AllOrNothing
<1> SUFFICES ASSUME TableInv, NEW k \in Key
             PROVE  LET done == Count(record[k] = "created") IN
                    /\ audits[k] = done /\ events[k] = done
                    /\ Cardinality(Versions(k)) = done
  BY DEF AllOrNothing, Versions
<1>1. CASE record[k] = "created"
  BY <1>1, FS_Singleton DEF TableInv, Whole, Count
<1>2. CASE record[k] # "created"
  BY <1>2, FS_EmptySet DEF TableInv, Whole, Count
<1>3. QED
  BY <1>1, <1>2

LEMMA InitialStates == Init => Inv
<1> SUFFICES ASSUME Init PROVE Inv
  OBVIOUS
<1>1. TypeOK
  BY DEF Init, TypeOK, Result
<1>2. \A s \in Session : SessionInv(s)
  BY DEF Init, SessionInv, Stage, Open, InTransaction
<1>3. \A s, t \in Session : Apart(s, t)
  BY DEF Init, Apart, Open, InTransaction
<1>4. \A k \in Key : Versions(k) = {}
  BY UnitOfWorkAssumption DEF Init, Versions
<1>5. TableInv
  BY <1>4 DEF Init, TableInv, Whole
<1>6. QED
  BY <1>1, <1>2, <1>3, <1>5 DEF Inv, TransactionInv

\* Statements before COMMIT touch only their own session.
LEMMA LocalStep ==
  ASSUME Inv, NEW s \in Session, UNCHANGED tables,
         \A t \in Session \ {s} :
           /\ pc'[t] = pc[t] /\ key'[t] = key[t] /\ result'[t] = result[t]
           /\ retired'[t] = retired[t] /\ inserted'[t] = inserted[t] /\ rows'[t] = rows[t],
         SessionInv(s)',
         \A t \in Session \ {s} : Apart(s, t)' /\ Apart(t, s)'
  PROVE  TransactionInv'
<1> USE DEF Inv, TransactionInv, tables
<1>1. \A t \in Session \ {s} : SessionInv(t)'
  BY DEF SessionInv, Stage, Open
<1>2. \A t, u \in Session \ {s} : t # u => Apart(t, u)'
  BY DEF Apart, Open
<1>3. TableInv'
  BY DEF TableInv, Whole, Versions
<1>4. QED
  BY <1>1, <1>2, <1>3

\* A session that stays in its transaction, or leaves it, and inserts nothing new
\* stays apart from the others.
LEMMA StaysApart ==
  ASSUME Inv, NEW s \in Session,
         \A t \in Session \ {s} :
           pc'[t] = pc[t] /\ key'[t] = key[t] /\ inserted'[t] = inserted[t],
         Open(s)' => Open(s) /\ key'[s] = key[s],
         inserted'[s] \in {0, inserted[s]}
  PROVE  \A t \in Session \ {s} : Apart(s, t)' /\ Apart(t, s)'
BY DEF Inv, TransactionInv, Apart, Open

-----------------------------------------------------------------------------
LEMMA TypeStep ==
  ASSUME Inv, [Next]_vars
  PROVE  TypeOK'
<1> USE DEF Inv, TypeOK, Result, Refusal, InTransaction, tables, locals, Goto
<1>1. ASSUME NEW s \in Session, NEW k \in Key, Receive(s, k) PROVE TypeOK'
  BY <1>1 DEF Receive
<1>2. ASSUME NEW s \in Session, End(s) PROVE TypeOK'
  BY <1>2 DEF End
<1>3. ASSUME NEW s \in Session, Claim(s) PROVE TypeOK'
  BY <1>3 DEF Claim
<1>4. ASSUME NEW s \in Session, SelectAny(s) PROVE TypeOK'
  BY <1>4 DEF SelectAny, Refuse
<1>5. ASSUME NEW s \in Session, SelectActive(s) PROVE TypeOK'
  <2>1. next' \in [Session -> Nat]
    BY <1>5, UnitOfWorkAssumption DEF SelectActive, Refuse, Active, Version
  <2>2. QED
    BY <1>5, <2>1 DEF SelectActive, Refuse
<1>6. ASSUME NEW s \in Session, StartUpdate(s) PROVE TypeOK'
  BY <1>6 DEF StartUpdate, Active
<1>7. ASSUME NEW s \in Session, Retire(s) PROVE TypeOK'
  BY <1>7 DEF Retire, Active
<1>8. ASSUME NEW s \in Session, Insert(s) PROVE TypeOK'
  BY <1>8 DEF Insert
<1>9. ASSUME NEW s \in Session,
             WriteAuditEvent(s) \/ WriteOutboxEvent(s) \/ FinaliseIdempotency(s)
      PROVE  TypeOK'
  BY <1>9 DEF WriteAuditEvent, WriteOutboxEvent, FinaliseIdempotency, Write
<1>10. ASSUME NEW s \in Session, Commit(s) PROVE TypeOK'
  <2>1. key[s] \in Key /\ ("record" \in rows[s] => result[s] \in {"created"} \cup Refusal)
    BY <1>10 DEF Commit, TransactionInv, SessionInv, Stage
  <2>2. record' \in [Key -> {"none", "created"} \cup Refusal]
    BY <1>10, <2>1 DEF Commit
  <2>3. audits' \in [Key -> Nat] /\ events' \in [Key -> Nat]
    <3>1. Count("audit" \in rows[s]) \in Nat /\ Count("outbox" \in rows[s]) \in Nat
      BY DEF Count
    <3>2. /\ audits[key[s]] + Count("audit" \in rows[s]) \in Nat
          /\ events[key[s]] + Count("outbox" \in rows[s]) \in Nat
      BY <2>1, <3>1
    <3>3. QED
      BY <1>10, <3>2 DEF Commit
  <2>4. template' \in [Version -> {"absent", "active", "inactive"}]
    BY <1>10 DEF Commit
  <2>5. author' \in [Version -> Key \cup {None}]
    BY <1>10, <2>1 DEF Commit
  <2>6. QED
    BY <1>10, <2>2, <2>3, <2>4, <2>5 DEF Commit
<1>11. CASE UNCHANGED vars
  BY <1>11 DEF vars
<1>12. QED
  BY <1>1, <1>2, <1>3, <1>4, <1>5, <1>6, <1>7, <1>8, <1>9, <1>10, <1>11
  DEF Next, Step, UniqueViolation, Answer, Fail

-----------------------------------------------------------------------------
\* A request that ends leaves no uncommitted row, lock or claim behind.
LEMMA EndStep ==
  ASSUME Inv, TypeOK', NEW s \in Session, End(s)
  PROVE  TransactionInv'
<1> USE DEF Inv, TypeOK, Goto, tables, End
<1>1. SessionInv(s)'
  BY DEF SessionInv, Stage, Open, InTransaction
<1>2. \A t \in Session \ {s} : Apart(s, t)' /\ Apart(t, s)'
  BY StaysApart DEF Open, InTransaction
<1>3. QED
  BY <1>1, <1>2, LocalStep

LEMMA ReceiveStep ==
  ASSUME Inv, TypeOK', NEW s \in Session, NEW k \in Key, Receive(s, k)
  PROVE  TransactionInv'
<1> USE DEF Inv, TypeOK, Goto, tables, Receive
<1>1. SessionInv(s)'
  BY DEF TransactionInv, SessionInv, Stage, Open, InTransaction
<1>2. \A t \in Session \ {s} : Apart(s, t)' /\ Apart(t, s)'
  BY StaysApart DEF Open, InTransaction
<1>3. QED
  BY <1>1, <1>2, LocalStep

\* The claim waits while the key's row is locked, so no other transaction serves
\* the key, and it reads what is committed.
LEMMA ClaimStep ==
  ASSUME Inv, TypeOK', NEW s \in Session, Claim(s)
  PROVE  TransactionInv'
<1> USE DEF Inv, TypeOK, Goto, tables, Claim
<1>1. \A t \in Session : Open(t) => key[t] # key[s]
  BY DEF Locked, Open
<1>2. SessionInv(s)'
  BY DEF TransactionInv, SessionInv, Stage, Open, InTransaction
<1>3. inserted[s] = 0 /\ inserted' = inserted /\ key' = key
  BY DEF TransactionInv, SessionInv, Stage
<1>4. \A t \in Session \ {s} : Apart(s, t)' /\ Apart(t, s)'
  BY <1>1, <1>3 DEF Apart, Open, TransactionInv
<1>5. QED
  BY <1>2, <1>4, LocalStep

\* Looking, retiring and writing change no table and no lock on a key.
LEMMA StatementStep ==
  ASSUME Inv, TypeOK', NEW s \in Session,
         \/ SelectAny(s) \/ SelectActive(s) \/ StartUpdate(s) \/ Retire(s)
         \/ WriteAuditEvent(s) \/ WriteOutboxEvent(s) \/ FinaliseIdempotency(s)
  PROVE  TransactionInv'
<1> USE DEF Inv, TypeOK, Goto, tables, Refusal
<1>1. SessionInv(s)'
  <2> USE DEF TransactionInv, SessionInv, Stage, Open, InTransaction
  <2>1. CASE SelectAny(s)
    BY <2>1 DEF SelectAny, Refuse
  <2>2. CASE SelectActive(s)
    BY <2>2 DEF SelectActive, Refuse
  <2>3. CASE StartUpdate(s)
    BY <2>3 DEF StartUpdate
  <2>4. CASE Retire(s)
    BY <2>4 DEF Retire, Active
  <2>5. CASE WriteAuditEvent(s)
    BY <2>5 DEF WriteAuditEvent, Write
  <2>6. CASE WriteOutboxEvent(s)
    BY <2>6 DEF WriteOutboxEvent, Write
  <2>7. CASE FinaliseIdempotency(s)
    BY <2>7 DEF FinaliseIdempotency, Write
  <2>8. QED
    BY <2>1, <2>2, <2>3, <2>4, <2>5, <2>6, <2>7
<1>2. /\ UNCHANGED <<tables, key, inserted>> /\ Open(s)
      /\ \A t \in Session \ {s} : /\ pc'[t] = pc[t] /\ result'[t] = result[t]
                                  /\ retired'[t] = retired[t] /\ rows'[t] = rows[t]
  <2> USE DEF Open, InTransaction
  <2>1. CASE SelectAny(s)
    BY <2>1 DEF SelectAny, Refuse
  <2>2. CASE SelectActive(s)
    BY <2>2 DEF SelectActive, Refuse
  <2>3. CASE StartUpdate(s) \/ Retire(s)
    BY <2>3 DEF StartUpdate, Retire
  <2>4. CASE WriteAuditEvent(s) \/ WriteOutboxEvent(s) \/ FinaliseIdempotency(s)
    BY <2>4 DEF WriteAuditEvent, WriteOutboxEvent, FinaliseIdempotency, Write
  <2>5. QED
    BY <2>1, <2>2, <2>3, <2>4
<1>3. \A t \in Session \ {s} : Apart(s, t)' /\ Apart(t, s)'
  BY <1>2, StaysApart
<1>4. QED
  BY <1>1, <1>2, <1>3, LocalStep

\* The unique index lets one transaction at a time insert a version, and only a
\* version that is not committed.
LEMMA InsertStep ==
  ASSUME Inv, TypeOK', NEW s \in Session, Insert(s)
  PROVE  TransactionInv'
<1> USE DEF Inv, TypeOK, Goto, tables, Insert
<1>1. SessionInv(s)'
  <2>1. SessionInv(s) /\ pc[s] = "insert" /\ Open(s)
    BY DEF TransactionInv, Open, InTransaction
  <2>2. /\ rows[s] = {} /\ record[key[s]] = "none"
        /\ \A v \in retired[s] : template[v] # "absent"
    BY <2>1 DEF SessionInv, Stage
  <2>3. inserted'[s] = next[s] /\ next[s] # 0 /\ template'[next[s]] = "absent"
    BY UnitOfWorkAssumption DEF Version
  <2>4. pc'[s] = "audit" /\ result'[s] = "created"
    OBVIOUS
  <2>5. QED
    BY <2>1, <2>2, <2>3, <2>4 DEF SessionInv, Stage, Open, InTransaction
<1>2. Open(s) /\ Open(s)' /\ UNCHANGED key
  BY DEF Open, InTransaction
<1>3. \A t \in Session \ {s} : inserted[t] # inserted'[s] /\ inserted'[t] = inserted[t]
  OBVIOUS
<1>4. \A t \in Session \ {s} : Apart(s, t)' /\ Apart(t, s)'
  BY <1>2, <1>3 DEF Apart, Open, TransactionInv
<1>5. QED
  BY <1>1, <1>4, LocalStep

\* COMMIT makes everything of one key visible at once: the key was undecided and
\* nobody else decides it, the version did not exist and nobody else inserts it.
LEMMA CommitStep ==
  ASSUME Inv, TypeOK', NEW s \in Session, Commit(s)
  PROVE  TransactionInv'
<1> DEFINE k == key[s]
<1>0. TypeOK /\ (\A t \in Session : SessionInv(t)) /\ TableInv
      /\ \A t, u \in Session : t # u => Apart(t, u)
  BY DEF Inv, TransactionInv
<1>1. /\ pc[s] = "commit" /\ k \in Key /\ Open(s)
      /\ pc'[s] = "answer" /\ inserted'[s] = 0 /\ rows'[s] = {} /\ retired'[s] = {}
      /\ key' = key
  BY <1>0 DEF Commit, Goto, TypeOK, SessionInv, Open, InTransaction
<1>2. \A t \in Session \ {s} :
        /\ pc'[t] = pc[t] /\ result'[t] = result[t] /\ rows'[t] = rows[t]
        /\ inserted'[t] = inserted[t] /\ retired'[t] = retired[t]
  BY <1>0 DEF Commit, Goto, TypeOK
<1>3. Stage(s) /\ SessionInv(s)
  BY <1>0 DEF SessionInv
<1>4. \A j \in Key \ {k} :
        record'[j] = record[j] /\ audits'[j] = audits[j] /\ events'[j] = events[j]
  BY <1>0 DEF Commit, TypeOK
<1>5. inserted[s] # 0 => /\ record[k] = "none" /\ record'[k] = "created"
                         /\ audits'[k] = audits[k] + 1 /\ events'[k] = events[k] + 1
  BY <1>0, <1>1, <1>3 DEF Stage, SessionInv, Commit, Count, Refusal, TypeOK
<1>6. inserted[s] = 0 => /\ record'[k] = "created" <=> record[k] = "created"
                         /\ audits'[k] = audits[k] /\ events'[k] = events[k]
  BY <1>0, <1>1, <1>3 DEF Stage, SessionInv, Commit, Count, Refusal, TypeOK
<1>7. \A v \in Version : author'[v] = IF v = inserted[s] THEN k ELSE author[v]
  BY <1>0 DEF Commit, TypeOK
<1>8. \A v \in Version :
        template'[v] = "absent" <=> template[v] = "absent" /\ v # inserted[s]
  BY <1>0, <1>3 DEF Commit, SessionInv, TypeOK
<1>9. \A v \in Version : author'[v] = None <=> template'[v] = "absent"
  BY <1>0, <1>1, <1>7, <1>8, UnitOfWorkAssumption DEF TableInv
<1>10. \A j \in Key : Whole(j)'
  <2>1. CASE inserted[s] = 0
    <3>1. 0 \notin Version
      BY UnitOfWorkAssumption DEF Version
    <3>2. \A v \in Version : author'[v] = author[v]
      BY <1>7, <2>1, <3>1
    <3>3. \A j \in Key : Versions(j)' = Versions(j)
      BY <3>2 DEF Versions
    <3>4. QED
      BY <1>0, <1>4, <1>6, <2>1, <3>3 DEF TableInv, Whole
  <2>2. CASE inserted[s] # 0
    <3>1. Versions(k) = {} /\ audits[k] = 0 /\ events[k] = 0
      BY <1>0, <1>1, <1>5, <2>2 DEF TableInv, Whole
    <3>2. inserted[s] \in Version
      BY <1>0, <2>2 DEF TypeOK
    <3>3. Versions(k)' = {inserted[s]}
      BY <1>1, <1>7, <3>1, <3>2 DEF Versions
    <3>4. Whole(k)'
      BY <1>1, <1>5, <2>2, <3>1, <3>2, <3>3 DEF Whole
    <3>5. ASSUME NEW j \in Key \ {k} PROVE Whole(j)'
      <4>1. author[inserted[s]] = None
        BY <1>0, <1>3, <2>2, <3>2 DEF SessionInv, TableInv
      <4>2. Versions(j)' = Versions(j)
        BY <1>1, <1>7, <4>1, UnitOfWorkAssumption DEF Versions
      <4>3. QED
        BY <1>0, <1>4, <4>2 DEF TableInv, Whole
    <3>6. QED
      BY <1>1, <3>4, <3>5
  <2>3. QED
    BY <2>1, <2>2
<1>11. \A t \in Session : SessionInv(t)'
  <2>1. SessionInv(s)'
    BY <1>1 DEF SessionInv, Stage, Open, InTransaction
  <2>2. ASSUME NEW t \in Session \ {s} PROVE SessionInv(t)'
    <3>1. SessionInv(t) /\ Apart(s, t) /\ Apart(t, s)
      BY <1>0
    <3>2. Stage(t)'
      BY <1>2, <3>1 DEF Stage, SessionInv
    <3>3. Open(t)' => record'[key[t]] = record[key[t]]
      BY <1>1, <1>2, <1>4, <3>1 DEF Apart, Open, SessionInv, InTransaction
    <3>4. inserted'[t] # 0 => template'[inserted'[t]] = "absent"
      BY <1>0, <1>2, <1>8, <3>1 DEF Apart, SessionInv, TypeOK
    <3>5. \A v \in retired'[t] : template'[v] # "absent"
      BY <1>0, <1>2, <1>8, <3>1 DEF SessionInv, TypeOK
    <3>6. QED
      BY <1>1, <1>2, <3>1, <3>2, <3>3, <3>4, <3>5 DEF SessionInv, Open
  <2>3. QED
    BY <2>1, <2>2
<1>12. \A t, u \in Session : t # u => Apart(t, u)'
  BY <1>0, <1>1, <1>2 DEF Apart, Open, InTransaction
<1>13. QED
  BY <1>9, <1>10, <1>11, <1>12 DEF TransactionInv, TableInv

LEMMA TransactionStep ==
  ASSUME Inv, [Next]_vars
  PROVE  TransactionInv'
<1>1. TypeOK'
  BY TypeStep
<1>2. ASSUME NEW s \in Session, NEW k \in Key, Receive(s, k) PROVE TransactionInv'
  BY <1>1, <1>2, ReceiveStep
<1>3. ASSUME NEW s \in Session, Step(s) PROVE TransactionInv'
  BY <1>1, <1>3, ClaimStep, StatementStep, InsertStep, CommitStep, EndStep
  DEF Step, UniqueViolation, Answer
<1>4. ASSUME NEW s \in Session, Fail(s) PROVE TransactionInv'
  BY <1>1, <1>4, EndStep DEF Fail
<1>5. CASE UNCHANGED vars
  BY <1>5 DEF Inv, TransactionInv, SessionInv, Stage, Open, Apart, TableInv, Whole,
              Versions, vars, tables, locals
<1>6. QED
  BY <1>2, <1>3, <1>4, <1>5 DEF Next

LEMMA Invariant == Spec => []Inv
<1>1. Inv /\ [Next]_vars => Inv'
  BY TypeStep, TransactionStep DEF Inv
<1>2. QED
  BY <1>1, InitialStates, PTL DEF Spec

\* The types hold for any keys and sessions; in particular what is recorded for a
\* key is always a final outcome, never a session's intermediate result.
THEOREM TypeCorrect == Spec => []TypeOK
BY Invariant, PTL DEF Inv

\* Whatever fails, is retried or runs twice at once, a key has left a version, an
\* audit event, an outbox event and a record, each once, or none of them.
THEOREM WholeOrNothing == Spec => []AllOrNothing
<1>1. Inv => AllOrNothing
  BY WholeCounts DEF Inv, TransactionInv
<1>2. QED
  BY <1>1, Invariant, PTL

-----------------------------------------------------------------------------
(***************************************************************************)
(* The versions of the definition.                                         *)
(***************************************************************************)

\* The committed versions are 1..n and n alone is active.
Numbered(n) ==
  \A v \in Version : /\ template[v] # "absent" <=> v <= n
                     /\ template[v] = "active" <=> v = n

Numbering(s) == pc[s] \in {"update", "retire", "insert"} \/ inserted[s] # 0
Retiring(s)  == pc[s] \in {"retire", "insert"} \/ inserted[s] # 0
Retired(s)   == pc[s] = "insert" \/ inserted[s] # 0

\* What a session knows of the versions although it locked none when it looked: a
\* publish numbers its version after an existing one, its UPDATE sees a version at
\* least as new, and holds every one of them that is still active.
VersionInv(s) ==
  /\ inserted[s] # 0 => inserted[s] = next[s]
  /\ Numbering(s) /\ key[s] \in CreateKey => next[s] = 1
  /\ Numbering(s) /\ key[s] \in PublishKey =>
       next[s] - 1 \in Version /\ template[next[s] - 1] # "absent"
  /\ Retiring(s) /\ key[s] \in PublishKey =>
       /\ target[s] # {}
       /\ \A v \in target[s] : template[v] # "absent" /\ v >= next[s] - 1
  /\ retired[s] # {} => Retired(s)
  /\ Retired(s) /\ key[s] \in PublishKey => target[s] \cap Active \subseteq retired[s]

NumberInv ==
  /\ \E n \in 0..MaxVersion : Numbered(n)
  /\ \A s \in Session : VersionInv(s)

LEMMA NumberedIsNewest == ASSUME NEW n \in 0..MaxVersion, Numbered(n)
                          PROVE  NewestIsActive
BY UnitOfWorkAssumption DEF Numbered, NewestIsActive, Version

LEMMA NumberInit == Init => NumberInv
<1> SUFFICES ASSUME Init PROVE NumberInv
  OBVIOUS
<1>1. Numbered(0) /\ 0 \in 0..MaxVersion
  BY UnitOfWorkAssumption DEF Init, Numbered, Version
<1>2. \A s \in Session : VersionInv(s)
  BY DEF Init, VersionInv, Numbering, Retiring, Retired
<1>3. QED
  BY <1>1, <1>2 DEF NumberInv

LEMMA NumberLocal ==
  ASSUME NumberInv, NEW s \in Session, UNCHANGED template,
         \A t \in Session \ {s} :
           /\ pc'[t] = pc[t] /\ key'[t] = key[t] /\ next'[t] = next[t]
           /\ target'[t] = target[t] /\ retired'[t] = retired[t]
           /\ inserted'[t] = inserted[t],
         VersionInv(s)'
  PROVE  NumberInv'
<1>1. \A t \in Session \ {s} : VersionInv(t)'
  BY DEF NumberInv, VersionInv, Numbering, Retiring, Retired, Active
<1>2. \E n \in 0..MaxVersion : Numbered(n)'
  BY DEF NumberInv, Numbered
<1>3. QED
  BY <1>1, <1>2 DEF NumberInv

\* The UPDATE of a publish finds the newest version, which is at least as new as
\* the one the publish is numbered after.
LEMMA FindsNewest ==
  ASSUME TypeOK, NumberInv, NEW s \in Session, pc[s] = "update", key[s] \in PublishKey
  PROVE  /\ Active # {}
         /\ \A v \in Active : template[v] # "absent" /\ v >= next[s] - 1
<1>1. PICK n \in 0..MaxVersion : Numbered(n)
  BY DEF NumberInv
<1>2. next[s] - 1 \in Version /\ template[next[s] - 1] # "absent"
  BY DEF NumberInv, VersionInv, Numbering
<1>3. next[s] - 1 <= n
  BY <1>1, <1>2 DEF Numbered
<1>4. n \in Version /\ template[n] = "active"
  BY <1>1, <1>2, <1>3, UnitOfWorkAssumption DEF Numbered, Version
<1>5. \A v \in Active : v = n
  BY <1>1 DEF Active, Numbered
<1>6. QED
  BY <1>3, <1>4, <1>5 DEF Active

LEMMA NumberStatement ==
  ASSUME Inv, NumberInv, NEW s \in Session,
         \/ \E k \in Key : Receive(s, k)
         \/ End(s) \/ Claim(s) \/ SelectAny(s) \/ SelectActive(s) \/ StartUpdate(s)
         \/ Retire(s) \/ Insert(s)
         \/ WriteAuditEvent(s) \/ WriteOutboxEvent(s) \/ FinaliseIdempotency(s)
  PROVE  NumberInv'
<1>1. TypeOK /\ SessionInv(s) /\ VersionInv(s)
  BY DEF Inv, TransactionInv, NumberInv
<1> USE DEF Goto, tables, Numbering, Retiring, Retired
<1>2. ASSUME NEW k \in Key, Receive(s, k) PROVE NumberInv'
  <2>1. VersionInv(s)'
    BY <1>1, <1>2 DEF Receive, VersionInv, SessionInv, Stage, TypeOK
  <2>2. QED
    BY <1>1, <1>2, <2>1, NumberLocal DEF Receive, TypeOK
<1>3. CASE End(s)
  <2>1. VersionInv(s)'
    BY <1>1, <1>3 DEF End, VersionInv, TypeOK
  <2>2. QED
    BY <1>1, <1>3, <2>1, NumberLocal DEF End, TypeOK
<1>4. CASE Claim(s)
  <2>1. VersionInv(s)'
    BY <1>1, <1>4 DEF Claim, VersionInv, SessionInv, Stage, TypeOK
  <2>2. QED
    BY <1>1, <1>4, <2>1, NumberLocal DEF Claim, TypeOK
<1>5. CASE SelectAny(s)
  <2>1. VersionInv(s)'
    BY <1>1, <1>5, UnitOfWorkAssumption
    DEF SelectAny, Refuse, VersionInv, SessionInv, Stage, TypeOK
  <2>2. QED
    BY <1>1, <1>5, <2>1, NumberLocal DEF SelectAny, Refuse, TypeOK
<1>6. CASE SelectActive(s)
  <2>1. inserted[s] = 0 /\ retired[s] = {} /\ key[s] \notin CreateKey
    BY <1>1, <1>6, UnitOfWorkAssumption DEF SelectActive, SessionInv, Stage, VersionInv
  <2>2. /\ pc'[s] \in {"finalise", "update"}
        /\ UNCHANGED <<key, inserted, retired, template>>
    BY <1>1, <1>6 DEF SelectActive, Refuse, TypeOK
  <2>3. pc'[s] = "update" => \E v \in Version : template[v] # "absent" /\ next'[s] = v + 1
    BY <1>1, <1>6 DEF SelectActive, Refuse, TypeOK, Active
  <2>4. VersionInv(s)'
    BY <2>1, <2>2, <2>3, UnitOfWorkAssumption DEF VersionInv, Version
  <2>5. QED
    BY <1>1, <1>6, <2>4, NumberLocal DEF SelectActive, Refuse, TypeOK
<1>7. CASE StartUpdate(s)
  <2>1. inserted[s] = 0 /\ pc'[s] = "retire" /\ target'[s] = Active
        /\ UNCHANGED <<key, inserted, template, next>>
    BY <1>1, <1>7 DEF StartUpdate, SessionInv, Stage, TypeOK
  <2>2. key[s] \in PublishKey => /\ Active # {}
                                 /\ \A v \in Active : template[v] # "absent" /\ v >= next[s] - 1
    BY <1>1, <1>7, FindsNewest DEF StartUpdate
  <2>3. VersionInv(s)'
    BY <1>1, <1>7, <2>1, <2>2 DEF VersionInv, StartUpdate
  <2>4. QED
    BY <1>1, <1>7, <2>3, NumberLocal DEF StartUpdate, TypeOK
<1>8. CASE Retire(s)
  <2>1. VersionInv(s)'
    BY <1>1, <1>8 DEF Retire, VersionInv, SessionInv, Stage, TypeOK, Active
  <2>2. QED
    BY <1>1, <1>8, <2>1, NumberLocal DEF Retire, TypeOK
<1>9. CASE Insert(s)
  <2>1. /\ pc[s] = "insert" /\ pc'[s] = "audit" /\ inserted'[s] = next[s]
        /\ next[s] # 0
        /\ UNCHANGED <<key, next, target, retired, template>>
    BY <1>1, <1>9, UnitOfWorkAssumption DEF Insert, TypeOK, Version
  <2>2. VersionInv(s)'
    BY <1>1, <2>1 DEF VersionInv, Active
  <2>3. QED
    BY <1>1, <1>9, <2>2, NumberLocal DEF Insert, TypeOK
<1>10. CASE WriteAuditEvent(s) \/ WriteOutboxEvent(s) \/ FinaliseIdempotency(s)
  <2>1. VersionInv(s)'
    BY <1>1, <1>10 DEF WriteAuditEvent, WriteOutboxEvent, FinaliseIdempotency, Write,
                       VersionInv, TypeOK, Active
  <2>2. QED
    BY <1>1, <1>10, <2>1, NumberLocal
    DEF WriteAuditEvent, WriteOutboxEvent, FinaliseIdempotency, Write, TypeOK
<1>11. QED
  BY <1>2, <1>3, <1>4, <1>5, <1>6, <1>7, <1>8, <1>9, <1>10

\* The version a COMMIT publishes is the next one, and the UPDATE before it holds
\* the only active version: had another publish won, the unique index would have
\* refused this one.
LEMMA NumberCommit ==
  ASSUME Inv, NumberInv, NEW s \in Session, Commit(s)
  PROVE  NumberInv'
<1>1. TypeOK /\ (\A t \in Session : SessionInv(t) /\ VersionInv(t))
      /\ \A t, u \in Session : t # u => Apart(t, u)
  BY DEF Inv, TransactionInv, NumberInv
<1>2. PICK n \in 0..MaxVersion : Numbered(n)
  BY DEF NumberInv
<1>3. \A v \in Version :
        template'[v] = IF v = inserted[s] THEN "active"
                       ELSE IF v \in retired[s] THEN "inactive" ELSE template[v]
  BY <1>1 DEF Commit, TypeOK
<1>4. VersionInv(s)'
  BY <1>1 DEF Commit, Goto, VersionInv, Numbering, Retiring, Retired, TypeOK
<1>5. \A t \in Session \ {s} :
        /\ pc'[t] = pc[t] /\ key'[t] = key[t] /\ next'[t] = next[t]
        /\ target'[t] = target[t] /\ retired'[t] = retired[t]
        /\ inserted'[t] = inserted[t]
  BY <1>1 DEF Commit, Goto, TypeOK
<1>6. \A v \in Version : /\ template[v] # "absent" => template'[v] # "absent"
                         /\ template[v] # "absent" /\ template'[v] = "active"
                              => template[v] = "active"
  BY <1>1, <1>3, UnitOfWorkAssumption DEF SessionInv, Version
<1>7. ASSUME NEW t \in Session \ {s} PROVE VersionInv(t)'
  <2>1. VersionInv(t) /\ target[t] \subseteq Version
    BY <1>1 DEF TypeOK
  <2>2. Retiring(t) /\ key[t] \in PublishKey =>
          \A v \in target[t] : template'[v] # "absent" /\ v >= next[t] - 1
    BY <1>6, <2>1 DEF VersionInv
  <2>3. Retiring(t) /\ key[t] \in PublishKey =>
          target[t] \cap Active' \subseteq target[t] \cap Active
    BY <1>6, <2>1 DEF VersionInv, Active
  <2>4. Retired(t) => Retiring(t)
    BY DEF Retired, Retiring
  <2>5. Numbering(t) /\ key[t] \in PublishKey =>
          next[t] - 1 \in Version /\ template'[next[t] - 1] # "absent"
    BY <1>6, <2>1 DEF VersionInv
  <2>6. QED
    BY <1>5, <2>1, <2>2, <2>3, <2>4, <2>5
    DEF VersionInv, Numbering, Retiring, Retired
<1>8. \E m \in 0..MaxVersion : Numbered(m)'
  <2>1. CASE inserted[s] = 0
    <3>1. \A v \in Version : v # inserted[s]
      BY <2>1, UnitOfWorkAssumption DEF Version
    <3>2. retired[s] = {}
      BY <1>1, <2>1 DEF VersionInv, Retired, Commit
    <3>3. \A v \in Version : template'[v] = template[v]
      BY <1>3, <3>1, <3>2
    <3>4. Numbered(n)'
      BY <1>2, <3>3 DEF Numbered
    <3>5. QED
      BY <3>4
  <2>2. CASE inserted[s] # 0
    <3>1. PICK x \in Version : /\ x = inserted[s] /\ x = next[s]
                               /\ template[x] = "absent" /\ key[s] \in Key
      BY <1>1, <2>2 DEF TypeOK, SessionInv, VersionInv, Commit
    <3>2. x > n
      BY <1>2, <3>1, UnitOfWorkAssumption DEF Numbered, Version
    <3>3. CASE key[s] \in CreateKey
      <4>1. x = 1 /\ n = 0
        <5>1. next[s] = 1
          BY <1>1, <2>2, <3>3 DEF VersionInv, Numbering
        <5>2. QED
          BY <3>1, <3>2, <5>1, UnitOfWorkAssumption DEF Version
      <4>2. retired[s] = {}
        BY <1>1, <1>2, <4>1, UnitOfWorkAssumption DEF SessionInv, Numbered, Version, TypeOK
      <4>3. Numbered(1)'
        BY <1>2, <1>3, <3>1, <4>1, <4>2, UnitOfWorkAssumption DEF Numbered, Version
      <4>4. QED
        BY <3>1, <4>1, <4>3 DEF Version
    <3>4. CASE key[s] \in PublishKey
      <4>1. x - 1 \in Version /\ template[x - 1] # "absent"
        BY <1>1, <2>2, <3>1, <3>4 DEF VersionInv, Numbering
      <4>2. x = n + 1 /\ n \in Version
        BY <1>2, <3>1, <3>2, <4>1, UnitOfWorkAssumption DEF Numbered, Version
      <4>3. target[s] # {} /\ target[s] \subseteq Version
            /\ \A v \in target[s] : template[v] # "absent" /\ v >= n
        <5>1. next[s] - 1 = n
          BY <3>1, <4>2, UnitOfWorkAssumption DEF Version
        <5>2. QED
          BY <1>1, <2>2, <3>4, <5>1 DEF VersionInv, Retiring, TypeOK
      <4>4. target[s] = {n}
        BY <1>2, <4>3, UnitOfWorkAssumption DEF Numbered, Version
      <4>5. n \in retired[s]
        BY <1>1, <1>2, <2>2, <3>4, <4>2, <4>4 DEF VersionInv, Retired, Active, Numbered
      <4>6. \A v \in retired[s] : v \in Version /\ v <= n
        BY <1>1, <1>2 DEF SessionInv, Numbered, TypeOK
      <4>7. Numbered(x)'
        <5> SUFFICES ASSUME NEW v \in Version
                     PROVE  /\ template'[v] # "absent" <=> v <= x
                            /\ template'[v] = "active" <=> v = x
          BY <4>2 DEF Numbered
        <5>1. CASE v = x
          BY <1>3, <5>1, <3>1, UnitOfWorkAssumption DEF Version
        <5>2. CASE v # x
          BY <1>2, <1>3, <3>1, <4>2, <4>5, <4>6, <5>2, UnitOfWorkAssumption DEF Numbered, Version
        <5>3. QED
          BY <5>1, <5>2
      <4>8. QED
        BY <3>1, <4>7, UnitOfWorkAssumption DEF Version
    <3>5. QED
      BY <3>1, <3>3, <3>4 DEF Key
  <2>3. QED
    BY <2>1, <2>2
<1>9. QED
  BY <1>4, <1>7, <1>8 DEF NumberInv

LEMMA NumberInvariant == Spec => []NumberInv
<1>1. ASSUME Inv, NumberInv, [Next]_vars PROVE NumberInv'
  <2>1. ASSUME NEW s \in Session,
               (\E k \in Key : Receive(s, k)) \/ Step(s) \/ Fail(s)
        PROVE  NumberInv'
    BY <1>1, <2>1, NumberStatement, NumberCommit DEF Step, UniqueViolation, Answer, Fail
  <2>2. CASE UNCHANGED vars
    BY <1>1, <2>2 DEF NumberInv, Numbered, VersionInv, Numbering, Retiring, Retired,
                      Active, vars, tables, locals
  <2>3. QED
    BY <1>1, <2>1, <2>2 DEF Next
<1>2. Inv /\ NumberInv /\ [Next]_vars => NumberInv'
  BY <1>1
<1>3. QED
  BY <1>2, NumberInit, Invariant, PTL DEF Spec

\* Publishers read the active version without locking it; still the committed
\* versions stay consecutive and the newest alone is active.
THEOREM NewestActive == Spec => []NewestIsActive
<1>1. NumberInv => NewestIsActive
  BY NumberedIsNewest DEF NumberInv
<1>2. QED
  BY <1>1, NumberInvariant, PTL

-----------------------------------------------------------------------------
(***************************************************************************)
(* The refinement.  Every statement of the unit of work leaves what its    *)
(* callers were promised alone, except a COMMIT, which decides one key as  *)
(* IdempotentCommands allows.                                              *)
(***************************************************************************)

\* A refusal that is not committed yet was justified when the command looked: the
\* versions a create found are still there.
Justified(s) ==
  Open(s) =>
    /\ result[s] = "conflict" =>
         key[s] \in CreateKey /\ \E v \in Version : template[v] # "absent"
    /\ result[s] = "not_found" => key[s] \in PublishKey
RefusalInv == \A s \in Session : Justified(s)

-----------------------------------------------------------------------------
\* Versions are never taken back.
LEMMA VersionsStay ==
  ASSUME Inv, [Next]_vars, NEW v \in Version, template[v] # "absent"
  PROVE  template'[v] # "absent"
<1>1. CASE UNCHANGED template
  BY <1>1
<1>2. ASSUME NEW s \in Session, Commit(s)
      PROVE  template'[v] # "absent"
  BY <1>2 DEF Commit
<1> QED
  BY <1>1, <1>2 DEF Next, Step, Receive, Claim, SelectAny, SelectActive, StartUpdate, Retire,
     Insert, UniqueViolation, WriteAuditEvent, WriteOutboxEvent, FinaliseIdempotency, Answer,
     Fail, End, tables, vars

LEMMA RefusalStep ==
  ASSUME Inv, RefusalInv, [Next]_vars
  PROVE  RefusalInv'
<1> SUFFICES ASSUME NEW t \in Session PROVE Justified(t)'
  BY DEF RefusalInv
<1>a. (\E v \in Version : template[v] # "absent") => \E v \in Version : template'[v] # "absent"
  BY VersionsStay
<1>b. Justified(t) /\ TypeOK /\ SessionInv(t)
  BY DEF RefusalInv, Inv, TransactionInv
<1>1. CASE UNCHANGED <<pc[t], key[t], result[t]>>
  BY <1>a, <1>b, <1>1 DEF Justified, Open
<1>2. CASE pc'[t] \in {"idle", "claim", "answer"}
  BY <1>2 DEF Justified, Open, InTransaction
<1>3. CASE result'[t] \in {"started", "created", "replay"}
  BY <1>3 DEF Justified
<1>4. ASSUME SelectAny(t) PROVE Justified(t)'
  BY <1>4, <1>a, <1>b DEF SelectAny, Refuse, Justified, TypeOK, tables, SessionInv, Stage
<1>5. ASSUME SelectActive(t) PROVE Justified(t)'
  BY <1>5, <1>b DEF SelectActive, Refuse, Justified, TypeOK, SessionInv, Stage
<1>6. ASSUME NEW s \in Session, (\E k \in Key : Receive(s, k)) \/ Step(s) \/ Fail(s)
      PROVE  Justified(t)'
  <2>1. CASE s # t
    <3>1. UNCHANGED <<pc[t], key[t], result[t]>>
      BY <1>6, <1>b, <2>1 DEF Step, Receive, Claim, SelectAny, SelectActive, Refuse,
         StartUpdate, Retire, Insert, UniqueViolation, WriteAuditEvent, WriteOutboxEvent,
         FinaliseIdempotency, Write, Commit, Answer, Fail, End, Goto, TypeOK
    <3> QED
      BY <1>1, <3>1
  <2>2. CASE s = t
    <3>1. CASE (\E k \in Key : Receive(t, k)) \/ Commit(t) \/ End(t)
      BY <1>2, <1>b, <3>1 DEF Receive, Commit, End, Goto, TypeOK
    <3>2. CASE Claim(t)
      BY <1>3, <1>b, <3>2 DEF Claim, SessionInv, Stage, TypeOK
    <3>3. CASE StartUpdate(t) \/ Retire(t) \/ Insert(t)
      BY <1>3, <1>b, <3>3 DEF StartUpdate, Retire, Insert, SessionInv, Stage, TypeOK
    <3>4. CASE WriteAuditEvent(t) \/ WriteOutboxEvent(t) \/ FinaliseIdempotency(t)
      <4>1. UNCHANGED <<key, result>> /\ Open(t)
        BY <3>4 DEF WriteAuditEvent, WriteOutboxEvent, FinaliseIdempotency, Open, InTransaction
      <4> QED
        BY <4>1, <1>a, <1>b DEF Justified
    <3> QED
      BY <1>6, <2>2, <3>1, <3>2, <3>3, <3>4, <1>4, <1>5
      DEF Step, UniqueViolation, Answer, Fail
  <2> QED
    BY <2>1, <2>2
<1> QED
  BY <1>1, <1>6 DEF Next, vars, locals

LEMMA RefusalInvariant == Spec => []RefusalInv
<1>1. Init => RefusalInv
  BY DEF Init, RefusalInv, Justified, Open, InTransaction
<1>2. Inv /\ RefusalInv /\ [Next]_vars => RefusalInv'
  BY RefusalStep
<1> QED
  BY <1>1, <1>2, Invariant, PTL DEF Spec

-----------------------------------------------------------------------------
\* The commands that took effect, by the version each inserted.
Past == {v \in Version : author[v] # None}

\* There are as many of them as the newest version says.
LEMMA PastIsNumbered ==
  ASSUME TableInv, NEW n \in 0..MaxVersion, Numbered(n)
  PROVE  Past = 1..n /\ Cardinality(Past) = n
<1>1. Past = 1..n
  BY UnitOfWorkAssumption DEF TableInv, Numbered, Past, Version
<1>2. n \in Nat
  BY UnitOfWorkAssumption
<1>3. Cardinality(1..n) = n
  BY <1>2, FS_Interval
<1> QED
  BY <1>1, <1>3

\* The promise's history is the function from versions to authors.
LEMMA OnceDone == Once!Done = Cardinality(Past)
BY DEF Once!Done, Past, Once!Cardinality, Cardinality

LEMMA OnceInit == Init => Once!Init
<1> SUFFICES ASSUME Init PROVE Once!Init
  OBVIOUS
<1>1. Past = {}
  BY DEF Init, Past
<1> QED
  BY <1>1 DEF Init, Once!Init, Past, Key

\* Every statement but COMMIT leaves records and authors alone.
LEMMA OnceStutter ==
  ASSUME UNCHANGED <<record, author>>
  PROVE  UNCHANGED Once!commandVars
BY DEF Once!commandVars

\* A COMMIT of a new version appends its key to the history.
LEMMA CommitApplies ==
  ASSUME Inv, NumberInv, NEW s \in Session, Commit(s), inserted[s] # 0
  PROVE  Once!Next
<1> DEFINE x == inserted[s]
<1>1. TypeOK /\ SessionInv(s) /\ VersionInv(s) /\ TableInv
  BY DEF Inv, TransactionInv, NumberInv
<1>k. PICK k \in Key : k = key[s]
  BY <1>1 DEF SessionInv, Commit
<1>2. /\ record[k] = "none" /\ record' = [record EXCEPT ![k] = "created"]
      /\ x \in Version /\ x = next[s] /\ template[x] = "absent"
      /\ author' = [v \in Version |-> IF v = x THEN k ELSE author[v]]
  BY <1>1, <1>k, UnitOfWorkAssumption
  DEF Commit, SessionInv, Stage, VersionInv, Open, InTransaction, TypeOK, Version
<1>3. PICK n \in 0..MaxVersion : Numbered(n)
  BY DEF NumberInv
<1>4. n \in Nat /\ MaxVersion \in Nat /\ Past = 1..n /\ Once!Done = n
  BY <1>1, <1>3, PastIsNumbered, OnceDone, UnitOfWorkAssumption
<1>5. x > n
  BY <1>2, <1>3, <1>4 DEF Numbered, Version
<1>6. k \in PublishKey => x = n + 1 /\ n > 0
  <2> SUFFICES ASSUME k \in PublishKey PROVE x = n + 1 /\ n > 0
    OBVIOUS
  <2>1. next[s] - 1 \in Version /\ template[next[s] - 1] # "absent"
    BY <1>1, <1>k DEF VersionInv, Numbering
  <2>2. x - 1 \in 1..MaxVersion /\ x - 1 <= n
    BY <1>2, <1>3, <2>1 DEF Numbered, Version
  <2> QED
    BY <1>2, <1>4, <1>5, <2>2 DEF Version
<1>7. k \in CreateKey => x = n + 1 /\ n = 0
  <2> SUFFICES ASSUME k \in CreateKey PROVE x = n + 1 /\ n = 0
    OBVIOUS
  <2>1. next[s] = 1
    BY <1>1, <1>k DEF VersionInv, Numbering
  <2> QED
    BY <1>2, <1>4, <1>5, <2>1
<1>8. k \in CreateKey <=> Once!Done = 0
  BY <1>2, <1>4, <1>6, <1>7 DEF Key
<1>9. x = n + 1
  BY <1>2, <1>6, <1>7 DEF Key
<1>10. {v \in Version : author'[v] # None} = 1..(n + 1)
  <2>1. k # None
    BY <1>2, UnitOfWorkAssumption
  <2>2. \A v \in Version : author'[v] # None <=> v = x \/ v \in Past
    BY <1>2, <2>1 DEF Past
  <2>3. n + 1 <= MaxVersion
    BY <1>2, <1>9 DEF Version
  <2> QED
    BY <1>4, <1>9, <2>2, <2>3 DEF Version
<1>11. Once!Apply(k)
  <2>1. Once!Decide(k, "created")
    BY <1>2 DEF Once!Decide
  <2>2. [v \in {w \in Version : author'[w] # None} |-> author'[v]]
        = [m \in 1..(n + 1) |-> IF m <= n
             THEN [v \in {w \in Version : author[w] # None} |-> author[v]][m] ELSE k]
    <3>1. \A m \in 1..(n + 1) : author'[m] = IF m <= n THEN author[m] ELSE k
      BY <1>2, <1>4, <1>9 DEF Version
    <3>2. \A m \in 1..n : m \in {w \in Version : author[w] # None}
      BY <1>4 DEF Past
    <3>3. \A m \in 1..(n + 1) : m <= n => m \in 1..n
      BY <1>4
    <3> QED
      BY <1>10, <3>1, <3>2, <3>3
  <2> QED
    BY <1>4, <1>8, <2>1, <2>2 DEF Once!Apply
<1> QED
  BY <1>11 DEF Once!Next, Key

\* A COMMIT of a refusal decides its key, and nothing else.
LEMMA CommitRefuses ==
  ASSUME Inv, NumberInv, RefusalInv, NEW s \in Session, Commit(s), result[s] \in Refusal
  PROVE  Once!Next
<1>1. TypeOK /\ SessionInv(s) /\ Justified(s) /\ TableInv
  BY DEF Inv, TransactionInv, RefusalInv
<1>k. PICK k \in Key : k = key[s]
  BY <1>1 DEF SessionInv, Commit
<1>2. /\ record[k] = "none" /\ record' = [record EXCEPT ![k] = result[s]]
      /\ inserted[s] = 0 /\ Open(s)
  BY <1>1, <1>k DEF Commit, SessionInv, Stage, Open, InTransaction, Refusal
<1>3. author' = author
  BY <1>1, <1>2, UnitOfWorkAssumption DEF Commit, TypeOK, Version
<1>4. Once!Decide(k, result[s])
  BY <1>2 DEF Once!Decide
<1>5. CASE result[s] = "conflict"
  <2>1. PICK v \in Version : template[v] # "absent"
    BY <1>1, <1>2, <1>5 DEF Justified
  <2>2. PICK n \in 0..MaxVersion : Numbered(n)
    BY DEF NumberInv
  <2>3. Once!Done = n /\ n > 0
    BY <1>1, <2>1, <2>2, PastIsNumbered, OnceDone, UnitOfWorkAssumption DEF Numbered, Version
  <2>4. Once!Conflict(k)
    BY <1>1, <1>k, <1>2, <1>3, <1>4, <1>5, <2>3 DEF Justified, Once!Conflict
  <2> QED
    BY <2>4 DEF Once!Next, Key
<1>6. CASE result[s] = "not_found"
  <2>1. Once!NotFound(k)
    BY <1>1, <1>k, <1>2, <1>3, <1>4, <1>6 DEF Justified, Once!NotFound
  <2> QED
    BY <2>1 DEF Once!Next, Key
<1> QED
  BY <1>5, <1>6 DEF Refusal

\* Every step of the unit of work is a step of the promise or changes nothing in it.
LEMMA OnceSimulation ==
  ASSUME Inv, NumberInv, RefusalInv, [Next]_vars
  PROVE  [Once!Next]_(Once!commandVars)
<1>1. ASSUME NEW s \in Session, Commit(s)
      PROVE  [Once!Next]_(Once!commandVars)
  <2>1. SessionInv(s) /\ TypeOK
    BY DEF Inv, TransactionInv
  <2>2. CASE inserted[s] # 0
    BY <1>1, <2>2, CommitApplies
  <2>3. CASE result[s] \in Refusal
    BY <1>1, <2>3, CommitRefuses
  <2>4. CASE inserted[s] = 0 /\ rows[s] = {}
    BY <1>1, <2>1, <2>4, OnceStutter, UnitOfWorkAssumption DEF Commit, TypeOK, Version
  <2> QED
    BY <1>1, <2>1, <2>2, <2>3, <2>4 DEF SessionInv, Stage, Commit
<1>2. CASE UNCHANGED <<record, author>>
  BY <1>2, OnceStutter
<1> QED
  BY <1>1, <1>2 DEF Next, Step, Receive, Claim, SelectAny, SelectActive, StartUpdate, Retire,
     Insert, UniqueViolation, WriteAuditEvent, WriteOutboxEvent, FinaliseIdempotency, Answer,
     Fail, End, tables, vars

-----------------------------------------------------------------------------
\* The unit of work implements IdempotentCommands: each key is decided once and for good,
\* and the commands recorded as created took effect one after the other, each once, however
\* many sessions retry, race and fail.
THEOREM EffectOnce == Spec => AppliesOnce
<1>1. Inv /\ NumberInv /\ RefusalInv /\ [Next]_vars => [Once!Next]_(Once!commandVars)
  BY OnceSimulation
<1> QED
  BY <1>1, OnceInit, Invariant, NumberInvariant, RefusalInvariant, PTL
  DEF Spec, AppliesOnce, Once!Spec
=============================================================================
