------------------------- MODULE RoutedStoresProofs -------------------------
(***************************************************************************)
(* For any number of operators, documents and payments: however promotions,*)
(* rollbacks and readiness records overwrite one another, the row stays    *)
(* consistent, an undisturbed endpoint lands where it says, and MongoDB    *)
(* can show every document.                                                *)
(***************************************************************************)
EXTENDS RoutedStores, TLAPS

\* An idle operator wants nothing in particular.
Waiting ==
  \A o \in Operator : pc[o] = "idle" => wants[o] = "promote" /\ announced[o] = Unannounced

\* Who is about to commit saw a mode there is a way from.
Gated ==
  \A o \in Operator : pc[o] = "commit" =>
     seen[o].mode \in (IF wants[o] = "promote" THEN DOMAIN Forward ELSE DOMAIN Backward)

\* An endpoint acts on the mode before the one it announces, unless it was misled.
Follows ==
  \A o \in Operator : announced[o] # Unannounced =>
     /\ wants[o] = "promote"
     /\ announced[o] \in {"postgres_shadow", "postgres_read", "postgres_write"}
     /\ \/ o \in misled
        \/ (IF pc[o] = "read" THEN row.mode ELSE seen[o].mode) = Backward[announced[o]]

\* The copy in MongoDB of a document whose upload succeeded.
Copied == \A d \in Doc : upload[d] = "done" => d \in mongo \cup deleted \cup unmirrored

ControlInv ==
  ControlTypeOK /\ Waiting /\ Gated /\ Follows /\ PairConsistent

Inv == TypeOK /\ ControlInv /\ Copied

-----------------------------------------------------------------------------
\* The transition tables, entry by entry.
LEMMA ForwardTable ==
  /\ DOMAIN Forward = {"mongo_primary", "postgres_shadow", "postgres_read", "postgres_write"}
  /\ Forward["mongo_primary"] = "postgres_shadow"
  /\ Forward["postgres_shadow"] = "postgres_read"
  /\ Forward["postgres_read"] = "postgres_write"
  /\ Forward["postgres_write"] = "mongo_archive"
BY DEF Forward

LEMMA BackwardTable ==
  /\ DOMAIN Backward = {"postgres_shadow", "postgres_read", "postgres_write", "mongo_archive"}
  /\ Backward["postgres_shadow"] = "mongo_primary"
  /\ Backward["postgres_read"] = "postgres_shadow"
  /\ Backward["postgres_write"] = "postgres_read"
  /\ Backward["mongo_archive"] = "postgres_write"
BY DEF Backward

\* Every row a promotion or a rollback writes has a readiness that goes with its mode.
LEMMA LandingReadiness ==
  /\ \A m \in DOMAIN Forward :
        /\ Forward[m] \in Mode
        /\ ReadinessAfter[Forward[m]] \in Readiness
        /\ ReadinessAfter[Forward[m]] \in Expected[Forward[m]]
  /\ \A m \in DOMAIN Backward :
        /\ Backward[m] \in Mode
        /\ "rolled_back" \in Expected[Backward[m]]
<1>1. /\ ReadinessAfter["postgres_shadow"] = "shadow_active"
      /\ ReadinessAfter["postgres_read"] = "shadow_passing"
      /\ ReadinessAfter["postgres_write"] = "promoted"
      /\ ReadinessAfter["mongo_archive"] = "promoted"
  BY DEF ReadinessAfter
<1>2. /\ "rolled_back" \in Expected["mongo_primary"]
      /\ {"shadow_active", "rolled_back"} \subseteq Expected["postgres_shadow"]
      /\ {"shadow_passing", "rolled_back"} \subseteq Expected["postgres_read"]
      /\ {"promoted", "rolled_back"} \subseteq Expected["postgres_write"]
      /\ "promoted" \in Expected["mongo_archive"]
  BY DEF Expected
<1> QED
  BY <1>1, <1>2, ForwardTable, BackwardTable DEF Mode, Readiness

LEMMA MongoReadiness == {"unknown", "ready_for_shadow", "blocked"} \subseteq Expected["mongo_primary"]
BY DEF Expected

\* Whoever announces an endpoint of the table moves there from the mode before it.
LEMMA ThereAndBack ==
  \A m \in {"postgres_shadow", "postgres_read", "postgres_write"} : Forward[Backward[m]] = m
BY ForwardTable, BackwardTable

LEMMA InitialStates == Init => Inv
<1> SUFFICES ASSUME Init PROVE Inv
  OBVIOUS
<1> USE DEF Init, ControlInit, DefaultRow
<1>1. DefaultRow \in Row
  BY DEF Row, Mode, Readiness
<1>2. ControlTypeOK
  BY <1>1, ControlAssumption DEF ControlTypeOK, Mode
<1>3. TypeOK
  BY <1>1, <1>2 DEF TypeOK
<1>4. Waiting /\ Gated /\ Follows /\ Copied
  BY DEF Waiting, Gated, Follows, Copied
<1>5. PairConsistent
  BY MongoReadiness DEF PairConsistent
<1> QED
  BY <1>2, <1>3, <1>4, <1>5 DEF Inv, ControlInv

-----------------------------------------------------------------------------
\* An overwrite with a consistent row keeps the invariant: everybody else under way is
\* misled from here on.
LEMMA Overwriting ==
  ASSUME ControlInv, NEW o \in Operator, NEW new \in Row,
         new.readiness \in Expected[new.mode], Overwrite(o, new)
  PROVE  ControlInv'
<1> USE DEF ControlInv, Overwrite, Leave
<1>1. DefaultRow \in Row
  BY DEF Row, Mode, Readiness, DefaultRow
<1>2. ControlTypeOK'
  BY <1>1 DEF ControlTypeOK, Others, Row
<1>3. Waiting' /\ Gated'
  BY DEF Waiting, Gated, ControlTypeOK
<1>4. Follows'
  <2> SUFFICES ASSUME NEW p \in Operator, announced'[p] # Unannounced
               PROVE  Follows!(p)'
    BY DEF Follows
  <2>1. p # o /\ announced'[p] = announced[p] /\ wants'[p] = wants[p] /\ pc[p] # "idle"
    BY DEF ControlTypeOK, Waiting
  <2>2. p \in misled'
    BY <2>1 DEF Others
  <2> QED
    BY <2>1, <2>2 DEF Follows
<1>5. PairConsistent'
  BY DEF PairConsistent
<1> QED
  BY <1>2, <1>3, <1>4, <1>5

LEMMA ControlStep ==
  ASSUME ControlInv, Control
  PROVE  ControlInv'
<1> USE DEF ControlInv
<1>1. ASSUME NEW o \in Operator, NEW target \in Mode \cup {Unannounced},
             AskPromotion(o, target)
      PROVE  ControlInv'
  <2> USE <1>1 DEF AskPromotion
  <2>1. ControlTypeOK' /\ Waiting' /\ Gated' /\ PairConsistent'
    BY DEF ControlTypeOK, Waiting, Gated, PairConsistent
  <2>2. Follows'
    BY DEF Follows, ControlTypeOK, Waiting
  <2> QED
    BY <2>1, <2>2
<1>2. ASSUME NEW o \in Operator, AskRollback(o)
      PROVE  ControlInv'
  BY <1>2 DEF AskRollback, ControlTypeOK, Waiting, Gated, Follows, PairConsistent
<1>3. ASSUME NEW o \in Operator, ReadRow(o)
      PROVE  ControlInv'
  BY <1>3 DEF ReadRow, ControlTypeOK, Waiting, Gated, Follows, PairConsistent
<1>4. ASSUME NEW o \in Operator, PassGates(o)
      PROVE  ControlInv'
  BY <1>4 DEF PassGates, MayPromote, ControlTypeOK, Waiting, Gated, Follows, PairConsistent
<1>5. ASSUME NEW o \in Operator, Refused(o)
      PROVE  ControlInv'
  <2>1. DefaultRow \in Row
    BY DEF Row, Mode, Readiness, DefaultRow
  <2> QED
    BY <1>5, <2>1 DEF Refused, Leave, ControlTypeOK, Waiting, Gated, Follows, PairConsistent
<1>6. ASSUME NEW o \in Operator, Promote(o)
      PROVE  ControlInv'
  <2> DEFINE to  == Forward[seen[o].mode]
             new == [mode |-> to, readiness |-> ReadinessAfter[to], evidence |-> seen[o].evidence]
  <2>1. seen[o].mode \in DOMAIN Forward /\ seen[o] \in Row
    BY <1>6 DEF Promote, Gated, ControlTypeOK
  <2>2. new \in Row /\ new.readiness \in Expected[new.mode]
    BY <2>1, LandingReadiness DEF Row
  <2>3. Overwrite(o, new)
    BY <1>6 DEF Promote
  <2> QED
    BY <2>2, <2>3, Overwriting
<1>7. ASSUME NEW o \in Operator, Rollback(o)
      PROVE  ControlInv'
  <2> DEFINE new == [mode |-> Backward[seen[o].mode], readiness |-> "rolled_back",
                     evidence |-> FALSE]
  <2>1. seen[o].mode \in DOMAIN Backward
    BY <1>7 DEF Rollback, Gated
  <2>2. new \in Row /\ new.readiness \in Expected[new.mode]
    BY <2>1, LandingReadiness DEF Row, Readiness
  <2>3. Overwrite(o, new)
    BY <1>7 DEF Rollback
  <2> QED
    BY <2>2, <2>3, Overwriting
<1>8. ASSUME NEW passed \in BOOLEAN, RecordReadiness(passed)
      PROVE  ControlInv'
  <2> USE <1>8 DEF RecordReadiness
  <2>1. ControlTypeOK'
    BY DEF ControlTypeOK, Row, Mode, Readiness
  <2>2. Waiting' /\ Gated'
    BY DEF Waiting, Gated
  <2>3. Follows'
    BY DEF Follows, Waiting
  <2>4. PairConsistent'
    BY MongoReadiness DEF PairConsistent
  <2> QED
    BY <2>1, <2>2, <2>3, <2>4
<1>9. CASE IdentityChanges
  BY <1>9 DEF IdentityChanges, ControlTypeOK, Waiting, Gated, Follows, PairConsistent
<1> QED
  BY <1>1, <1>2, <1>3, <1>4, <1>5, <1>6, <1>7, <1>8, <1>9 DEF Control, Operate

\* The steps that leave the control plane alone keep its invariant.
LEMMA ControlStutter ==
  ASSUME ControlInv, UNCHANGED controlVars
  PROVE  ControlInv'
BY DEF controlVars, ControlInv, ControlTypeOK, Waiting, Gated, Follows, PairConsistent

-----------------------------------------------------------------------------
StoresOK == TypeOK /\ Copied

LEMMA UploadStep ==
  ASSUME StoresOK, NEW d \in Doc, Uploading(d)
  PROVE  StoresOK' /\ UNCHANGED controlVars
<1> USE DEF StoresOK
<1>1. UNCHANGED controlVars
  BY DEF Uploading, ResolveStore, CreateDocument, CreateDocumentFails, WriteMongo,
     WriteMongoFails, Die, Delete
<1>2. ControlTypeOK'
  BY <1>1 DEF TypeOK, ControlTypeOK, controlVars
<1>3. CASE ResolveStore(d)
  BY <1>2, <1>3 DEF ResolveStore, TypeOK, Copied
<1>4. CASE CreateDocument(d)
  BY <1>2, <1>4 DEF CreateDocument, TypeOK, Copied
<1>5. CASE CreateDocumentFails(d)
  BY <1>2, <1>5 DEF CreateDocumentFails, TypeOK, Copied
<1>6. CASE WriteMongo(d)
  BY <1>2, <1>6 DEF WriteMongo, TypeOK, Copied
<1>7. CASE WriteMongoFails(d)
  BY <1>2, <1>7 DEF WriteMongoFails, TypeOK, Copied
<1>8. CASE Die(d)
  BY <1>2, <1>8 DEF Die, TypeOK, Copied
<1>9. CASE Delete(d)
  BY <1>2, <1>9 DEF Delete, TypeOK, Copied
<1> QED
  BY <1>1, <1>3, <1>4, <1>5, <1>6, <1>7, <1>8, <1>9 DEF Uploading

LEMMA PaymentStep ==
  ASSUME StoresOK, NEW p \in Payment, Paying(p)
  PROVE  StoresOK' /\ UNCHANGED controlVars
<1> USE DEF StoresOK
<1>1. UNCHANGED controlVars
  BY DEF Paying, ReadStatus, Decide, Record
<1>2. ControlTypeOK'
  BY <1>1 DEF TypeOK, ControlTypeOK, controlVars
<1>3. CASE ReadStatus(p)
  <2>1. DefaultRow \in Row
    BY DEF DefaultRow, Row, Mode, Readiness
  <2>2. row \in Row
    BY DEF TypeOK, ControlTypeOK
  <2>3. Readable \subseteq Row
    BY <2>1, <2>2 DEF Readable
  <2> QED
    BY <1>2, <1>3, <2>3 DEF ReadStatus, TypeOK, Copied
<1>4. CASE Decide(p)
  BY <1>2, <1>4 DEF Decide, TypeOK, Copied
<1>5. CASE Record(p)
  BY <1>2, <1>5 DEF Record, TypeOK, Copied
<1> QED
  BY <1>1, <1>3, <1>4, <1>5 DEF Paying

LEMMA Step == Inv /\ [Next]_vars => Inv'
<1> SUFFICES ASSUME Inv, [Next]_vars
             PROVE  Inv'
  OBVIOUS
<1> USE DEF Inv
<1>1. CASE Control /\ UNCHANGED storeVars
  <2>1. ControlInv'
    BY <1>1, ControlStep
  <2> QED
    BY <1>1, <2>1 DEF ControlInv, storeVars, TypeOK, Copied
<1>2. ASSUME NEW d \in Doc, Uploading(d)
      PROVE  Inv'
  BY <1>2, UploadStep, ControlStutter DEF StoresOK
<1>3. ASSUME NEW p \in Payment, Paying(p)
      PROVE  Inv'
  BY <1>3, PaymentStep, ControlStutter DEF StoresOK
<1>4. CASE UNCHANGED vars
  <2>1. ControlInv'
    BY <1>4, ControlStutter DEF vars
  <2> QED
    BY <1>4, <2>1 DEF vars, storeVars, TypeOK, ControlInv, Copied
<1> QED
  BY <1>1, <1>2, <1>3, <1>4 DEF Next

THEOREM Invariance == Spec => []Inv
<1> QED
  BY InitialStates, Step, PTL DEF Spec

-----------------------------------------------------------------------------
\* Type correctness of the control plane and of the writers it routes.
THEOREM TypeCorrect == Spec => []TypeOK
<1>1. Inv => TypeOK
  BY DEF Inv
<1> QED
  BY <1>1, Invariance, PTL

\* The row's mode and readiness fit together (validate_mode_readiness_pair()).
THEOREM PairsConsistent == Spec => []PairConsistent
<1>1. Inv => PairConsistent
  BY DEF Inv, ControlInv
<1> QED
  BY <1>1, Invariance, PTL

\* Whenever MongoDB serves the list of documents, it has all that were uploaded.
THEOREM MongoLists == Spec => []MongoListsAll
<1>1. Inv => MongoListsAll
  BY DEF Inv, Copied, MongoListsAll, Listed
<1> QED
  BY <1>1, Invariance, PTL

\* An endpoint that was not misled leaves the domain in the mode it is named for.
THEOREM EndpointsLand == Spec => LandsAsAnnounced
<1> DEFINE Lands == \A o \in Operator :
        pc[o] = "commit" /\ pc'[o] = "idle" /\ row' # row /\ announced[o] # Unannounced
        => row'.mode = announced[o] \/ o \in misled
<1>1. Inv /\ [Next]_vars => [Lands]_vars
  <2> SUFFICES ASSUME Inv, [Next]_vars, NEW o \in Operator, pc[o] = "commit",
                      pc'[o] = "idle", row' # row, announced[o] # Unannounced,
                      o \notin misled
               PROVE  row'.mode = announced[o]
    OBVIOUS
  <2> USE DEF Inv, ControlInv
  <2>1. /\ wants[o] = "promote"
        /\ announced[o] \in {"postgres_shadow", "postgres_read", "postgres_write"}
        /\ seen[o].mode = Backward[announced[o]]
    BY DEF Follows
  <2>2. Control
    <3>1. ~ UNCHANGED controlVars
      BY DEF controlVars
    <3> QED
      BY <3>1, UploadStep, PaymentStep DEF Next, StoresOK, vars
  <2>3. PICK p \in Operator : Promote(p) \/ Rollback(p)
    BY <2>2 DEF Control, Operate, AskPromotion, AskRollback, ReadRow, PassGates, Refused,
       RecordReadiness, IdentityChanges
  <2>4. p = o
    BY <2>3 DEF Promote, Rollback, Overwrite, Leave, TypeOK, ControlTypeOK
  <2>5. Promote(o)
    BY <2>1, <2>3, <2>4 DEF Rollback
  <2>6. row'.mode = Forward[seen[o].mode]
    BY <2>5 DEF Promote, Overwrite
  <2> QED
    BY <2>1, <2>6, ThereAndBack
<1> QED
  BY <1>1, Invariance, PTL DEF Spec, LandsAsAnnounced
=============================================================================
