------------------------ MODULE MatchDecisionProofs ------------------------
(***************************************************************************)
(* For any number of calls about an item and any payloads: what an         *)
(* allocated item, the event log and the dashboards say was paid is the    *)
(* one receipt in the ledger, and a decided item stays decided.            *)
(***************************************************************************)
EXTENDS MatchDecision, TLAPS

\* Call r was given the id of a receipt that exists.
Posted(r) ==
  /\ r \notin rolledBack
  /\ choice[r] \in Payload
  /\ \/ pc[r] \in {"mirror", "finalise", "announce"}
     \/ r \in mirrored \cup announced

\* Call r has copied, or is about to copy, such a receipt.
Copies(r) ==
  /\ r \notin rolledBack
  /\ r \in mirrored \/ pc[r] = "mirror"

\* A call that was not made has left no trace; what a call decides is fixed once it
\* is made, and it is a payload where the payment was copied.
Traces ==
  /\ \A r \in Request : pc[r] = "new" => r \notin mirrored \cup announced \cup rolledBack
  /\ \A r \in Request : pc[r] = "close" => choice[r] \in Closing
  /\ \A r \in mirrored : choice[r] \in Payload

\* The ledger has one receipt at most, that of every call which was given one; without
\* a bank transaction to find it by, only the call that posted it was.
Ledger ==
  /\ \A p, q \in receipts : p = q
  /\ \A r \in Request : Posted(r) => receipts = {choice[r]}
  /\ ~ linked => \A r, s \in Request : Copies(r) /\ Copies(s) => r = s

Inv == TypeOK /\ Traces /\ Ledger /\ AllocatedIsPosted

-----------------------------------------------------------------------------
LEMMA InitialStates == Init => Inv
BY MatchAssumption
DEF Init, Inv, TypeOK, Traces, Ledger, AllocatedIsPosted, Posted, Copies, Status, Kind,
    PC, Closing

\* What the calls that are admitted have in common.
LEMMA Admission ==
  ASSUME Inv, NEW r \in Request, pc[r] = "new",
         NEW k \in Kind, NEW c \in Payload \cup Closing,
         NEW from \in {"pending", "auto_allocated", "unidentified"},
         NEW step \in {"read", "claim", "look", "close"},
         step \in {"read", "claim", "look"} => c \in Payload,
         step = "close" => c \in Closing,
         Admit(r, k, c, from, step)
  PROVE  Inv'
<1> USE DEF Inv, Admit, GoTo, itemVars
<1>1. r \notin mirrored \cup announced \cup rolledBack
  BY DEF Traces
<1>2. TypeOK'
  BY DEF TypeOK, PC
<1>3. Traces'
  BY <1>1 DEF Traces, TypeOK
<1>4. \A s \in Request : Posted(s)' => s # r /\ Posted(s) /\ choice'[s] = choice[s]
  BY <1>1 DEF Posted, TypeOK
<1>5. \A s \in Request : Copies(s)' => Copies(s)
  BY <1>1 DEF Copies, TypeOK
<1>6. Ledger'
  BY <1>4, <1>5 DEF Ledger
<1>7. AllocatedIsPosted'
  BY <1>1 DEF AllocatedIsPosted, TypeOK
<1>8. QED
  BY <1>2, <1>3, <1>6, <1>7

\* The steps that make a call.
Made(r) ==
  \/ \E p \in Payload : ReviewAllocate(r, p)
  \/ \E c \in Closing : ReviewClose(r, c) \/ BulkClose(r, c)
  \/ Dispatch(r)
  \/ Promote(r)

LEMMA MadeStep ==
  ASSUME Inv, NEW r \in Request, Made(r)
  PROVE  Inv'
<1>1. ASSUME NEW p \in Payload, ReviewAllocate(r, p) PROVE Inv'
  <2>1. pc[r] = "new" /\ \E step \in {"claim", "look"} : Admit(r, "reviewer", p, "pending", step)
    BY <1>1 DEF ReviewAllocate
  <2>2. QED
    BY <2>1, Admission DEF Kind
<1>2. ASSUME NEW c \in Closing, ReviewClose(r, c) \/ BulkClose(r, c) PROVE Inv'
  <2>1. pc[r] = "new" /\ \E k \in Kind : Admit(r, k, c, "pending", "close")
    BY <1>2 DEF ReviewClose, BulkClose, Kind
  <2>2. QED
    BY <2>1, Admission
<1>3. CASE Dispatch(r)
  BY <1>3, Admission, MatchAssumption DEF Dispatch, Kind
<1>4. CASE Promote(r)
  <2>1. pc[r] = "new" /\ Admit(r, "promotion", KnownPayload, status, "claim")
        /\ status \in {"pending", "unidentified"}
    BY <1>4 DEF Promote
  <2>2. QED
    BY <2>1, Admission, MatchAssumption DEF Kind
<1>5. QED
  BY <1>1, <1>2, <1>3, <1>4 DEF Made

-----------------------------------------------------------------------------
\* The steps of a call that touch neither ledger nor reports: the call goes on to a
\* step that is given no receipt.
LEMMA QuietStep ==
  ASSUME Inv, NEW r \in Request, pc[r] # "new",
         \E step \in {"claim", "look", "post", "restore", "done"} : GoTo(r, step),
         UNCHANGED <<linked, receipts, callVars, mirrored, announced, rolledBack>>,
         TypeOK', AllocatedIsPosted'
  PROVE  Inv'
<1> USE DEF Inv, GoTo, callVars
<1>1. Traces'
  BY DEF Traces, TypeOK
<1>2. \A s \in Request : Posted(s)' => Posted(s)
  BY DEF Posted, TypeOK
<1>3. \A s \in Request : Copies(s)' => Copies(s)
  BY DEF Copies, TypeOK
<1>4. Ledger'
  BY <1>2, <1>3 DEF Ledger
<1>5. QED
  BY <1>1, <1>4

\* Those that leave the item alone as well.
LEMMA IdleStep ==
  ASSUME Inv, NEW r \in Request, pc[r] # "new",
         NEW step \in {"claim", "look", "post", "restore", "done"}, GoTo(r, step),
         step \in {"claim", "look", "post", "restore"} => choice[r] \in Payload,
         UNCHANGED <<itemVars, linked, receipts, callVars, mirrored, announced, rolledBack>>
  PROVE  Inv'
<1>1. TypeOK'
  BY DEF Inv, TypeOK, GoTo, itemVars, callVars, PC
<1>2. AllocatedIsPosted'
  BY DEF Inv, AllocatedIsPosted, itemVars, callVars
<1>3. QED
  BY <1>1, <1>2, QuietStep DEF callVars

-----------------------------------------------------------------------------
LEMMA EngineReadStep ==
  ASSUME Inv, NEW r \in Request, EngineRead(r)
  PROVE  Inv'
<1> USE DEF EngineRead
<1>1. pc[r] = "read" /\ choice[r] \in Payload
  BY DEF Inv, TypeOK
<1>2. PICK step \in {"claim", "look", "done"} : GoTo(r, step)
  OBVIOUS
<1>3. QED
  BY <1>1, <1>2, IdleStep

LEMMA ClaimStep ==
  ASSUME Inv, NEW r \in Request, Claim(r)
  PROVE  Inv'
<1>1. CASE status = prior[r]
  <2>1. GoTo(r, "look")
    BY <1>1 DEF Claim
  <2>2. TypeOK'
    BY <1>1 DEF Inv, TypeOK, Claim, GoTo, callVars, PC, Status
  <2>3. AllocatedIsPosted'
    BY <1>1 DEF AllocatedIsPosted, Claim
  <2>4. QED
    BY <2>1, <2>2, <2>3, QuietStep DEF Claim
<1>2. CASE status # prior[r]
  BY <1>2, IdleStep DEF Claim
<1>3. QED
  BY <1>1, <1>2

LEMMA RestoreStep ==
  ASSUME Inv, NEW r \in Request, Restore(r)
  PROVE  Inv'
<1>1. TypeOK'
  BY DEF Inv, TypeOK, Restore, GoTo, callVars, PC, Status, Closing
<1>2. AllocatedIsPosted'
  <2>1. prior[r] # "allocated"
    BY DEF Inv, TypeOK
  <2>2. QED
    BY <2>1 DEF Inv, AllocatedIsPosted, Restore, callVars
<1>3. QED
  BY <1>1, <1>2, QuietStep DEF Restore

LEMMA PostFailsStep ==
  ASSUME Inv, NEW r \in Request, PostFails(r)
  PROVE  Inv'
<1>1. choice[r] \in Payload
  BY DEF Inv, TypeOK, PostFails
<1>2. QED
  BY <1>1, IdleStep DEF PostFails

LEMMA CrashStep ==
  ASSUME Inv, NEW r \in Request, Crash(r)
  PROVE  Inv'
BY IdleStep DEF Crash

-----------------------------------------------------------------------------
\* The finder returns the one receipt there is.
LEMMA LookStep ==
  ASSUME Inv, NEW r \in Request, Look(r)
  PROVE  Inv'
<1>1. pc[r] = "look" /\ choice[r] \in Payload
  BY DEF Inv, TypeOK, Look
<1>2. CASE ~ (linked /\ choice[r] \in receipts)
  BY <1>1, <1>2, IdleStep DEF Look
<1>3. CASE linked /\ choice[r] \in receipts
  <2> USE DEF Inv
  <2>1. /\ GoTo(r, "mirror")
        /\ UNCHANGED <<itemVars, linked, receipts, callVars, mirrored, announced,
                       rolledBack>>
    BY <1>3 DEF Look
  <2>2. TypeOK'
    BY <1>1, <2>1 DEF TypeOK, GoTo, itemVars, callVars, PC
  <2>3. Traces'
    BY <1>1, <2>1 DEF Traces, TypeOK, GoTo, callVars
  <2>4. receipts = {choice[r]}
    BY <1>3 DEF Ledger
  <2>5. \A s \in Request \ {r} : Posted(s)' => Posted(s)
    BY <2>1 DEF Posted, TypeOK, GoTo, callVars
  <2>6. Ledger'
    BY <1>3, <2>1, <2>4, <2>5 DEF Ledger, callVars
  <2>7. AllocatedIsPosted'
    BY <2>1 DEF AllocatedIsPosted, itemVars, callVars
  <2>8. QED
    BY <2>2, <2>3, <2>6, <2>7
<1>4. QED
  BY <1>2, <1>3

\* While there is no receipt, nobody was given one and nobody copied one.
LEMMA NothingPosted ==
  ASSUME Inv, receipts = {}
  PROVE  \A s \in Request : ~ Posted(s) /\ ~ Copies(s)
BY DEF Inv, TypeOK, Traces, Ledger, Posted, Copies

\* The unique key: a receipt is inserted only where there is none.
LEMMA PostStep ==
  ASSUME Inv, NEW r \in Request, Post(r) \/ PostUnheard(r)
  PROVE  Inv'
<1> USE DEF Inv
<1>1. /\ pc[r] = "post" /\ receipts = {} /\ receipts' = {choice[r]}
      /\ GoTo(r, "mirror") \/ GoTo(r, "restore")
      /\ UNCHANGED <<itemVars, linked, callVars, mirrored, announced, rolledBack>>
  BY DEF Post, PostUnheard
<1>2. choice[r] \in Payload
  BY <1>1 DEF TypeOK
<1>3. TypeOK'
  BY <1>1, <1>2 DEF TypeOK, GoTo, itemVars, callVars, PC
<1>4. Traces'
  BY <1>1 DEF Traces, TypeOK, GoTo, callVars
<1>5. \A s \in Request \ {r} : ~ Posted(s)' /\ ~ Copies(s)'
  BY <1>1, NothingPosted DEF Posted, Copies, TypeOK, GoTo, callVars
<1>6. Ledger'
  BY <1>1, <1>5 DEF Ledger, callVars
<1>7. AllocatedIsPosted'
  BY <1>1 DEF AllocatedIsPosted, itemVars, callVars
<1>8. QED
  BY <1>3, <1>4, <1>6, <1>7

LEMMA PostUndoneStep ==
  ASSUME Inv, NEW r \in Request, PostUndone(r)
  PROVE  Inv'
<1> USE DEF Inv, PostUndone
<1>1. choice[r] \in Payload
  BY DEF TypeOK
<1>2. TypeOK'
  BY <1>1 DEF TypeOK, GoTo, itemVars, callVars, PC
<1>3. Traces'
  BY DEF Traces, TypeOK, GoTo, callVars
<1>4. \A s \in Request : ~ Posted(s)' /\ ~ Copies(s)'
  BY NothingPosted DEF Posted, Copies, TypeOK, GoTo, callVars
<1>5. Ledger'
  BY <1>4 DEF Ledger
<1>6. AllocatedIsPosted'
  BY DEF AllocatedIsPosted, itemVars, callVars
<1>7. QED
  BY <1>2, <1>3, <1>5, <1>6

-----------------------------------------------------------------------------
LEMMA MirrorStep ==
  ASSUME Inv, NEW r \in Request, Mirror(r)
  PROVE  Inv'
<1> USE DEF Inv, Mirror
<1>1. choice[r] \in Payload
  BY DEF TypeOK
<1>2. TypeOK'
  BY <1>1 DEF TypeOK, GoTo, itemVars, callVars, PC
<1>3. Traces'
  BY <1>1 DEF Traces, TypeOK, GoTo, callVars
<1>4. \A s \in Request : (Posted(s)' => Posted(s)) /\ (Copies(s)' => Copies(s))
  BY <1>1 DEF Posted, Copies, TypeOK, GoTo, callVars
<1>5. Ledger'
  BY <1>4 DEF Ledger, callVars
<1>6. AllocatedIsPosted'
  BY DEF AllocatedIsPosted, itemVars, callVars
<1>7. QED
  BY <1>2, <1>3, <1>5, <1>6

\* The call that closes the item as allocated was given the receipt it names.
LEMMA FinaliseStep ==
  ASSUME Inv, NEW r \in Request, Finalise(r)
  PROVE  Inv'
<1> USE DEF Inv, Finalise
<1>1. choice[r] \in Payload
  BY DEF TypeOK
<1>2. TypeOK'
  BY <1>1 DEF TypeOK, GoTo, callVars, PC, Status
<1>3. Traces'
  BY DEF Traces, TypeOK, GoTo, callVars
<1>4. \A s \in Request : (Posted(s)' => Posted(s)) /\ (Copies(s)' => Copies(s))
  BY <1>1 DEF Posted, Copies, TypeOK, GoTo, callVars
<1>5. Ledger'
  BY <1>4 DEF Ledger, callVars
<1>6. r \in rolledBack \/ receipts = {choice[r]}
  BY <1>1 DEF Ledger, Posted
<1>7. AllocatedIsPosted'
  BY <1>6 DEF AllocatedIsPosted, callVars
<1>8. QED
  BY <1>2, <1>3, <1>5, <1>7

LEMMA CloseStep ==
  ASSUME Inv, NEW r \in Request, Close(r)
  PROVE  Inv'
<1> USE DEF Inv, Close
<1>1. choice[r] \in Closing /\ choice[r] \notin Payload
  BY MatchAssumption DEF Traces
<1>2. pc[r] = "close" /\ (GoTo(r, "announce") \/ GoTo(r, "done"))
      /\ UNCHANGED <<linked, receipts, callVars, mirrored, announced, rolledBack>>
  OBVIOUS
<1>3. TypeOK'
  BY <1>1 DEF TypeOK, GoTo, callVars, PC, Status
<1>4. Traces'
  BY <1>2 DEF Traces, TypeOK, GoTo, callVars
<1>5. \A s \in Request : (Posted(s)' => Posted(s)) /\ (Copies(s)' => Copies(s))
  BY <1>1, <1>2 DEF Posted, Copies, TypeOK, GoTo, callVars
<1>6. Ledger'
  BY <1>2, <1>5 DEF Ledger, callVars
<1>7. AllocatedIsPosted'
  BY <1>1, <1>2 DEF AllocatedIsPosted, callVars, Closing
<1>8. QED
  BY <1>3, <1>4, <1>6, <1>7

LEMMA AnnounceStep ==
  ASSUME Inv, NEW r \in Request, Announce(r)
  PROVE  Inv'
<1> USE DEF Inv, Announce
<1>1. TypeOK'
  BY DEF TypeOK, GoTo, itemVars, callVars, PC
<1>2. Traces'
  BY DEF Traces, TypeOK, GoTo, callVars
<1>3. \A s \in Request : (Posted(s)' => Posted(s)) /\ (Copies(s)' => Copies(s))
  BY DEF Posted, Copies, TypeOK, GoTo, callVars
<1>4. Ledger'
  BY <1>3 DEF Ledger, callVars
<1>5. AllocatedIsPosted'
  BY DEF AllocatedIsPosted, itemVars, callVars
<1>6. QED
  BY <1>1, <1>2, <1>4, <1>5

-----------------------------------------------------------------------------
LEMMA Stuttering ==
  ASSUME Inv, UNCHANGED vars
  PROVE  Inv'
BY DEF vars, itemVars, callVars, Inv, TypeOK, Traces, Ledger, AllocatedIsPosted, Posted,
       Copies

LEMMA NextStep ==
  ASSUME Inv, [Next]_vars
  PROVE  Inv'
<1>1. CASE UNCHANGED vars
  BY <1>1, Stuttering
<1>2. ASSUME NEW r \in Request, Step(r) PROVE Inv'
  <2>1. CASE Made(r)
    BY <2>1, MadeStep
  <2>2. CASE Posting(r)
    BY <2>2, ClaimStep, LookStep, PostStep, PostFailsStep, PostUndoneStep, MirrorStep,
       FinaliseStep, RestoreStep DEF Posting
  <2>3. CASE EngineRead(r) \/ Close(r) \/ Announce(r) \/ Crash(r)
    BY <2>3, EngineReadStep, CloseStep, AnnounceStep, CrashStep
  <2>4. QED
    BY <1>2, <2>1, <2>2, <2>3 DEF Step, Made
<1>3. QED
  BY <1>1, <1>2 DEF Next

LEMMA InvHolds == Spec => []Inv
<1>1. Init => Inv
  BY InitialStates
<1>2. Inv /\ [Next]_vars => Inv'
  BY NextStep
<1>3. QED
  BY <1>1, <1>2, PTL DEF Spec

-----------------------------------------------------------------------------
\* Every variable keeps its type, and only calls that decided on a payload post.
THEOREM TypeCorrect == Spec => []TypeOK
<1>1. Inv => TypeOK
  BY DEF Inv
<1>2. QED
  BY <1>1, InvHolds, PTL

\* However calls race, fail, crash and are repeated, an allocated item has the one
\* receipt its decision names.
THEOREM AllocatedPosted == Spec => []AllocatedIsPosted
<1>1. Inv => AllocatedIsPosted
  BY DEF Inv
<1>2. QED
  BY <1>1, InvHolds, PTL

\* Every payment reported to the event log or the dashboards is the one in the ledger.
THEOREM ReportedPosted == Spec => []ReportedIsPosted
<1>1. Inv => ReportedIsPosted
  BY DEF Inv, TypeOK, Ledger, Posted, ReportedIsPosted
<1>2. QED
  BY <1>1, InvHolds, PTL

\* Without a bank transaction, one call at most copies the payment.
THEOREM MirroredAtMostOnce == Spec => []MirroredOnce
<1>1. Inv => MirroredOnce
  BY DEF Inv, TypeOK, Ledger, Copies, MirroredOnce
<1>2. QED
  BY <1>1, InvHolds, PTL

\* No step of any call reopens or changes an allocated or rejected item.
LEMMA DecidedStep ==
  ASSUME Inv, [Next]_vars
  PROVE  /\ status \in {"allocated", "rejected"} => UNCHANGED <<status, decision>>
         /\ status = "unidentified" => status' \in {"unidentified", "posting"}
<1>1. CASE UNCHANGED vars
  BY <1>1 DEF vars, itemVars
<1>2. ASSUME NEW r \in Request, Step(r)
      PROVE  /\ status \in {"allocated", "rejected"} => UNCHANGED <<status, decision>>
             /\ status = "unidentified" => status' \in {"unidentified", "posting"}
  <2>1. CASE UNCHANGED <<status, decision>>
    BY <2>1
  <2>2. CASE Claim(r)
    BY <2>2 DEF Claim, Inv, TypeOK, itemVars
  <2>3. CASE Finalise(r)
    BY <2>3 DEF Finalise
  <2>4. CASE Restore(r)
    BY <2>4 DEF Restore
  <2>5. CASE Close(r)
    BY <2>5 DEF Close
  <2>6. QED
    BY <1>2, <2>1, <2>2, <2>3, <2>4, <2>5
    DEF Step, Posting, ReviewAllocate, ReviewClose, BulkClose, Dispatch, EngineRead,
        Promote, Admit, Look, Post, PostFails, PostUnheard, PostUndone, Mirror, Announce,
        Crash, itemVars
<1>3. QED
  BY <1>1, <1>2 DEF Next

\* A decision is final, however many calls are made about the item.
THEOREM DecidedFinal == Spec => DecidedIsFinal
<1>1. Inv /\ [Next]_vars =>
        [/\ status \in {"allocated", "rejected"} => UNCHANGED <<status, decision>>
         /\ status = "unidentified" => status' \in {"unidentified", "posting"}]_vars
  BY DecidedStep
<1>2. QED
  BY <1>1, InvHolds, PTL DEF Spec, DecidedIsFinal
=============================================================================
