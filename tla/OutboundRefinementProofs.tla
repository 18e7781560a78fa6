---------------------- MODULE OutboundRefinementProofs ----------------------
(***************************************************************************)
(* One worker and a database that does not fail: whatever messages,        *)
(* budgets, holds and kills of the worker, every step of the queue is a    *)
(* step its promise to one message allows, or none at all.                 *)
(***************************************************************************)
EXTENDS OutboundQueueProofs

\* The row a worker holds is still the one it claimed.
ClaimStands == \A w \in Worker : pc[w] \in Busy => status[current[w]] = "sending"

\* No caller fell through and no answer was lost.
NothingLost ==
  /\ fallen = {} /\ unheard = {}
  /\ \A w \in Worker : pc[w] # "caught"

\* A message outside a tick was accepted at most as often as its attempts were counted.
Counted ==
  /\ \A m \in Msg : status[m] = "absent" => attempts[m] = 0
  /\ \A m \in Msg : status[m] \in {"absent", "held"} =>
       delivered[m] <= attempts[m] /\ attempts[m] < MaxAttempts

\* The copy of the attempts is current, and within a tick the provider accepts once.
CopiesCurrent ==
  /\ \A w \in Worker : \A m \in todo[w] : status[m] = "held" => seenAttempts[w][m] = attempts[m]
  /\ \A w \in Worker : pc[w] \in Busy =>
       /\ current[w] \notin todo[w]
       /\ seenAttempts[w][current[w]] = attempts[current[w]]
       /\ attempts[current[w]] < MaxAttempts
       /\ pc[w] \in {"claimed", "cleared", "refused"} =>
            delivered[current[w]] <= attempts[current[w]]
       /\ pc[w] = "unsent" => delivered[current[w]] <= attempts[current[w]] + 1
       /\ pc[w] = "accepted" => delivered[current[w]] > 0

PromiseInv ==
  TypeOK /\ ClaimsExclusive /\ NothingLost /\ ClaimStands /\ Counted /\ CopiesCurrent

-----------------------------------------------------------------------------
LEMMA PromiseInit == Init => NothingLost /\ ClaimStands /\ Counted /\ CopiesCurrent
BY QueueAssumption DEF Init, NothingLost, ClaimStands, Counted, CopiesCurrent, Busy

\* Where no call fails nothing is lost.
LEMMA NothingLostStep ==
  ASSUME ~Faults, TypeOK, NothingLost, [Next]_vars
  PROVE  NothingLost'
<1> USE DEF TypeOK, NothingLost, workerVars, historyVars, envVars
<1>1. CASE Caller
  BY <1>1 DEF Caller, Enqueue, EnqueueFails, SendInline
<1>2. CASE Operator \/ AdvanceClock \/ UNCHANGED vars
  BY <1>2 DEF Operator, Cancel, ReleaseNow, UpdateQueueControls, FlipEmailToggle,
     AdvanceClock, vars
<1>3. ASSUME NEW w \in Worker, Tick(w) \/ Crash(w) PROVE NothingLost'
  <2>1. CASE \/ ExpireStale(w) \/ ReadControls(w) \/ ReadPending(w) \/ EndTick(w)
             \/ Suppress(w) \/ Clear(w) \/ Transmit(w) \/ Crash(w)
    BY <2>1 DEF ExpireStale, ReadControls, ReadPending, EndTick, Exit, Suppress, Clear,
       Transmit, Crash
  <2>2. ASSUME NEW m \in Msg, Claim(w, m) \/ ClaimLost(w, m) PROVE NothingLost'
    BY <2>2 DEF Claim, ClaimLost
  <2>3. CASE MarkSent(w) \/ ReturnToHeld(w) \/ MarkAttemptFailed(w)
    BY <2>3 DEF MarkSent, ReturnToHeld, MarkAttemptFailed, Returns, Resume, Caught,
       OutcomeFrame
  <2> QED
    BY <1>3, <2>1, <2>2, <2>3 DEF Tick
<1> QED
  BY <1>1, <1>2, <1>3 DEF Next

\* Where no call fails, a write of an outcome is applied and answered.
LEMMA WriteAnswered ==
  ASSUME ~Faults, NEW w \in Worker
  PROVE  ~ Caught(w) /\ (Returns(w) => Resume(w))
BY DEF Caught, Returns

LEMMA ClaimStandsStep ==
  ASSUME OneWorker, ~Faults, PromiseInv, [Next]_vars
  PROVE  ClaimStands'
<1> USE DEF PromiseInv, TypeOK, ClaimsExclusive, OneWorker, ClaimStands, Busy,
            rowVars, copyVars, workerVars, historyVars, envVars
<1>1. CASE Caller
  BY <1>1 DEF Caller, Enqueue, EnqueueFails, Insert, Unsubmitted, SendInline
<1>2. CASE Operator
  BY <1>2 DEF Operator, Cancel, ReleaseNow, UpdateQueueControls, FlipEmailToggle
<1>3. CASE AdvanceClock \/ UNCHANGED vars
  BY <1>3 DEF AdvanceClock, vars
<1>4. ASSUME NEW w \in Worker, Tick(w) \/ Crash(w)
      PROVE  ClaimStands'
  <2>1. CASE ExpireStale(w)
    <3>1. \A v \in Worker : pc'[v] = "gate"
      BY <2>1 DEF ExpireStale
    <3> QED
      BY <3>1
  <2>2. CASE ReadControls(w) \/ ReadPending(w) \/ EndTick(w) \/ Suppress(w) \/ Clear(w)
             \/ Crash(w)
    BY <2>2 DEF ReadControls, ReadPending, EndTick, Exit, Suppress, Clear, Crash
  <2>3. ASSUME NEW m \in Msg, Claim(w, m) \/ ClaimLost(w, m)
        PROVE  ClaimStands'
    BY <2>3 DEF Claim, ClaimLost
  <2>4. CASE Transmit(w)
    BY <2>4 DEF Transmit
  <2>5. CASE MarkSent(w) \/ ReturnToHeld(w) \/ MarkAttemptFailed(w)
    BY <2>5, WriteAnswered DEF MarkSent, ReturnToHeld, MarkAttemptFailed, Resume
  <2> QED
    BY <1>4, <2>1, <2>2, <2>3, <2>4, <2>5 DEF Tick
<1> QED
  BY <1>1, <1>2, <1>3, <1>4 DEF Next

\* The counts of a message stay in step with what the provider accepted.
LEMMA CountStep ==
  ASSUME OneWorker, ~Faults, PromiseInv, HoldInv, [Next]_vars
  PROVE  Counted' /\ CopiesCurrent'
<1> USE DEF PromiseInv, TypeOK, ClaimsExclusive, OneWorker, ClaimStands, Counted,
            CopiesCurrent, Busy, rowVars, copyVars, workerVars, historyVars, envVars
<1>n. MaxAttempts \in Nat \ {0}
  BY QueueAssumption
<1>1. CASE Caller
  <2>1. PICK m \in Msg, r \in RequestChoices, c \in QueueSettings : Enqueue(m, r, c)
    BY <1>1 DEF Caller, EnqueueFails, SendInline, NothingLost
  <2>2. \A v \in Worker : m \notin todo[v]
    BY <2>1 DEF Enqueue, Unsubmitted, HoldInv
  <2>3. \A v \in Worker : pc[v] \in Busy => current[v] # m
    BY <2>1 DEF Enqueue, Unsubmitted
  <2> QED
    BY <2>1, <2>2, <2>3 DEF Enqueue, Insert, Unsubmitted
<1>2. CASE Operator
  BY <1>2 DEF Operator, Cancel, ReleaseNow, UpdateQueueControls, FlipEmailToggle
<1>3. CASE AdvanceClock \/ UNCHANGED vars
  BY <1>3 DEF AdvanceClock, vars
<1>4. ASSUME NEW w \in Worker, Tick(w) \/ Crash(w)
      PROVE  Counted' /\ CopiesCurrent'
  <2>a. \A v \in Worker : v = w
    OBVIOUS
  <2>1. CASE ExpireStale(w)
    <3>1. \A v \in Worker : pc'[v] = "gate"
      BY <2>1, <2>a DEF ExpireStale
    <3>2. \A m \in Msg : status'[m] = status[m] \/ status'[m] = "expired"
      BY <2>1 DEF ExpireStale
    <3> QED
      BY <2>1, <3>1, <3>2 DEF ExpireStale
  <2>2. CASE ReadControls(w) \/ EndTick(w) \/ Crash(w)
    BY <2>2, <2>a DEF ReadControls, EndTick, Exit, Crash
  <2>3. CASE ReadPending(w)
    <3>1. pc'[w] = "loop" /\ UNCHANGED <<status, attempts, delivered>>
      BY <2>3 DEF ReadPending
    <3>2. \A m \in todo'[w] : m \in Msg /\ seenAttempts'[w][m] = attempts[m]
      BY <2>3 DEF ReadPending
    <3> QED
      BY <2>a, <3>1, <3>2
  <2>4. CASE Suppress(w) \/ Clear(w)
    BY <2>4, <2>a DEF Suppress, Clear
  <2>5. ASSUME NEW m \in Msg, Claim(w, m) PROVE Counted' /\ CopiesCurrent'
    <3>1. /\ pc'[w] = "claimed" /\ current'[w] = m /\ todo'[w] = todo[w] \ {m}
          /\ status[m] = "held" /\ m \in todo[w] /\ status' = [status EXCEPT ![m] = "sending"]
          /\ UNCHANGED <<seenAttempts, attempts, delivered>>
      BY <2>5 DEF Claim
    <3> QED
      BY <2>a, <3>1
  <2>6. ASSUME NEW m \in Msg, ClaimLost(w, m) PROVE Counted' /\ CopiesCurrent'
    BY <2>6, <2>a DEF ClaimLost
  <2>7. CASE Transmit(w)
    <3>1. /\ pc[w] = "cleared" /\ current[w] \in Msg
          /\ UNCHANGED <<seenAttempts, todo, attempts, status, current>>
      BY <2>7 DEF Transmit
    <3>2. \A m \in Msg : m # current[w] => delivered'[m] = delivered[m]
      BY <2>7 DEF Transmit
    <3>3. \/ /\ delivered'[current[w]] = delivered[current[w]] + 1
             /\ pc'[w] \in {"accepted", "unsent"}
          \/ delivered'[current[w]] = delivered[current[w]] /\ pc'[w] = "unsent"
      BY <2>7 DEF Transmit
    <3>4. Counted'
      BY <3>1, <3>2
    <3> QED
      BY <2>a, <3>1, <3>3, <3>4
  <2>8. CASE MarkSent(w)
    <3>1. /\ pc[w] = "accepted" /\ pc'[w] = "loop" /\ todo' = todo
          /\ status' = [status EXCEPT ![current[w]] = "sent"]
          /\ UNCHANGED <<seenAttempts, attempts, delivered>>
      BY <2>8, WriteAnswered DEF MarkSent, Resume, OutcomeFrame
    <3> QED
      BY <2>a, <3>1
  <2>9. CASE ReturnToHeld(w)
    <3>1. /\ pc[w] = "refused" /\ pc'[w] = "loop" /\ todo' = todo
          /\ status' = [status EXCEPT ![current[w]] = "held"]
          /\ UNCHANGED <<seenAttempts, attempts, delivered>>
      BY <2>9, WriteAnswered DEF ReturnToHeld, Resume, OutcomeFrame
    <3> QED
      BY <2>a, <3>1
  <2>10. CASE MarkAttemptFailed(w)
    <3> DEFINE m == current[w]
    <3>1. /\ pc[w] = "unsent" /\ pc'[w] = "loop" /\ todo' = todo
          /\ attempts' = [attempts EXCEPT ![m] = attempts[m] + 1]
          /\ status' = [status EXCEPT ![m] =
                          IF attempts[m] + 1 >= MaxAttempts THEN "failed" ELSE "held"]
          /\ UNCHANGED <<seenAttempts, delivered>>
      BY <2>10, WriteAnswered DEF MarkAttemptFailed, Resume, OutcomeFrame, NothingLost
    <3>a. m \in Msg /\ attempts[m] \in Nat /\ delivered[m] \in Nat /\ status[m] = "sending"
      BY <3>1
    <3>b. delivered'[m] <= attempts'[m] /\ (status'[m] = "held" => attempts'[m] < MaxAttempts)
      BY <1>n, <3>1, <3>a
    <3>c. status'[m] # "absent"
      BY <3>1, <3>a
    <3>d. \A x \in Msg \ {m} : attempts'[x] = attempts[x] /\ status'[x] = status[x]
                                /\ delivered'[x] = delivered[x]
      BY <3>1
    <3>2. Counted'
      BY <3>b, <3>c, <3>d
    <3>3. CopiesCurrent'
      <4>1. m \notin todo[w]
        BY <3>1
      <4>2. \A x \in todo'[w] : x \in Msg \ {m} /\ seenAttempts'[w][x] = seenAttempts[w][x]
        BY <3>1, <4>1
      <4> QED
        BY <2>a, <3>1, <3>d, <4>2
    <3> QED
      BY <3>2, <3>3
  <2> QED
    BY <1>4, <2>1, <2>2, <2>3, <2>4, <2>5, <2>6, <2>7, <2>8, <2>9, <2>10 DEF Tick
<1> QED
  BY <1>1, <1>2, <1>3, <1>4 DEF Next

-----------------------------------------------------------------------------
\* The initial rows are the initial messages of the promise.
LEMMA PromisedInit == Init => Promise!Init
BY DEF Init, Promise!Init

\* A step that leaves accepted and outcome of every message alone.
LEMMA PromiseStutter ==
  ASSUME UNCHANGED <<status, delivered>>
  PROVE  UNCHANGED Promise!promiseVars
BY DEF Promise!promiseVars

\* One message settles, without the provider.
LEMMA DropOne ==
  ASSUME TypeOK, NEW m \in Msg, NEW how \in {"cancelled", "expired", "failed"},
         status[m] \in {"held", "sending"}, status' = [status EXCEPT ![m] = how],
         UNCHANGED delivered
  PROVE  Promise!Next
<1>1. Promise!Drop({m}, how)
  BY DEF Promise!Drop, TypeOK
<1> QED
  BY <1>1 DEF Promise!Next

\* The provider accepts one message.
LEMMA AcceptOne ==
  ASSUME NEW m \in Msg, status[m] = "sending", delivered[m] < MaxAttempts,
         delivered' = [delivered EXCEPT ![m] = @ + 1], UNCHANGED status
  PROVE  Promise!Next
<1>1. Promise!Accept(m)
  BY DEF Promise!Accept
<1> QED
  BY <1>1 DEF Promise!Next

\* One message is recorded as sent.
LEMMA SentOne ==
  ASSUME TypeOK, NEW m \in Msg, status[m] = "sending", delivered[m] > 0,
         status' = [status EXCEPT ![m] = "sent"], UNCHANGED delivered
  PROVE  Promise!Next
<1>1. Promise!Sent(m)
  BY DEF Promise!Sent, TypeOK
<1> QED
  BY <1>1 DEF Promise!Next

\* Every step of the queue is a step of the promise or changes nothing in it.
LEMMA Simulation ==
  ASSUME OneWorker, ~Faults, PromiseInv, [Next]_vars
  PROVE  [Promise!Next]_(Promise!promiseVars)
<1> USE DEF PromiseInv, TypeOK
<1>1. ASSUME NEW m \in Msg, NEW r \in RequestChoices, NEW c \in QueueSettings,
             Enqueue(m, r, c)
      PROVE  Promise!Next
  <2>1. Promise!Submit(m)
    BY <1>1 DEF Enqueue, Insert, Unsubmitted, Promise!Submit
  <2> QED
    BY <2>1 DEF Promise!Next
<1>2. /\ \A m \in Msg : ~ SendInline(m)
      /\ \A m \in Msg, r \in RequestChoices, c \in QueueSettings : ~ EnqueueFails(m, r, c)
  BY DEF SendInline, EnqueueFails, NothingLost
<1>3. ASSUME NEW m \in Msg, Cancel(m) PROVE Promise!Next
  BY <1>3, DropOne DEF Cancel, historyVars
<1>4. CASE \/ \E m \in Msg : ReleaseNow(m)
           \/ \E c \in Controls : UpdateQueueControls(c)
           \/ FlipEmailToggle \/ AdvanceClock \/ UNCHANGED vars
  BY <1>4, PromiseStutter DEF ReleaseNow, UpdateQueueControls, FlipEmailToggle, AdvanceClock,
     vars, rowVars, historyVars
<1>5. ASSUME NEW w \in Worker, Tick(w) \/ Crash(w)
      PROVE  [Promise!Next]_(Promise!promiseVars)
  <2>1. CASE ExpireStale(w)
    <3> DEFINE S == {m \in Msg : Stale(m)}
    <3>1. Promise!Drop(S, "expired")
      BY <2>1 DEF ExpireStale, Stale, Promise!Drop
    <3> QED
      BY <3>1 DEF Promise!Next
  <2>2. CASE ReadControls(w) \/ ReadPending(w) \/ EndTick(w) \/ Suppress(w) \/ Clear(w)
             \/ Crash(w)
    BY <2>2, PromiseStutter DEF ReadControls, ReadPending, EndTick, Exit, Suppress, Clear,
       Crash, rowVars, historyVars
  <2>3. ASSUME NEW m \in Msg, Claim(w, m) \/ ClaimLost(w, m)
        PROVE  UNCHANGED Promise!promiseVars
    BY <2>3 DEF Claim, ClaimLost, rowVars, historyVars, Promise!promiseVars
  <2>4. CASE Transmit(w)
    <3> DEFINE m == current[w]
    <3>1. pc[w] = "cleared" /\ UNCHANGED status
      BY <2>4 DEF Transmit, rowVars
    <3>2. m \in Msg /\ status[m] = "sending" /\ delivered[m] < MaxAttempts
      BY <3>1, QueueAssumption DEF ClaimsExclusive, ClaimStands, CopiesCurrent, Busy
    <3>3. CASE UNCHANGED delivered
      BY <3>1, <3>3, PromiseStutter
    <3>4. CASE delivered' = [delivered EXCEPT ![m] = @ + 1]
      BY <3>1, <3>2, <3>4, AcceptOne
    <3> QED
      BY <2>4, <3>3, <3>4 DEF Transmit
  <2>5. CASE MarkSent(w)
    <3> DEFINE m == current[w]
    <3>1. /\ pc[w] = "accepted" /\ status' = [status EXCEPT ![m] = "sent"]
          /\ UNCHANGED delivered
      BY <2>5, WriteAnswered DEF MarkSent, OutcomeFrame
    <3>2. m \in Msg /\ status[m] = "sending" /\ delivered[m] > 0
      BY <3>1 DEF ClaimsExclusive, ClaimStands, CopiesCurrent, Busy
    <3> QED
      BY <3>1, <3>2, SentOne
  <2>6. CASE ReturnToHeld(w)
    <3> DEFINE m == current[w]
    <3>1. /\ pc[w] = "refused" /\ UNCHANGED delivered
          /\ status' = [status EXCEPT ![m] = IF @ = "sending" THEN "held" ELSE @]
      BY <2>6, WriteAnswered DEF ReturnToHeld, OutcomeFrame
    <3>2. m \in Msg /\ status[m] = "sending"
      BY <3>1 DEF ClaimsExclusive, ClaimStands, Busy
    <3> QED
      BY <3>1, <3>2 DEF Promise!promiseVars
  <2>7. CASE MarkAttemptFailed(w)
    <3> DEFINE m == current[w]
    <3>1. /\ pc[w] = "unsent" /\ UNCHANGED delivered
          /\ \/ status' = [status EXCEPT ![m] = "failed"]
             \/ status' = [status EXCEPT ![m] = "held"]
      BY <2>7, WriteAnswered DEF MarkAttemptFailed, OutcomeFrame, NothingLost
    <3>2. m \in Msg /\ status[m] = "sending"
      BY <3>1 DEF ClaimsExclusive, ClaimStands, Busy
    <3>3. CASE status' = [status EXCEPT ![m] = "failed"]
      BY <3>1, <3>2, <3>3, DropOne
    <3>4. CASE status' = [status EXCEPT ![m] = "held"]
      BY <3>1, <3>2, <3>4 DEF Promise!promiseVars
    <3> QED
      BY <3>1, <3>3, <3>4
  <2> QED
    BY <1>5, <2>1, <2>2, <2>3, <2>4, <2>5, <2>6, <2>7 DEF Tick
<1> QED
  BY <1>1, <1>2, <1>3, <1>4, <1>5 DEF Next, Caller, Operator

-----------------------------------------------------------------------------
\* With one worker and a database that does not fail the queue implements OutboundPromise:
\* every message settles at most once, the provider accepts it only before that and within
\* the budget, and SENT is true.
THEOREM PromiseKept == OneWorker /\ ~Faults => (Spec => KeepsPromise)
<1> SUFFICES ASSUME OneWorker, ~Faults PROVE Spec => KeepsPromise
  OBVIOUS
<1>1. Init => NothingLost /\ ClaimStands /\ Counted /\ CopiesCurrent
  BY PromiseInit
<1>2. PromiseInv /\ HoldInv /\ [Next]_vars
        => (NothingLost /\ ClaimStands /\ Counted /\ CopiesCurrent)'
  BY NothingLostStep, ClaimStandsStep, CountStep DEF PromiseInv
<1>3. PromiseInv /\ [Next]_vars => [Promise!Next]_(Promise!promiseVars)
  BY Simulation
<1>4. PromiseInv <=> /\ TypeOK /\ ClaimsExclusive /\ NothingLost /\ ClaimStands
                     /\ Counted /\ CopiesCurrent
  BY DEF PromiseInv
<1> QED
  BY <1>1, <1>2, <1>3, <1>4, PromisedInit, Invariants, PTL
  DEF Spec, KeepsPromise, Promise!Spec
=============================================================================
