------------------------ MODULE OutboundQueueProofs ------------------------
(***************************************************************************)
(* For every set of messages and workers, every retry budget and every     *)
(* hold and expiry a building may configure, with calls that fail, applied *)
(* or not: claims are exclusive and settled rows final but where an answer *)
(* was lost, and the hold is a floor for every tick.                       *)
(***************************************************************************)
EXTENDS OutboundQueue, TLAPS

\* Why the hold survives stale copies: a copy of the clock is never ahead of the
\* clock, a row's hold_until is not before its floor unless waived, and a worker
\* only carries rows whose floor has passed.
HoldInv ==
  /\ \A w \in Worker : seenNow[w] <= clock
  /\ \A m \in Msg : status[m] # "absent" => m \in waived \/ earliest[m] <= holdUntil[m]
  /\ \A w \in Worker : \A m \in todo[w] :
       status[m] # "absent" /\ (m \in waived \/ earliest[m] <= clock)
  /\ \A w \in Worker : pc[w] \in Busy =>
       /\ status[current[w]] # "absent"
       /\ current[w] \in waived \/ earliest[current[w]] <= clock

-----------------------------------------------------------------------------
\* The initial controls are some building's controls.
LEMMA DefaultsAreControls == DefaultControls \in Controls
BY QueueAssumption DEF DefaultControls, Controls

\* Whatever get_queue_settings() returns, read or default, is well formed.
LEMMA SettingsAreControls == controls \in Controls => QueueSettings \subseteq Controls
BY DefaultsAreControls DEF QueueSettings

\* The hold of a row is a time at or after the configured one.
LEMMA HoldIsResolved ==
  ASSUME NEW r \in RequestChoices, NEW c \in HoldChoices
  PROVE  ResolveHold(r, c) \in Nat /\ c <= ResolveHold(r, c)
BY QueueAssumption DEF ResolveHold

-----------------------------------------------------------------------------
LEMMA InitialStates == Init => TypeOK /\ ClaimsExclusive /\ HoldInv
BY DefaultsAreControls, QueueAssumption
DEF Init, TypeOK, Status, Terminal, PC, ClaimsExclusive, Busy, HoldInv

\* A write of an outcome, however it comes back, keeps the types of all but the row.
LEMMA OutcomeTypes ==
  ASSUME TypeOK, ClaimsExclusive, NEW w \in Worker, pc[w] \in Busy,
         OutcomeFrame, Returns(w) \/ Caught(w),
         status' \in [Msg -> Status], attempts' \in [Msg -> Nat]
  PROVE  TypeOK'
<1>1. pc' \in [Worker -> PC] /\ current' \in [Worker -> Msg \cup {None}]
  BY DEF TypeOK, Returns, Caught, Resume, PC
<1>2. unheard' \subseteq Msg
  BY DEF TypeOK, Returns, Caught, ClaimsExclusive
<1> QED
  BY <1>1, <1>2 DEF TypeOK, OutcomeFrame, copyVars, envVars

\* Every step keeps the types; mark_attempt_failed() counts up from the copy of
\* the row it claimed, so the claim is needed.
LEMMA TypeStep ==
  ASSUME TypeOK, ClaimsExclusive, [Next]_vars
  PROVE  TypeOK'
<1> USE DEF TypeOK, Status, Terminal, PC, rowVars, copyVars, workerVars,
            historyVars, envVars
<1>1. ASSUME NEW m \in Msg, NEW r \in RequestChoices, NEW c \in QueueSettings,
                    Enqueue(m, r, c) \/ EnqueueFails(m, r, c) PROVE TypeOK'
  <2>1. c.hold \in HoldChoices /\ c.expiry \in ExpiryChoices
    BY SettingsAreControls DEF Controls
  <2>2. c.hold \in Nat /\ c.expiry \in Nat
    BY <2>1, QueueAssumption
  <2>3. ResolveHold(r, c.hold) \in Nat
    BY <2>1, HoldIsResolved
  <2>4. clock \in Nat
    BY QueueAssumption
  <2>5. CASE Insert(m, r, c)
    <3>1. /\ status' \in [Msg -> Status] /\ attempts' = attempts /\ redacted' = redacted
          /\ holdUntil' \in [Msg -> Nat] /\ expiresAt' \in [Msg -> Nat]
          /\ earliest' \in [Msg -> Nat]
      BY <2>2, <2>3, <2>4, <2>5 DEF Insert
    <3> QED
      BY <1>1, <3>1 DEF Enqueue, EnqueueFails
  <2>6. CASE UNCHANGED <<rowVars, earliest>>
    BY <1>1, <2>6 DEF Enqueue, EnqueueFails
  <2> QED
    BY <1>1, <2>5, <2>6 DEF Enqueue, EnqueueFails
<1>2. ASSUME NEW m \in Msg, SendInline(m) PROVE TypeOK'
  <2>1. delivered[m] + 1 \in Nat
    OBVIOUS
  <2> QED
    BY <1>2, <2>1 DEF SendInline
<1>3. ASSUME NEW m \in Msg, Cancel(m) PROVE TypeOK'
  BY <1>3 DEF Cancel
<1>4. ASSUME NEW m \in Msg, ReleaseNow(m) PROVE TypeOK'
  BY <1>4, QueueAssumption DEF ReleaseNow
<1>5. ASSUME NEW c \in Controls, UpdateQueueControls(c) PROVE TypeOK'
  BY <1>5 DEF UpdateQueueControls, Controls
<1>6. CASE FlipEmailToggle
  BY <1>6 DEF FlipEmailToggle
<1>7. CASE AdvanceClock
  BY <1>7, QueueAssumption DEF AdvanceClock
<1>8. ASSUME NEW w \in Worker, Tick(w) PROVE TypeOK'
  <2>1. CASE ExpireStale(w)
    BY <2>1 DEF ExpireStale, Stale, Controls
  <2>2. CASE ReadControls(w)
    BY <2>2, SettingsAreControls, QueueAssumption DEF ReadControls, Controls
  <2>3. CASE ReadPending(w)
    BY <2>3 DEF ReadPending
  <2>4. ASSUME NEW m \in Msg, Claim(w, m) \/ ClaimLost(w, m) PROVE TypeOK'
    <3>1. CASE Claim(w, m)
      BY <3>1 DEF Claim
    <3>2. CASE ClaimLost(w, m)
      BY <3>2 DEF ClaimLost
    <3>3. QED
      BY <2>4, <3>1, <3>2
  <2>5. CASE EndTick(w)
    BY <2>5 DEF EndTick, Exit
  <2>6. CASE Suppress(w) \/ Clear(w)
    BY <2>6 DEF Suppress, Clear
  <2>7. CASE Transmit(w)
    <3>1. pc' \in [Worker -> PC]
      BY <2>7 DEF Transmit
    <3>2. delivered' \in [Msg -> Nat]
      <4>1. \A m \in Msg : delivered[m] + 1 \in Nat
        OBVIOUS
      <4>2. QED
        BY <2>7, <4>1 DEF Transmit
    <3>3. QED
      BY <2>7, <3>1, <3>2 DEF Transmit
  <2>8. CASE MarkSent(w)
    <3>1. pc[w] \in Busy /\ UNCHANGED attempts /\ OutcomeFrame /\ (Returns(w) \/ Caught(w))
      BY <2>8 DEF MarkSent, Caught, Busy
    <3>2. status' \in [Msg -> Status]
      BY <2>8 DEF MarkSent, Caught
    <3> QED
      BY <3>1, <3>2, OutcomeTypes
  <2>9. CASE ReturnToHeld(w)
    <3>1. pc[w] \in Busy /\ UNCHANGED attempts /\ OutcomeFrame /\ (Returns(w) \/ Caught(w))
      BY <2>9 DEF ReturnToHeld, Caught, Busy
    <3>2. status' \in [Msg -> Status]
      BY <2>9 DEF ReturnToHeld, Caught
    <3> QED
      BY <3>1, <3>2, OutcomeTypes
  <2>10. CASE MarkAttemptFailed(w)
    <3>1. pc[w] \in Busy /\ OutcomeFrame /\ (Returns(w) \/ Caught(w))
      BY <2>10 DEF MarkAttemptFailed, Busy
    <3>2. seenAttempts[w][current[w]] + 1 \in Nat
      BY <3>1 DEF ClaimsExclusive
    <3>3. status' \in [Msg -> Status] /\ attempts' \in [Msg -> Nat]
      <4>1. CASE Caught(w)
        BY <4>1 DEF Caught
      <4>2. CASE ~ Caught(w)
        <5> DEFINE count == seenAttempts[w][current[w]] + 1
        <5>1. /\ \/ status' = [status EXCEPT ![current[w]] = "failed"]
                 \/ status' = [status EXCEPT ![current[w]] = "held"]
              /\ attempts' = [attempts EXCEPT ![current[w]] = count]
          BY <2>10, <4>2 DEF MarkAttemptFailed
        <5>2. count \in Nat
          BY <3>2
        <5> HIDE DEF count
        <5> QED
          BY <5>1, <5>2
      <4> QED
        BY <4>1, <4>2
    <3> QED
      BY <3>1, <3>3, OutcomeTypes
  <2>11. QED
    BY <1>8, <2>1, <2>2, <2>3, <2>4, <2>5, <2>6, <2>7, <2>8, <2>9, <2>10 DEF Tick
<1>9. ASSUME NEW w \in Worker, Crash(w) PROVE TypeOK'
  BY <1>9 DEF Crash, Exit
<1>10. CASE UNCHANGED vars
  BY <1>10 DEF vars
<1>11. QED
  BY <1>1, <1>2, <1>3, <1>4, <1>5, <1>6, <1>7, <1>8, <1>9, <1>10
  DEF Next, Caller, Operator

\* A lost answer is forgotten only when no worker is left with the row.
LEMMA LetGoIsFree ==
  ASSUME NEW w \in Worker, NEW v \in Worker, v # w
  PROVE  current[v] \notin LetGo(w)
BY DEF LetGo

\* A worker that writes only the row it has claimed, and keeps its claim, gives it
\* up or loses its answer, disturbs no other claim.
LEMMA OwnRowOnly ==
  ASSUME TypeOK, ClaimsExclusive, NEW w \in Worker, pc[w] \in Busy,
         \A v \in Worker \ {w} : pc'[v] = pc[v] /\ current'[v] = current[v],
         \A m \in Msg : m # current[w] => status'[m] = status[m],
         \A v \in Worker : pc'[v] \in Busy /\ current[v] \in unheard => current[v] \in unheard',
         pc'[w] \in Busy => /\ current'[w] = current[w]
                            /\ \/ status'[current[w]] = status[current[w]]
                               \/ current[w] \in unheard'
  PROVE  ClaimsExclusive'
<1> USE DEF ClaimsExclusive
<1>1. \A v \in Worker : pc'[v] \in Busy => pc[v] \in Busy /\ current'[v] = current[v]
  OBVIOUS
<1>2. \A v \in Worker : pc'[v] \in Busy =>
        current[v] \in unheard' \/ status'[current[v]] = status[current[v]]
  <2> TAKE v \in Worker
  <2>1. CASE v = w
    BY <2>1
  <2>2. CASE v # w
    BY <2>2, <1>1
  <2>3. QED
    BY <2>1, <2>2
<1>3. \A v \in Worker : pc'[v] \in Busy =>
        /\ current'[v] \in Msg
        /\ current'[v] \in unheard' \/ status'[current'[v]] \in {"sending", "expired"}
  BY <1>1, <1>2
<1>4. \A u, v \in Worker : u # v /\ pc'[u] \in Busy /\ pc'[v] \in Busy =>
        current'[u] # current'[v] \/ current'[u] \in unheard'
  BY <1>1
<1>5. QED
  BY <1>3, <1>4 DEF Busy

\* However a write of the claimed row comes back, it is such a step.
LEMMA OutcomeClaims ==
  ASSUME TypeOK, ClaimsExclusive, NEW w \in Worker, pc[w] \in Busy,
         Returns(w) \/ Caught(w),
         \A m \in Msg : m # current[w] => status'[m] = status[m]
  PROVE  ClaimsExclusive'
<1>1. \A v \in Worker \ {w} : pc'[v] = pc[v] /\ current'[v] = current[v]
  BY DEF TypeOK, Returns, Caught, Resume
<1>2. \A v \in Worker : pc'[v] \in Busy /\ current[v] \in unheard => current[v] \in unheard'
  BY LetGoIsFree DEF TypeOK, Returns, Caught, Resume, Busy
<1>3. pc'[w] \in Busy => /\ current'[w] = current[w]
                         /\ \/ status'[current[w]] = status[current[w]]
                            \/ current[w] \in unheard'
  BY DEF TypeOK, Returns, Caught, Resume, Busy
<1> QED
  BY <1>1, <1>2, <1>3, OwnRowOnly

\* So is the end of its process.
LEMMA ExitClaims ==
  ASSUME TypeOK, ClaimsExclusive, NEW w \in Worker, Exit(w)
  PROVE  ClaimsExclusive'
<1>1. /\ pc'[w] \notin Busy
      /\ \A v \in Worker \ {w} : pc'[v] = pc[v] /\ current'[v] = current[v]
      /\ status' = status
      /\ unheard' = unheard \ LetGo(w)
  BY DEF TypeOK, Exit, Busy, rowVars
<1>2. \A v \in Worker : pc'[v] \in Busy =>
        /\ pc[v] \in Busy /\ current'[v] = current[v]
        /\ current[v] \in unheard => current[v] \in unheard'
  BY <1>1, LetGoIsFree
<1> QED
  BY <1>1, <1>2 DEF ClaimsExclusive

\* A claim needs a HELD row, every claimed row is SENDING or EXPIRED, and only
\* its own worker makes it anything else: so no second worker can claim it, unless
\* its own worker did so without hearing it.
LEMMA ClaimsStep ==
  ASSUME TypeOK, ClaimsExclusive, [Next]_vars
  PROVE  ClaimsExclusive'
<1> USE DEF TypeOK, Status, Terminal, PC, ClaimsExclusive, Busy, rowVars, copyVars,
            workerVars, historyVars, envVars
<1>1. ASSUME NEW m \in Msg, NEW r \in RequestChoices, NEW c \in QueueSettings,
                    Enqueue(m, r, c) \/ EnqueueFails(m, r, c)
      PROVE  ClaimsExclusive'
  BY <1>1 DEF Enqueue, EnqueueFails, Insert, Unsubmitted
<1>2. ASSUME NEW m \in Msg, SendInline(m) PROVE ClaimsExclusive'
  BY <1>2 DEF SendInline
<1>3. ASSUME NEW m \in Msg, Cancel(m) PROVE ClaimsExclusive'
  BY <1>3 DEF Cancel
<1>4. ASSUME NEW m \in Msg, ReleaseNow(m) PROVE ClaimsExclusive'
  BY <1>4 DEF ReleaseNow
<1>5. ASSUME NEW c \in Controls, UpdateQueueControls(c) PROVE ClaimsExclusive'
  BY <1>5 DEF UpdateQueueControls
<1>6. CASE FlipEmailToggle
  BY <1>6 DEF FlipEmailToggle
<1>7. CASE AdvanceClock
  BY <1>7 DEF AdvanceClock
<1>8. ASSUME NEW w \in Worker, Tick(w) PROVE ClaimsExclusive'
  <2>1. CASE ExpireStale(w)
    BY <2>1 DEF ExpireStale, Stale
  <2>2. CASE ReadControls(w)
    BY <2>2 DEF ReadControls
  <2>3. CASE ReadPending(w)
    BY <2>3 DEF ReadPending
  <2>4. ASSUME NEW m \in Msg, Claim(w, m) \/ ClaimLost(w, m) PROVE ClaimsExclusive'
    <3>1. CASE Claim(w, m)
      <4>1. \A v \in Worker : pc[v] \in Busy => current[v] # m \/ m \in unheard
        BY <3>1 DEF Claim
      <4>2. \A v \in Worker \ {w} : pc'[v] = pc[v] /\ current'[v] = current[v]
        BY <3>1 DEF Claim
      <4>3. current'[w] = m /\ status'[m] = "sending" /\ unheard' = unheard
        BY <3>1 DEF Claim
      <4>4. \A x \in Msg \ {m} : status'[x] = status[x]
        BY <3>1 DEF Claim
      <4>5. \A v \in Worker \ {w} : pc'[v] \in Busy =>
              /\ current'[v] # m \/ m \in unheard'
              /\ current'[v] \in Msg
              /\ \/ current'[v] \in unheard'
                 \/ status'[current'[v]] \in {"sending", "expired"}
        BY <4>1, <4>2, <4>3, <4>4
      <4>6. \A v \in Worker : pc'[v] \in Busy =>
              /\ current'[v] \in Msg
              /\ \/ current'[v] \in unheard'
                 \/ status'[current'[v]] \in {"sending", "expired"}
        BY <4>3, <4>5
      <4>7. \A u, v \in Worker : u # v /\ pc'[u] \in Busy /\ pc'[v] \in Busy =>
              current'[u] # current'[v] \/ current'[u] \in unheard'
        <5> SUFFICES ASSUME NEW u \in Worker, NEW v \in Worker,
                            u # v, pc'[u] \in Busy, pc'[v] \in Busy
                     PROVE  current'[u] # current'[v] \/ current'[u] \in unheard'
          OBVIOUS
        <5>1. CASE u = w
          BY <5>1, <4>3, <4>5
        <5>2. CASE v = w
          BY <5>2, <4>3, <4>5
        <5>3. CASE u # w /\ v # w
          BY <5>3, <4>2, <4>3
        <5>4. QED
          BY <5>1, <5>2, <5>3
      <4>8. QED
        BY <4>6, <4>7
    <3>2. CASE ClaimLost(w, m)
      BY <3>2 DEF ClaimLost
    <3>3. QED
      BY <2>4, <3>1, <3>2
  <2>5. CASE EndTick(w)
    BY <2>5, ExitClaims DEF EndTick
  <2>6. CASE Suppress(w) \/ Clear(w)
    <3>1. CASE Suppress(w)
      BY <3>1, OwnRowOnly DEF Suppress
    <3>2. CASE Clear(w)
      BY <3>2, OwnRowOnly DEF Clear
    <3>3. QED
      BY <2>6, <3>1, <3>2
  <2>7. CASE Transmit(w)
    BY <2>7, OwnRowOnly DEF Transmit
  <2>8. CASE MarkSent(w)
    BY <2>8, OutcomeClaims DEF MarkSent, Caught
  <2>9. CASE ReturnToHeld(w)
    BY <2>9, OutcomeClaims DEF ReturnToHeld, Caught
  <2>10. CASE MarkAttemptFailed(w)
    BY <2>10, OutcomeClaims DEF MarkAttemptFailed, Caught
  <2>11. QED
    BY <1>8, <2>1, <2>2, <2>3, <2>4, <2>5, <2>6, <2>7, <2>8, <2>9, <2>10 DEF Tick
<1>9. ASSUME NEW w \in Worker, Crash(w) PROVE ClaimsExclusive'
  BY <1>9, ExitClaims DEF Crash
<1>10. CASE UNCHANGED vars
  BY <1>10 DEF vars
<1>11. QED
  BY <1>1, <1>2, <1>3, <1>4, <1>5, <1>6, <1>7, <1>8, <1>9, <1>10
  DEF Next, Caller, Operator

\* What workers remember and rows carry about the hold does not depend on what a
\* row's status becomes, as long as no claim is taken.
LEMMA HoldUndisturbed ==
  ASSUME HoldInv,
         UNCHANGED <<clock, seenNow, waived, earliest, holdUntil, todo>>,
         \A m \in Msg : status'[m] = "absent" <=> status[m] = "absent",
         \A v \in Worker : todo[v] \subseteq Msg,
         \A v \in Worker : pc[v] \in Busy => current[v] \in Msg,
         \A v \in Worker : pc'[v] \in Busy => pc[v] \in Busy /\ current'[v] = current[v]
  PROVE  HoldInv'
<1>1. \A v \in Worker : \A m \in todo[v] : m \in Msg
  OBVIOUS
<1>2. QED
  BY <1>1 DEF HoldInv

\* However a write of an outcome comes back, no claim is taken.
LEMMA OutcomeHold ==
  ASSUME TypeOK, ClaimsExclusive, HoldInv, NEW w \in Worker, pc[w] \in Busy,
         OutcomeFrame, Returns(w) \/ Caught(w),
         \A m \in Msg : status'[m] = "absent" <=> status[m] = "absent"
  PROVE  HoldInv'
<1>1. \A v \in Worker : pc'[v] \in Busy => pc[v] \in Busy /\ current'[v] = current[v]
  BY DEF TypeOK, Returns, Caught, Resume, Busy
<1>2. UNCHANGED <<clock, seenNow, waived, earliest, holdUntil, todo>>
  BY DEF OutcomeFrame, copyVars, envVars
<1> QED
  BY <1>1, <1>2, HoldUndisturbed DEF TypeOK, ClaimsExclusive

\* The hold's bookkeeping survives every step: a worker's copy of the clock is
\* taken from the clock, and due rows are past their floor by that copy.
LEMMA HoldStep ==
  ASSUME TypeOK, ClaimsExclusive, HoldInv, [Next]_vars
  PROVE  HoldInv'
<1>a. clock \in Nat /\ \A m \in Msg : earliest[m] \in Nat /\ holdUntil[m] \in Nat
  BY QueueAssumption DEF TypeOK
<1>b. \A w \in Worker : seenNow[w] \in Nat
  BY DEF TypeOK
<1> USE DEF TypeOK, PC, ClaimsExclusive, HoldInv, Busy, rowVars, copyVars, workerVars,
            historyVars, envVars
<1>1. ASSUME NEW m \in Msg, NEW r \in RequestChoices, NEW c \in QueueSettings,
                    Enqueue(m, r, c) \/ EnqueueFails(m, r, c)
      PROVE  HoldInv'
  <2>1. c.hold \in HoldChoices
    BY SettingsAreControls DEF Controls
  <2>2. c.hold \in Nat /\ ResolveHold(r, c.hold) \in Nat
          /\ c.hold <= ResolveHold(r, c.hold)
    BY <2>1, HoldIsResolved, QueueAssumption
  <2>3. \A w \in Worker : m \notin todo[w] /\ (pc[w] \in Busy => current[w] # m)
    BY <1>1 DEF Enqueue, EnqueueFails, Unsubmitted
  <2>4. UNCHANGED <<clock, waived, workerVars>>
    BY <1>1 DEF Enqueue, EnqueueFails
  <2>5. CASE Insert(m, r, c)
    <3>1. earliest'[m] <= holdUntil'[m]
      BY <2>5, <1>a, <2>2 DEF Insert
    <3> QED
      BY <2>5, <2>3, <2>4, <3>1 DEF Insert
  <2>6. CASE UNCHANGED <<rowVars, earliest>>
    BY <2>4, <2>6
  <2> QED
    BY <1>1, <2>5, <2>6 DEF Enqueue, EnqueueFails
<1>2. ASSUME NEW m \in Msg, SendInline(m) PROVE HoldInv'
  BY <1>2 DEF SendInline
<1>3. ASSUME NEW m \in Msg, Cancel(m) PROVE HoldInv'
  BY <1>3 DEF Cancel
<1>4. ASSUME NEW m \in Msg, ReleaseNow(m) PROVE HoldInv'
  BY <1>4 DEF ReleaseNow
<1>5. ASSUME NEW c \in Controls, UpdateQueueControls(c) PROVE HoldInv'
  BY <1>5 DEF UpdateQueueControls
<1>6. CASE FlipEmailToggle
  BY <1>6 DEF FlipEmailToggle
<1>7. CASE AdvanceClock
  BY <1>7, <1>a, <1>b DEF AdvanceClock
<1>8. ASSUME NEW w \in Worker, Tick(w) PROVE HoldInv'
  <2>1. CASE ExpireStale(w)
    BY <2>1 DEF ExpireStale, Stale
  <2>2. CASE ReadControls(w)
    BY <2>2, <1>a DEF ReadControls
  <2>3. CASE ReadPending(w)
    <3>1. /\ todo'[w] \subseteq Msg /\ \A m \in todo'[w] : Sendable(w, m)
          /\ UNCHANGED <<status, waived, earliest, clock>>
      BY <2>3 DEF ReadPending
    <3>2. \A m \in todo'[w] : m \in Msg /\ status'[m] # "absent"
                              /\ (m \in waived' \/ earliest'[m] <= clock')
      <4> SUFFICES ASSUME NEW m \in Msg, Sendable(w, m)
                   PROVE  status[m] # "absent" /\ (m \in waived \/ earliest[m] <= clock)
        BY <3>1
      <4>1. status[m] = "held" /\ holdUntil[m] <= seenNow[w]
        BY DEF Sendable
      <4>2. (m \in waived \/ earliest[m] <= holdUntil[m]) /\ seenNow[w] <= clock
        BY <4>1
      <4>3. QED
        BY <4>1, <4>2, <1>a, <1>b
    <3>3. QED
      BY <2>3, <3>2, <1>a DEF ReadPending
  <2>4. ASSUME NEW m \in Msg, Claim(w, m) \/ ClaimLost(w, m) PROVE HoldInv'
    <3>1. CASE Claim(w, m)
      BY <3>1 DEF Claim
    <3>2. CASE ClaimLost(w, m)
      BY <3>2 DEF ClaimLost
    <3>3. QED
      BY <2>4, <3>1, <3>2
  <2>5. CASE EndTick(w)
    BY <2>5, <1>a DEF EndTick, Exit
  <2>6. CASE Suppress(w) \/ Clear(w)
    <3>1. CASE Suppress(w)
      BY <3>1, HoldUndisturbed DEF Suppress
    <3>2. CASE Clear(w)
      BY <3>2, HoldUndisturbed DEF Clear
    <3>3. QED
      BY <2>6, <3>1, <3>2
  <2>7. CASE Transmit(w)
    BY <2>7, HoldUndisturbed DEF Transmit
  <2>8. CASE MarkSent(w)
    <3>1. pc[w] \in Busy /\ OutcomeFrame /\ (Returns(w) \/ Caught(w))
      BY <2>8 DEF MarkSent
    <3>2. \A m \in Msg : status'[m] = "absent" <=> status[m] = "absent"
      BY <2>8, <3>1 DEF MarkSent, Caught
    <3> QED
      BY <3>1, <3>2, OutcomeHold
  <2>9. CASE ReturnToHeld(w)
    <3>1. pc[w] \in Busy /\ OutcomeFrame /\ (Returns(w) \/ Caught(w))
      BY <2>9 DEF ReturnToHeld
    <3>2. \A m \in Msg : status'[m] = "absent" <=> status[m] = "absent"
      BY <2>9, <3>1 DEF ReturnToHeld, Caught
    <3> QED
      BY <3>1, <3>2, OutcomeHold
  <2>10. CASE MarkAttemptFailed(w)
    <3>1. pc[w] \in Busy /\ OutcomeFrame /\ (Returns(w) \/ Caught(w))
      BY <2>10 DEF MarkAttemptFailed
    <3>2. \A m \in Msg : status'[m] = "absent" <=> status[m] = "absent"
      BY <2>10, <3>1 DEF MarkAttemptFailed, Caught
    <3> QED
      BY <3>1, <3>2, OutcomeHold
  <2>11. QED
    BY <1>8, <2>1, <2>2, <2>3, <2>4, <2>5, <2>6, <2>7, <2>8, <2>9, <2>10 DEF Tick
<1>9. ASSUME NEW w \in Worker, Crash(w) PROVE HoldInv'
  BY <1>9, <1>a DEF Crash, Exit
<1>10. CASE UNCHANGED vars
  BY <1>10 DEF vars
<1>11. QED
  BY <1>1, <1>2, <1>3, <1>4, <1>5, <1>6, <1>7, <1>8, <1>9, <1>10
  DEF Next, Caller, Operator

-----------------------------------------------------------------------------
LEMMA Invariants == Spec => [](TypeOK /\ ClaimsExclusive /\ HoldInv)
<1>1. TypeOK /\ ClaimsExclusive /\ HoldInv /\ [Next]_vars
        => (TypeOK /\ ClaimsExclusive /\ HoldInv)'
  BY TypeStep, ClaimsStep, HoldStep
<1>2. QED
  BY InitialStates, <1>1, PTL DEF Spec

\* Every variable keeps its type: statuses stay within the seven of
\* MessageStatus (and "absent"), counters stay natural numbers.
THEOREM TypeCorrect == Spec => []TypeOK
BY Invariants, PTL

\* For any number of overlapping workers, any crashes and any failing call,
\* claim_for_send() is exclusive until a write of the row is applied and raises,
\* although the writes that follow it are unconditional.
THEOREM ClaimsAreExclusive == Spec => []ClaimsExclusive
BY Invariants, PTL

\* A sent, cancelled or failed row keeps its status and is not transmitted, but where
\* the answer to one of the tick's writes, or to the insert, was lost.
THEOREM SettledFinal == Spec => SettledIsFinal
<1> DEFINE Kept == \A m \in Msg :
             status[m] \in {"sent", "cancelled", "failed"} /\ m \notin unheard =>
               /\ status'[m] = status[m]
               /\ delivered'[m] = delivered[m] \/ m \in fallen
<1>1. TypeOK /\ ClaimsExclusive /\ [Next]_vars => [Kept]_vars
  <2> SUFFICES ASSUME TypeOK, ClaimsExclusive, Next PROVE Kept
    OBVIOUS
  <2> USE DEF TypeOK, ClaimsExclusive, Busy, rowVars, copyVars, workerVars,
              historyVars, envVars
  <2>1. CASE Caller
    BY <2>1 DEF Caller, Enqueue, EnqueueFails, Insert, Unsubmitted, SendInline
  <2>2. CASE Operator
    BY <2>2 DEF Operator, Cancel, ReleaseNow, UpdateQueueControls, FlipEmailToggle
  <2>3. CASE AdvanceClock
    BY <2>3 DEF AdvanceClock
  <2>4. ASSUME NEW w \in Worker, Tick(w) PROVE Kept
    <3>1. CASE ExpireStale(w)
      BY <3>1 DEF ExpireStale, Stale
    <3>2. CASE ReadControls(w) \/ ReadPending(w) \/ EndTick(w) \/ Suppress(w)
                \/ Clear(w)
      BY <3>2 DEF ReadControls, ReadPending, EndTick, Exit, Suppress, Clear
    <3>3. ASSUME NEW m \in Msg, Claim(w, m) \/ ClaimLost(w, m) PROVE Kept
      BY <3>3 DEF Claim, ClaimLost
    <3>4. CASE Transmit(w)
      BY <3>4 DEF Transmit
    <3>5. CASE MarkSent(w)
      BY <3>5 DEF MarkSent, Caught, OutcomeFrame
    <3>6. CASE ReturnToHeld(w)
      BY <3>6 DEF ReturnToHeld, Caught, OutcomeFrame
    <3>7. CASE MarkAttemptFailed(w)
      BY <3>7 DEF MarkAttemptFailed, Caught, OutcomeFrame
    <3>8. QED
      BY <2>4, <3>1, <3>2, <3>3, <3>4, <3>5, <3>6, <3>7 DEF Tick
  <2>5. ASSUME NEW w \in Worker, Crash(w) PROVE Kept
    BY <2>5 DEF Crash, Exit
  <2>6. QED
    BY <2>1, <2>2, <2>3, <2>4, <2>5 DEF Next
<1>2. QED
  BY <1>1, Invariants, PTL DEF Spec, SettledIsFinal

\* No tick transmits a message before its floor, whatever copies of the clock and of
\* the row it holds and whatever calls failed, unless an operator waived it.
THEOREM HoldFloor == Spec => HoldIsAFloor
<1> DEFINE Floor == \A w \in Worker :
             pc[w] = "cleared" /\ pc'[w] # "cleared" /\ delivered' # delivered =>
               current[w] \in waived \/ clock >= earliest[current[w]]
<1>1. TypeOK /\ ClaimsExclusive /\ HoldInv => Floor
  <2> SUFFICES ASSUME TypeOK, ClaimsExclusive, HoldInv, NEW w \in Worker,
                      pc[w] = "cleared"
               PROVE  current[w] \in waived \/ clock >= earliest[current[w]]
    OBVIOUS
  <2>1. pc[w] \in Busy /\ current[w] \in Msg
    BY DEF Busy, ClaimsExclusive
  <2>2. clock \in Nat /\ earliest[current[w]] \in Nat
    BY <2>1, QueueAssumption DEF TypeOK
  <2> QED
    BY <2>1, <2>2 DEF HoldInv
<1>2. TypeOK /\ ClaimsExclusive /\ HoldInv => [Floor]_vars
  BY <1>1
<1> QED
  BY <1>2, Invariants, PTL DEF Spec, HoldIsAFloor

-----------------------------------------------------------------------------
(***************************************************************************)
(* Database calls that do not fail: a tick that read `enabled` read it     *)
(* while it was so.                                                        *)
(***************************************************************************)

\* A worker with something to send read it after the queue had been open.
OpenInv ==
  \A w \in Worker :
    /\ pc[w] \in {"idle", "gate", "scan"} => todo[w] = {}
    /\ pc[w] # "idle" /\ controls.enabled => wasOpen[w]
    /\ pc[w] = "scan" /\ seenEnabled[w] => wasOpen[w]
    /\ todo[w] # {} \/ pc[w] \in Busy => wasOpen[w]

LEMMA OpenStep ==
  ASSUME TypeOK, ~Faults, OpenInv, [Next]_vars
  PROVE  OpenInv'
<1> SUFFICES ASSUME NEW w \in Worker
             PROVE  OpenInv!(w)'
  BY DEF OpenInv
<1> USE DEF TypeOK, OpenInv, Busy, copyVars, workerVars, historyVars, envVars
<1>1. CASE UNCHANGED <<controls, workerVars, wasOpen>>
  BY <1>1
<1>2. CASE Caller
  BY <1>1, <1>2 DEF Caller, Enqueue, EnqueueFails, SendInline
<1>3. CASE Operator
  <2>1. ASSUME NEW c \in Controls, UpdateQueueControls(c) PROVE OpenInv!(w)'
    BY <2>1 DEF UpdateQueueControls
  <2> QED
    BY <1>1, <1>3, <2>1 DEF Operator, Cancel, ReleaseNow, FlipEmailToggle
<1>4. CASE AdvanceClock
  BY <1>1, <1>4 DEF AdvanceClock
<1>5. ASSUME NEW v \in Worker, Tick(v) \/ Crash(v) PROVE OpenInv!(w)'
  <2>1. CASE ExpireStale(v)
    BY <2>1 DEF ExpireStale
  <2>2. CASE ReadControls(v)
    <3>1. QueueSettings = {controls}
      BY DEF QueueSettings
    <3> QED
      BY <2>2, <3>1 DEF ReadControls
  <2>3. CASE ReadPending(v)
    BY <2>3 DEF ReadPending, Sendable
  <2>4. ASSUME NEW m \in Msg, Claim(v, m) \/ ClaimLost(v, m) PROVE OpenInv!(w)'
    BY <2>4 DEF Claim, ClaimLost
  <2>5. CASE EndTick(v) \/ Crash(v)
    BY <2>5 DEF EndTick, Crash, Exit
  <2>6. CASE Suppress(v) \/ Clear(v) \/ Transmit(v)
    BY <2>6 DEF Suppress, Clear, Transmit
  <2>7. CASE MarkSent(v) \/ ReturnToHeld(v) \/ MarkAttemptFailed(v)
    BY <2>7 DEF MarkSent, ReturnToHeld, MarkAttemptFailed, Resume, Returns, Caught,
                OutcomeFrame
  <2> QED
    BY <1>5, <2>1, <2>2, <2>3, <2>4, <2>5, <2>6, <2>7 DEF Tick
<1> QED
  BY <1>1, <1>2, <1>3, <1>4, <1>5 DEF Next, vars

\* Where the controls can be read, disabling the queue holds everything from the next
\* tick on, for any number of workers and any flips of the control.
THEOREM DisabledHolds == ~Faults => (Spec => DisabledQueueHolds)
<1> SUFFICES ASSUME ~Faults PROVE Spec => DisabledQueueHolds
  OBVIOUS
<1> DEFINE Holds == \A w \in Worker : pc[w] = "cleared" /\ delivered' # delivered => wasOpen[w]
<1>1. Init => OpenInv
  BY DEF Init, OpenInv, Busy
<1>2. TypeOK /\ OpenInv /\ [Next]_vars => OpenInv'
  BY OpenStep
<1>3. OpenInv => Holds
  BY DEF OpenInv, Busy
<1>4. OpenInv /\ [Next]_vars => [Holds]_vars
  BY <1>3
<1> QED
  BY <1>1, <1>2, <1>4, TypeCorrect, PTL DEF Spec, DisabledQueueHolds

-----------------------------------------------------------------------------
(***************************************************************************)
(* One worker: nothing expires a row while it is being sent.               *)
(***************************************************************************)

OneWorker == \A v, w \in Worker : v = w

\* The row a worker holds is there and has its body, whatever the worker wrote.
HeldRowIntact ==
  \A w \in Worker : pc[w] \in Busy => status[current[w]] \notin {"expired", "absent"}

LEMMA RedactedStep ==
  ASSUME TypeOK, ClaimsExclusive, OneWorker, HeldRowIntact, RedactedIffExpired, [Next]_vars
  PROVE  HeldRowIntact' /\ RedactedIffExpired'
<1> USE DEF TypeOK, ClaimsExclusive, OneWorker, HeldRowIntact, RedactedIffExpired, Busy,
            rowVars, copyVars, workerVars, historyVars, envVars
<1>1. CASE Caller
  BY <1>1 DEF Caller, Enqueue, EnqueueFails, Insert, Unsubmitted, SendInline
<1>2. CASE Operator
  BY <1>2 DEF Operator, Cancel, ReleaseNow, UpdateQueueControls, FlipEmailToggle
<1>3. CASE AdvanceClock \/ UNCHANGED vars
  BY <1>3 DEF AdvanceClock, vars
<1>4. ASSUME NEW w \in Worker, Tick(w) \/ Crash(w)
      PROVE  HeldRowIntact' /\ RedactedIffExpired'
  <2>a. \A v \in Worker : v = w
    OBVIOUS
  <2>1. CASE ExpireStale(w)
    <3>1. \A v \in Worker : pc'[v] = "gate"
      BY <2>1 DEF ExpireStale
    <3>2. \A m \in Msg : redacted'[m] <=> status'[m] = "expired"
      BY <2>1 DEF ExpireStale
    <3> QED
      BY <3>1, <3>2
  <2>2. CASE ReadControls(w) \/ ReadPending(w) \/ EndTick(w) \/ Suppress(w) \/ Clear(w)
             \/ Crash(w)
    BY <2>2 DEF ReadControls, ReadPending, EndTick, Exit, Suppress, Clear, Crash
  <2>3. ASSUME NEW m \in Msg, Claim(w, m) \/ ClaimLost(w, m)
        PROVE  HeldRowIntact' /\ RedactedIffExpired'
    BY <2>3 DEF Claim, ClaimLost
  <2>4. CASE Transmit(w)
    BY <2>4 DEF Transmit
  <2>5. CASE MarkSent(w) \/ ReturnToHeld(w) \/ MarkAttemptFailed(w)
    <3>1. pc[w] \in Busy /\ redacted' = redacted /\ (Returns(w) \/ Caught(w))
      BY <2>5 DEF MarkSent, ReturnToHeld, MarkAttemptFailed, OutcomeFrame
    <3>2. /\ status'[current[w]] \notin {"expired", "absent"}
          /\ \A m \in Msg : m # current[w] => status'[m] = status[m]
      BY <2>5, <3>1 DEF MarkSent, ReturnToHeld, MarkAttemptFailed, Caught
    <3>3. pc'[w] \in Busy => current'[w] = current[w]
      BY <3>1 DEF Returns, Resume, Caught
    <3> QED
      BY <2>a, <3>1, <3>2, <3>3
  <2> QED
    BY <1>4, <2>1, <2>2, <2>3, <2>4, <2>5 DEF Tick
<1> QED
  BY <1>1, <1>2, <1>3, <1>4 DEF Next

\* With one worker, bodies are stripped from expired rows and from no others.
THEOREM RedactedExactly == OneWorker => (Spec => []RedactedIffExpired)
<1> SUFFICES ASSUME OneWorker PROVE Spec => []RedactedIffExpired
  OBVIOUS
<1>1. Init => HeldRowIntact /\ RedactedIffExpired
  BY DEF Init, HeldRowIntact, RedactedIffExpired, Busy
<1>2. TypeOK /\ ClaimsExclusive /\ HeldRowIntact /\ RedactedIffExpired /\ [Next]_vars
        => (HeldRowIntact /\ RedactedIffExpired)'
  BY RedactedStep
<1> QED
  BY <1>1, <1>2, TypeCorrect, ClaimsAreExclusive, PTL DEF Spec
=============================================================================
