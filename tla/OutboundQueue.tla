--------------------------- MODULE OutboundQueue ---------------------------
(***************************************************************************)
(* The outbound message queue of one building: rows of the                 *)
(* `outbound_messages` collection (services/outbound_queue_service.py),    *)
(* the worker tick that transmits them (cron/cron_outbound_queue.py), the  *)
(* callers that submit mail (utils/email.py::send_email_async) and the     *)
(* operator console (routers/outbound_messages.py).                        *)
(*                                                                         *)
(* A worker is one process running process_building().  It copies rows and *)
(* controls, awaits between the copy and every use of it, and may be       *)
(* killed at any await.  Every database call is one document update, so    *)
(* one action; everything between two awaits is part of the action that    *)
(* follows it.                                                             *)
(***************************************************************************)
EXTENDS Integers

CONSTANTS
  Msg,            \* messages callers may submit
  Worker,         \* processes that may run a tick at the same time
  None,           \* "no message"
  MaxAttempts,    \* MAX_ATTEMPTS, the retry budget
  MaxTime,        \* bound on the clock: no submission whose window ends later
  HoldChoices,    \* hold_seconds a building may configure, in clock units
  ExpiryChoices,  \* expiry_hours a building may configure, in clock units
  EnabledChoices, \* what an operator may set the control `enabled` to
  RequestChoices, \* hold_seconds a caller may pass; 0 also stands for None
  Faults          \* whether database calls may fail (TRUE) or not

ASSUME QueueAssumption ==
  /\ None \notin Msg
  /\ MaxAttempts \in Nat \ {0}
  /\ MaxTime \in Nat
  /\ HoldChoices \subseteq Nat /\ HoldChoices # {}
  /\ ExpiryChoices \subseteq Nat /\ ExpiryChoices # {}
  /\ EnabledChoices \subseteq BOOLEAN
  /\ RequestChoices \subseteq Nat
  /\ Faults \in BOOLEAN

VARIABLES
  clock,        \* wall clock, shared by all processes of the host
  controls,     \* the building's row in `settings` (enabled, hold, expiry)
  emailToggle,  \* send policy of the send layer: TRUE lets mail flow
  fallen,       \* messages whose caller saw enqueue() raise and will send inline
  status,       \* status of each row; "absent" before it is inserted
  attempts,     \* attempts of each row
  holdUntil,    \* hold_until of each row
  expiresAt,    \* expires_at of each row
  redacted,     \* whether the row's body was stripped
  pc,           \* where each worker is in its tick
  seenEnabled,  \* worker's copy of the `enabled` control
  seenNow,      \* worker's copy of the clock
  todo,         \* rows the worker found sendable and has not handled yet
  seenAttempts, \* worker's copy of the rows' attempts
  current,      \* row the worker has claimed
  delivered,    \* history: times the provider accepted each message
  earliest,     \* history: submission time plus the building's hold as read then
  waived,       \* history: rows whose hold an operator waived (released_by)
  wasOpen,      \* history: whether the queue was enabled at some moment
                \*   since the worker's tick began
  unheard       \* history: rows a tick wrote without hearing so (the write was
                \*   applied and raised), while a worker still has them

rowVars     == <<status, attempts, holdUntil, expiresAt, redacted>>
copyVars    == <<seenEnabled, seenNow, todo, seenAttempts>>
workerVars  == <<pc, copyVars, current>>
historyVars == <<delivered, earliest, waived, wasOpen, unheard>>
envVars     == <<clock, controls, emailToggle, fallen>>
vars        == <<envVars, rowVars, workerVars, historyVars>>

Terminal == {"sent", "cancelled", "expired", "failed"}
Status   == Terminal \cup {"absent", "held", "sending"}
Controls == [enabled : BOOLEAN, hold : HoldChoices, expiry : ExpiryChoices]

DefaultControls == [enabled |-> TRUE,
                    hold    |-> CHOOSE h \in HoldChoices : TRUE,
                    expiry  |-> CHOOSE e \in ExpiryChoices : TRUE]

\* get_queue_settings(): the building's row, or the defaults when it is unreadable.
QueueSettings == {controls} \cup (IF Faults THEN {DefaultControls} ELSE {})

\* suppress_if_blocked(): an unreadable toggle lets mail flow.
PolicyAllows == emailToggle \/ Faults

\* A tick's program counter, in the order of process_building().
PC == {"idle",     \* no process
       "gate",     \* expire_stale() done, controls not read yet
       "scan",     \* controls and clock copied, rows not read yet
       "loop",     \* rows copied
       "claimed",  \* HELD -> SENDING done, send_email_async() called
       "cleared",  \* the send policy let the message pass
       "accepted", \* the provider reported success
       "refused",  \* the send layer suppressed the message
       "unsent",   \* the send layer reported no success
       "caught"}   \* an exception inside the try block was caught

\* Workers that hold a claim: they may still transmit or write the row's outcome.
Busy == {"claimed", "cleared", "accepted", "refused", "unsent", "caught"}

TypeOK ==
  /\ clock \in 0..MaxTime
  /\ controls \in Controls
  /\ emailToggle \in BOOLEAN
  /\ status \in [Msg -> Status]
  /\ attempts \in [Msg -> Nat]
  /\ holdUntil \in [Msg -> Nat]
  /\ expiresAt \in [Msg -> Nat]
  /\ redacted \in [Msg -> BOOLEAN]
  /\ pc \in [Worker -> PC]
  /\ seenEnabled \in [Worker -> BOOLEAN]
  /\ seenNow \in [Worker -> Nat]
  /\ todo \in [Worker -> SUBSET Msg]
  /\ seenAttempts \in [Worker -> [Msg -> Nat]]
  /\ current \in [Worker -> Msg \cup {None}]
  /\ delivered \in [Msg -> Nat]
  /\ earliest \in [Msg -> Nat]
  /\ waived \subseteq Msg
  /\ wasOpen \in [Worker -> BOOLEAN]
  /\ fallen \subseteq Msg
  /\ unheard \subseteq Msg

Init ==
  /\ clock = 0
  /\ controls = DefaultControls
  /\ emailToggle = TRUE
  /\ status = [m \in Msg |-> "absent"]
  /\ attempts = [m \in Msg |-> 0]
  /\ holdUntil = [m \in Msg |-> 0]
  /\ expiresAt = [m \in Msg |-> 0]
  /\ redacted = [m \in Msg |-> FALSE]
  /\ pc = [w \in Worker |-> "idle"]
  /\ seenEnabled = [w \in Worker |-> TRUE]
  /\ seenNow = [w \in Worker |-> 0]
  /\ todo = [w \in Worker |-> {}]
  /\ seenAttempts = [w \in Worker |-> [m \in Msg |-> 0]]
  /\ current = [w \in Worker |-> None]
  /\ delivered = [m \in Msg |-> 0]
  /\ earliest = [m \in Msg |-> 0]
  /\ waived = {}
  /\ wasOpen = [w \in Worker |-> TRUE]
  /\ fallen = {}
  /\ unheard = {}

-----------------------------------------------------------------------------
(***************************************************************************)
(* Callers: send_email_async(..., _from_worker=False).  The send policy is *)
(* consulted first; a suppressed message leaves no row.                    *)
(***************************************************************************)

\* Mutated form: a caller may shorten the hold.
ResolveHoldAsRequested(requested, configured) ==
  IF requested > 0 THEN requested ELSE configured

\* The building's hold is a floor, never a ceiling.
ResolveHold(requested, configured) ==
  IF requested > configured THEN requested ELSE configured

\* A caller may submit m: it is nowhere yet.
Unsubmitted(m) == status[m] = "absent" /\ delivered[m] = 0 /\ m \notin fallen

\* insert_one() is applied.
Insert(m, requested, settings) ==
  /\ status' = [status EXCEPT ![m] = "held"]
  /\ holdUntil' = [holdUntil EXCEPT ![m] = clock + ResolveHold(requested, settings.hold)]
  /\ expiresAt' = [expiresAt EXCEPT ![m] = clock + settings.expiry]
  /\ earliest' = [earliest EXCEPT ![m] = clock + settings.hold]
  /\ UNCHANGED <<attempts, redacted>>

Enqueue(m, requested, settings) ==
  /\ PolicyAllows
  /\ Unsubmitted(m)
  /\ clock + settings.expiry <= MaxTime      \* bound
  /\ Insert(m, requested, settings)
  /\ UNCHANGED <<envVars, workerVars, delivered, waived, wasOpen, unheard>>

\* enqueue() raises, its insert applied or not: the caller falls through to the
\* provider and knows of no row.
EnqueueFails(m, requested, settings) ==
  /\ Faults
  /\ PolicyAllows
  /\ Unsubmitted(m)
  /\ clock + settings.expiry <= MaxTime      \* bound
  /\ \/ Insert(m, requested, settings)
     \/ UNCHANGED <<rowVars, earliest>>
  /\ fallen' = fallen \cup {m}
  /\ UNCHANGED <<clock, controls, emailToggle, workerVars, delivered, waived,
                 wasOpen, unheard>>

\* The caller reaches the provider, which may accept the message or not.
SendInline(m) ==
  /\ m \in fallen
  /\ fallen' = fallen \ {m}
  /\ \/ delivered' = [delivered EXCEPT ![m] = @ + 1]
     \/ UNCHANGED delivered
  /\ UNCHANGED <<clock, controls, emailToggle, rowVars, workerVars, earliest,
                 waived, wasOpen, unheard>>

-----------------------------------------------------------------------------
(***************************************************************************)
(* The operator console.                                                   *)
(***************************************************************************)

\* Mutated form: cancel() also accepts a row a worker has claimed.
CancelClaimed(m) ==
  /\ status[m] \in {"held", "sending"}
  /\ status' = [status EXCEPT ![m] = "cancelled"]
  /\ UNCHANGED <<attempts, holdUntil, expiresAt, redacted,
                 envVars, workerVars, historyVars>>

\* Mutated form: the update is conditioned on the id alone.
CancelById(m) ==
  /\ status[m] # "absent"
  /\ status' = [status EXCEPT ![m] = "cancelled"]
  /\ UNCHANGED <<attempts, holdUntil, expiresAt, redacted,
                 envVars, workerVars, historyVars>>

\* Mutated form: a status no reader of the collection knows.
CancelMisspelt(m) ==
  /\ status[m] = "held"
  /\ status' = [status EXCEPT ![m] = "canceled"]
  /\ UNCHANGED <<attempts, holdUntil, expiresAt, redacted,
                 envVars, workerVars, historyVars>>

\* cancel(), also each element of bulk_cancel().
Cancel(m) ==
  /\ status[m] = "held"
  /\ status' = [status EXCEPT ![m] = "cancelled"]
  /\ UNCHANGED <<attempts, holdUntil, expiresAt, redacted,
                 envVars, workerVars, historyVars>>

ReleaseNow(m) ==
  /\ status[m] = "held"
  /\ holdUntil' = [holdUntil EXCEPT ![m] = clock]
  /\ waived' = waived \cup {m}
  /\ UNCHANGED <<status, attempts, expiresAt, redacted,
                 envVars, workerVars, delivered, earliest, wasOpen, unheard>>

UpdateQueueControls(c) ==
  /\ controls' = c
  /\ wasOpen' = [w \in Worker |-> wasOpen[w] \/ c.enabled]
  /\ UNCHANGED <<clock, emailToggle, fallen, rowVars, workerVars,
                 delivered, earliest, waived, unheard>>

\* email_notifications_enabled, flipped in the feature-toggle console.
FlipEmailToggle ==
  /\ emailToggle' = ~emailToggle
  /\ UNCHANGED <<clock, controls, fallen, rowVars, workerVars, historyVars>>

-----------------------------------------------------------------------------
(***************************************************************************)
(* The worker tick, process_building().                                    *)
(***************************************************************************)

\* Mutated form: a claimed row never expires.
StaleHeld(m) == status[m] = "held" /\ expiresAt[m] <= clock

\* The filter of expire_stale().
Stale(m) == status[m] \in {"held", "sending"} /\ expiresAt[m] <= clock

\* expire_stale(): first step of a tick.
ExpireStale(w) ==
  /\ pc[w] = "idle"
  /\ status' = [m \in Msg |-> IF Stale(m) THEN "expired" ELSE status[m]]
  /\ redacted' = [m \in Msg |-> Stale(m) \/ redacted[m]]
  /\ pc' = [pc EXCEPT ![w] = "gate"]
  /\ wasOpen' = [wasOpen EXCEPT ![w] = controls.enabled]
  /\ UNCHANGED <<attempts, holdUntil, expiresAt, copyVars, current,
                 envVars, delivered, earliest, waived, unheard>>

\* get_queue_settings(), then now = datetime.now().
ReadControls(w) ==
  /\ pc[w] = "gate"
  /\ \E c \in QueueSettings : seenEnabled' = [seenEnabled EXCEPT ![w] = c.enabled]
  /\ seenNow' = [seenNow EXCEPT ![w] = clock]
  /\ pc' = [pc EXCEPT ![w] = "scan"]
  /\ UNCHANGED <<todo, seenAttempts, current, envVars, rowVars, historyVars>>

\* Mutated form: the building's `enabled` control is not consulted.
SendableUngated(w, m) ==
  /\ status[m] = "held"
  /\ ~ (expiresAt[m] <= seenNow[w])
  /\ holdUntil[m] <= seenNow[w]

\* sendable_reason() on the worker's copies.
Sendable(w, m) ==
  /\ status[m] = "held"
  /\ ~ (expiresAt[m] <= seenNow[w])
  /\ seenEnabled[w]
  /\ holdUntil[m] <= seenNow[w]

\* find({"status": held}), filtered by sendable_reason(), a pure function of the
\* copies: the controls and the clock are not looked at again in this tick.
ReadPending(w) ==
  LET due == {m \in Msg : Sendable(w, m)} IN
  /\ pc[w] = "scan"
  /\ todo' = [todo EXCEPT ![w] = due]
  /\ seenAttempts' = [seenAttempts EXCEPT ![w] =
                        [m \in Msg |-> IF m \in due THEN attempts[m] ELSE 0]]
  /\ seenEnabled' = [seenEnabled EXCEPT ![w] = TRUE]
  /\ seenNow' = [seenNow EXCEPT ![w] = 0]
  /\ pc' = [pc EXCEPT ![w] = "loop"]
  /\ UNCHANGED <<current, envVars, rowVars, historyVars>>

\* Mutated form: the update is conditioned on the id alone.
ClaimById(w, m) ==
  /\ pc[w] = "loop" /\ m \in todo[w]
  /\ status' = [status EXCEPT ![m] = "sending"]
  /\ current' = [current EXCEPT ![w] = m]
  /\ todo' = [todo EXCEPT ![w] = @ \ {m}]
  /\ pc' = [pc EXCEPT ![w] = "claimed"]
  /\ UNCHANGED <<attempts, holdUntil, expiresAt, redacted, seenEnabled, seenNow,
                 seenAttempts, envVars, historyVars>>

\* claim_for_send() matched a HELD row: the point of no return.
Claim(w, m) ==
  /\ pc[w] = "loop" /\ m \in todo[w]
  /\ status[m] = "held"
  /\ status' = [status EXCEPT ![m] = "sending"]
  /\ current' = [current EXCEPT ![w] = m]
  /\ todo' = [todo EXCEPT ![w] = @ \ {m}]
  /\ pc' = [pc EXCEPT ![w] = "claimed"]
  /\ UNCHANGED <<attempts, holdUntil, expiresAt, redacted, seenEnabled, seenNow,
                 seenAttempts, envVars, historyVars>>

\* claim_for_send() matched nothing: another worker or an operator was first.
ClaimLost(w, m) ==
  /\ pc[w] = "loop" /\ m \in todo[w]
  /\ status[m] # "held"
  /\ todo' = [todo EXCEPT ![w] = @ \ {m}]
  /\ UNCHANGED <<pc, seenEnabled, seenNow, seenAttempts, current,
                 envVars, rowVars, historyVars>>

\* The row w stops handling, if no other worker has it: what the row says is then all
\* there is to know of it.
LetGo(w) == {m \in {current[w]} : \A v \in Worker \ {w} : current[v] # m}

\* The process ends and its local variables with it.
Exit(w) ==
  /\ pc' = [pc EXCEPT ![w] = "idle"]
  /\ current' = [current EXCEPT ![w] = None]
  /\ todo' = [todo EXCEPT ![w] = {}]
  /\ seenEnabled' = [seenEnabled EXCEPT ![w] = TRUE]
  /\ seenNow' = [seenNow EXCEPT ![w] = 0]
  /\ seenAttempts' = [seenAttempts EXCEPT ![w] = [m \in Msg |-> 0]]
  /\ wasOpen' = [wasOpen EXCEPT ![w] = TRUE]
  /\ unheard' = unheard \ LetGo(w)
  /\ UNCHANGED <<envVars, rowVars, delivered, earliest, waived>>

EndTick(w) == pc[w] = "loop" /\ todo[w] = {} /\ Exit(w)

\* send_email_async(_from_worker=True): the policy check refuses the message.
Suppress(w) ==
  /\ pc[w] = "claimed"
  /\ ~emailToggle
  /\ pc' = [pc EXCEPT ![w] = "refused"]
  /\ UNCHANGED <<copyVars, current, envVars, rowVars, historyVars>>

\* ... or lets it pass; the policy is not looked at again before the provider call.
Clear(w) ==
  /\ pc[w] = "claimed"
  /\ PolicyAllows
  /\ pc' = [pc EXCEPT ![w] = "cleared"]
  /\ UNCHANGED <<copyVars, current, envVars, rowVars, historyVars>>

\* The provider call.  It may accept the message and still report no success (a
\* timeout after acceptance), and a database call of the send layer may raise.
Transmit(w) ==
  /\ pc[w] = "cleared"
  /\ \/ /\ delivered' = [delivered EXCEPT ![current[w]] = @ + 1]
        /\ pc' = [pc EXCEPT ![w] = "accepted"]
     \/ /\ \/ delivered' = [delivered EXCEPT ![current[w]] = @ + 1]
           \/ UNCHANGED delivered
        /\ \/ pc' = [pc EXCEPT ![w] = "unsent"]
           \/ Faults /\ pc' = [pc EXCEPT ![w] = "caught"]
  /\ UNCHANGED <<copyVars, current, envVars, rowVars, earliest, waived, wasOpen,
                 unheard>>

Resume(w) ==
  /\ pc' = [pc EXCEPT ![w] = "loop"]
  /\ current' = [current EXCEPT ![w] = None]

\* How a write that was applied comes back: with its answer, or as an exception
\* of the try block.  One raised in the except branch itself is a Crash.
Returns(w) ==
  \/ /\ Resume(w)
     /\ unheard' = unheard \ LetGo(w)
  \/ /\ Faults /\ pc[w] # "caught"
     /\ pc' = [pc EXCEPT ![w] = "caught"]
     /\ unheard' = unheard \cup {current[w]}
     /\ UNCHANGED current

\* A write raises without being applied.
Caught(w) ==
  /\ Faults /\ pc[w] # "caught"
  /\ pc' = [pc EXCEPT ![w] = "caught"]
  /\ UNCHANGED <<current, status, attempts, unheard>>

\* What no write of an outcome touches.
OutcomeFrame == UNCHANGED <<holdUntil, expiresAt, redacted, copyVars, envVars,
                            delivered, earliest, waived, wasOpen>>

\* mark_sent(): not conditioned on the row's status.
MarkSent(w) ==
  /\ pc[w] = "accepted"
  /\ \/ /\ status' = [status EXCEPT ![current[w]] = "sent"]
        /\ UNCHANGED attempts
        /\ Returns(w)
     \/ Caught(w)
  /\ OutcomeFrame

\* return_to_held(): only a row that is still SENDING.
ReturnToHeld(w) ==
  /\ pc[w] = "refused"
  /\ \/ /\ status' = [status EXCEPT ![current[w]] =
                        IF @ = "sending" THEN "held" ELSE @]
        /\ UNCHANGED attempts
        /\ Returns(w)
     \/ Caught(w)
  /\ OutcomeFrame

\* Mutated form: one attempt more than the budget.
MarkAttemptFailedLate(w) ==
  LET m     == current[w]
      count == seenAttempts[w][m] + 1
  IN
  /\ pc[w] \in {"unsent", "caught"}
  /\ \/ /\ status' = [status EXCEPT ![m] =
                        IF count > MaxAttempts THEN "failed" ELSE "held"]
        /\ attempts' = [attempts EXCEPT ![m] = count]
        /\ Returns(w)
     \/ Caught(w)
  /\ OutcomeFrame

\* mark_attempt_failed(), of the else and of the except branch: not conditioned on
\* the row's status, and the new count comes from the copy taken by ReadPending.
MarkAttemptFailed(w) ==
  LET m     == current[w]
      count == seenAttempts[w][m] + 1
  IN
  /\ pc[w] \in {"unsent", "caught"}
  /\ \/ /\ status' = [status EXCEPT ![m] =
                        IF count >= MaxAttempts THEN "failed" ELSE "held"]
        /\ attempts' = [attempts EXCEPT ![m] = count]
        /\ Returns(w)
     \/ Caught(w)
  /\ OutcomeFrame

\* The process is killed, or a database call outside the try block raises; one that
\* was applied (claim_for_send() above all) is its action, and then this.
Crash(w) == pc[w] # "idle" /\ Exit(w)

AdvanceClock ==
  /\ clock < MaxTime
  /\ clock' = clock + 1
  /\ UNCHANGED <<controls, emailToggle, fallen, rowVars, workerVars, historyVars>>

-----------------------------------------------------------------------------
Tick(w) ==
  \/ ExpireStale(w)
  \/ ReadControls(w)
  \/ ReadPending(w)
  \/ \E m \in Msg : Claim(w, m) \/ ClaimLost(w, m)
  \/ EndTick(w)
  \/ Suppress(w)
  \/ Clear(w)
  \/ Transmit(w)
  \/ MarkSent(w)
  \/ ReturnToHeld(w)
  \/ MarkAttemptFailed(w)

Operator ==
  \/ \E m \in Msg : Cancel(m) \/ ReleaseNow(m)
  \/ \E c \in Controls : c.enabled \in EnabledChoices /\ UpdateQueueControls(c)
  \/ FlipEmailToggle

Caller == \E m \in Msg :
  \/ \E r \in RequestChoices, c \in QueueSettings :
       Enqueue(m, r, c) \/ EnqueueFails(m, r, c)
  \/ SendInline(m)

Next ==
  \/ Caller
  \/ Operator
  \/ \E w \in Worker : Tick(w) \/ Crash(w)
  \/ AdvanceClock

Spec == Init /\ [][Next]_vars

\* The timer starts ticks for ever and a started tick takes its steps; nothing
\* is assumed of callers, operators or crashes.
Fairness == WF_vars(AdvanceClock) /\ \A w \in Worker : WF_vars(Tick(w))

FairSpec == Spec /\ Fairness

-----------------------------------------------------------------------------
(***************************************************************************)
(* Properties.                                                             *)
(***************************************************************************)

\* A claim is exclusive: two workers never hold the same message, and a claimed
\* message is SENDING or was expired under its worker, never HELD again.  This
\* is what claim_for_send() promises ("stops two workers sending the same
\* message") although mark_sent() and mark_attempt_failed() write unconditionally.
\* It is lost, for a message, when a tick's write of it is applied and still raises:
\* the row is released, or SENT, while its worker goes on to the except branch; and
\* restored when no worker has the message any more.
ClaimsExclusive ==
  /\ \A w \in Worker : pc[w] \in Busy =>
       /\ current[w] \in Msg
       /\ current[w] \in unheard \/ status[current[w]] \in {"sending", "expired"}
  /\ \A v, w \in Worker :
       v # w /\ pc[v] \in Busy /\ pc[w] \in Busy =>
         current[v] # current[w] \/ current[v] \in unheard

\* A row that was sent, cancelled or failed keeps that status, and the provider
\* never accepts it afterwards: a successful cancel really stops the message,
\* whatever workers had read before it landed.  Two lost answers break this: of a
\* tick's own write, until no worker has the message any more, and of the insert,
\* whose caller still sends the message inline.
SettledIsFinal ==
  [][\A m \in Msg : status[m] \in {"sent", "cancelled", "failed"} /\ m \notin unheard =>
       /\ status'[m] = status[m]
       /\ delivered'[m] = delivered[m] \/ m \in fallen]_vars

\* No tick hands a message to the provider before its submission time plus the
\* building's hold as enqueue() read it then, whatever the caller asked for,
\* however old the worker's copies are and whichever of its answers were lost,
\* unless an operator released it.  Ticks only: a caller that saw enqueue() raise
\* sends at once, even when the insert was applied and the row is HELD.
HoldIsAFloor ==
  [][\A w \in Worker : pc[w] = "cleared" /\ pc'[w] # "cleared" /\ delivered' # delivered =>
       current[w] \in waived \/ clock >= earliest[current[w]]]_vars

\* A tick transmits only if the building's queue was enabled at some moment
\* since the tick began: disabling the queue holds everything from the next
\* tick on, released messages included.
DisabledQueueHolds ==
  [][\A w \in Worker : pc[w] = "cleared" /\ delivered' # delivered => wasOpen[w]]_vars

\* Bodies are stripped from expired rows and from no others: the text of mail
\* that went out is a retained record.
RedactedIffExpired == \A m \in Msg : redacted[m] <=> status[m] = "expired"

\* Every message that enters the queue leaves it: a row stranded in SENDING by a
\* killed worker is closed by a later tick.
EveryMessageSettles ==
  \A m \in Msg : status[m] \in {"held", "sending"} ~> status[m] \in Terminal

\* models/outbound_message.py: "Terminal states are SENT, CANCELLED, EXPIRED
\* and FAILED."
TerminalIsFinal ==
  [][\A m \in Msg : status[m] \in Terminal => status'[m] = status[m]]_vars

\* With one worker the queue keeps the promise of OutboundPromise.
Promise == INSTANCE OutboundPromise WITH
  accepted <- delivered,
  outcome  <- [m \in Msg |-> IF status[m] \in {"held", "sending"}
                             THEN "pending" ELSE status[m]]
KeepsPromise == Promise!Spec
=============================================================================
