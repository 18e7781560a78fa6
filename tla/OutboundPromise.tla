-------------------------- MODULE OutboundPromise --------------------------
(***************************************************************************)
(* What the outbound queue promises about each message, without workers,   *)
(* claims or clocks: a submitted message stays pending until it settles    *)
(* once and for good; the provider accepts it only while it is pending and *)
(* at most MaxAttempts times; SENT is true.                                *)
(***************************************************************************)
EXTENDS Naturals

CONSTANTS Msg, MaxAttempts

VARIABLES outcome, accepted

promiseVars == <<outcome, accepted>>

Init ==
  /\ outcome = [m \in Msg |-> "absent"]
  /\ accepted = [m \in Msg |-> 0]

Submit(m) ==
  /\ outcome[m] = "absent"
  /\ outcome' = [outcome EXCEPT ![m] = "pending"]
  /\ UNCHANGED accepted

Accept(m) ==
  /\ outcome[m] = "pending"
  /\ accepted[m] < MaxAttempts
  /\ accepted' = [accepted EXCEPT ![m] = @ + 1]
  /\ UNCHANGED outcome

Sent(m) ==
  /\ outcome[m] = "pending"
  /\ accepted[m] > 0
  /\ outcome' = [outcome EXCEPT ![m] = "sent"]
  /\ UNCHANGED accepted

\* Several messages may expire in one sweep.
Drop(S, how) ==
  /\ \A m \in S : outcome[m] = "pending"
  /\ outcome' = [m \in Msg |-> IF m \in S THEN how ELSE outcome[m]]
  /\ UNCHANGED accepted

Next ==
  \/ \E m \in Msg : Submit(m) \/ Accept(m) \/ Sent(m)
  \/ \E S \in SUBSET Msg, how \in {"cancelled", "expired", "failed"} : Drop(S, how)

Spec == Init /\ [][Next]_promiseVars
=============================================================================
