------------------------ MODULE IdempotentCommands -------------------------
(***************************************************************************)
(* What a command service promises its callers about idempotency keys,     *)
(* without sessions, locks or retries: each key is decided once and for    *)
(* good, and the accepted commands take effect one after the other, each   *)
(* exactly once.                                                           *)
(***************************************************************************)
EXTENDS Naturals, FiniteSets

CONSTANTS CreateKey, PublishKey

VARIABLES
  outcome,  \* "none" until decided
  history   \* the keys that took effect, numbered from 1

commandVars == <<outcome, history>>

Done == Cardinality(DOMAIN history)

Init ==
  /\ outcome = [k \in CreateKey \cup PublishKey |-> "none"]
  /\ history = [n \in {} |-> n]

Decide(k, how) ==
  /\ outcome[k] = "none"
  /\ outcome' = [outcome EXCEPT ![k] = how]

Apply(k) ==
  /\ Decide(k, "created")
  /\ k \in CreateKey <=> Done = 0
  /\ history' = [n \in 1..(Done + 1) |-> IF n <= Done THEN history[n] ELSE k]

\* A create is refused only when there is a definition.
Conflict(k) ==
  /\ k \in CreateKey
  /\ Done > 0
  /\ Decide(k, "conflict")
  /\ UNCHANGED history

\* A publish is refused for want of a definition; one may have appeared since it
\* looked.
NotFound(k) ==
  /\ k \in PublishKey
  /\ Decide(k, "not_found")
  /\ UNCHANGED history

Next == \E k \in CreateKey \cup PublishKey : Apply(k) \/ Conflict(k) \/ NotFound(k)

Spec == Init /\ [][Next]_commandVars
=============================================================================
