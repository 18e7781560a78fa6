--------------------------- MODULE MCOutboxRelay ---------------------------
(***************************************************************************)
(* Instances of OutboxRelay for TLC.                                       *)
(***************************************************************************)
EXTENDS OutboxRelay

CONSTANTS p1, p2

TwoPollers == {p1, p2}
=============================================================================
