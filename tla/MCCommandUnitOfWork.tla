------------------------ MODULE MCCommandUnitOfWork ------------------------
(***************************************************************************)
(* Instances of CommandUnitOfWork for TLC.                                 *)
(***************************************************************************)
EXTENDS CommandUnitOfWork

CONSTANTS c1, c2, p1, p2, s1, s2

TwoCreates   == {c1, c2}
OneCreate    == {c1}
TwoPublishes == {p1, p2}
OnePublish   == {p1}
TwoSessions  == {s1, s2}
=============================================================================
