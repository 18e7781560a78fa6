-------------------------- MODULE MCOutboundQueue --------------------------
(***************************************************************************)
(* Instances of OutboundQueue for TLC.                                     *)
(***************************************************************************)
EXTENDS OutboundQueue, TLC

CONSTANTS m1, m2, w1, w2

OneMessage  == {m1}
TwoMessages == {m1, m2}
OneWorker   == {w1}
TwoWorkers  == {w1, w2}

ShortHold   == {1}
Window      == {2}
LongWindow  == {3}
StaysOn     == {TRUE}
OnAndOff    == {TRUE, FALSE}
AskForLess  == {0, 1}
AskEither   == {1, 3}
AskNothing  == {0}
HoldOfTwo   == {2}

MessagesInterchangeable == Permutations(Msg)
=============================================================================
