-------------------------- MODULE MCMatchDecision --------------------------
\* Small instances of MatchDecision for TLC.
EXTENDS MatchDecision, TLC

CONSTANTS r1, r2, r3, right, wrong

ThreeRequests == {r1, r2, r3}
TwoPayloads   == {right, wrong}

RequestsInterchangeable == Permutations({r1, r2, r3})
=============================================================================
