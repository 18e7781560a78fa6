---------------------------- MODULE MCLotLedger ----------------------------
\* Small instances of LotLedger for TLC.
EXTENDS LotLedger, TLC

CONSTANTS w1, w2, r1, r2, correction, script, reject

OneWorker   == {w1}
TwoWorkers  == {w1, w2}
TwoReceipts == {r1, r2}

TwoAmounts == r1 :> 1 @@ r2 :> 2
TwoCharges == <<1, 1>>
OneCent == correction :> 1

WorkersInterchangeable == Permutations({w1, w2})
=============================================================================
