\* One call at a time: repeated allocations and reversals against the credit.
SPECIFICATION Spec
CONSTANTS
  w1 = w1
  w2 = w2
  r1 = r1
  r2 = r2
  correction = correction
  script = script
  reject = reject
  Worker <- OneWorker
  Receipt <- TwoReceipts
  Amount <- TwoAmounts
  Linked = {r1}
  Charge <- TwoCharges
  Adjustment = {correction}
  Cents <- OneCent
  Key = {script, reject}
  RejectKey = reject
  MaxCredit = 2
  MayFail = FALSE
CHECK_DEADLOCK FALSE
INVARIANT
  CreditIsBacked
