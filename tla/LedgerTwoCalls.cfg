\* Two overlapping calls of any kind about one lot.
SPECIFICATION Spec
CONSTANTS
  w1 = w1
  w2 = w2
  r1 = r1
  r2 = r2
  correction = correction
  script = script
  reject = reject
  Worker <- TwoWorkers
  Receipt <- TwoReceipts
  Amount <- TwoAmounts
  Linked = {r1}
  Charge <- TwoCharges
  Adjustment = {correction}
  Cents <- OneCent
  Key = {script, reject}
  RejectKey = reject
  MaxCredit = 2
  MayFail = TRUE
SYMMETRY WorkersInterchangeable
CHECK_DEADLOCK FALSE
INVARIANTS
  TypeOK
  PaidIsAllocated
  NeverOverAllocated
  ReversedPaysNothing
  SurplusIsCredited
PROPERTIES
  PlacedInFull
  CreditIsLeftover
  AdjustedInFull
