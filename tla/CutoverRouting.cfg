\* Two operators and readiness records against an upload or a payment.
SPECIFICATION Spec
CONSTANTS
  o1 = o1
  o2 = o2
  Unannounced = Unannounced
  Operator <- TwoOperators
  Doc = {document}
  Payment = {levy}
  Faults = TRUE
SYMMETRY OperatorsInterchangeable
CHECK_DEADLOCK FALSE
INVARIANTS
  TypeOK
  PairConsistent
  MongoListsAll
PROPERTIES
  LandsAsAnnounced
