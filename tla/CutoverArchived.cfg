\* One operator, a readable control plane: does a promoted payment route fail closed?
SPECIFICATION Spec
CONSTANTS
  o1 = o1
  o2 = o2
  Unannounced = Unannounced
  Operator <- OneOperator
  Doc = {document}
  Payment = {levy}
  Faults = FALSE
CHECK_DEADLOCK FALSE
PROPERTIES
  PromotedFailsClosed
