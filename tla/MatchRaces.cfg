\* Three calls of any kind about one item, with crashes and failing postings.
SPECIFICATION Spec
CONSTANTS
  r1 = r1
  r2 = r2
  r3 = r3
  right = right
  wrong = wrong
  NoPayload = NoPayload
  Request <- ThreeRequests
  Payload <- TwoPayloads
  EnginePayload = right
  KnownPayload = wrong
SYMMETRY RequestsInterchangeable
CHECK_DEADLOCK FALSE
INVARIANTS
  TypeOK
  AllocatedIsPosted
  ReportedIsPosted
  MirroredOnce
PROPERTIES
  DecidedIsFinal
