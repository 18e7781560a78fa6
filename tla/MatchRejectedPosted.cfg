\* Three calls about one item: is a rejected item unposted?
SPECIFICATION Spec
CONSTANTS
  r1 = r1
  r2 = r2
  r3 = r3
  right = right
  wrong = wrong
  NoPayload = NoPayload
  Request <- ThreeRequests
  Payload <- TwoPayloads
  EnginePayload = right
  KnownPayload = wrong
SYMMETRY RequestsInterchangeable
CHECK_DEADLOCK FALSE
INVARIANTS
  RejectedIsUnposted
