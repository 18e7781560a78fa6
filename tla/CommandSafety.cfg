\* Two request handlers, two racing creates and two racing publishes, retried and failing.
SPECIFICATION FairSpec
CONSTANTS
  c1 = c1
  c2 = c2
  p1 = p1
  p2 = p2
  s1 = s1
  s2 = s2
  None = None
  CreateKey <- TwoCreates
  PublishKey <- TwoPublishes
  Session <- TwoSessions
  MaxVersion = 4
INVARIANTS
  TypeOK
  AllOrNothing
  NewestIsActive
PROPERTIES
  EveryRequestEnds
  AppliesOnce
