\* A refused key sent again: is every success true?
SPECIFICATION Spec
CONSTANTS
  c1 = c1
  c2 = c2
  p1 = p1
  p2 = p2
  s1 = s1
  s2 = s2
  None = None
  CreateKey <- OneCreate
  PublishKey <- OnePublish
  Session <- TwoSessions
  MaxVersion = 3
INVARIANTS
  SuccessIsTrue
